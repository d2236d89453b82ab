SPECIFICATION FairSpec
CONSTANTS
  b1 = b1
  b2 = b2
  Backends <- MCBackends
  Bgw = bgw
  Nobody = nobody
  Keys = {0, 1}
  Partitions = 2
  RingCapacity = 1
  MaxBatch = 1
  MaxSpin = 2
  Commands <- SetCommands
  Attached <- MCAttached
PROPERTIES SyncCommandsReturn
