SPECIFICATION LiveSpec
CONSTANTS
  b1 = b1
  b2 = b2
  Backends <- MCBackends
  Bgw = bgw
  Nobody = nobody
  NoEvent = none
  RingCapacity = 2
  MaxBatch = 2
  MaxSpin = 1
  SyncFlush = TRUE
  MaxPublishes = 2
INVARIANTS DurableInOrder
PROPERTIES ImplementsQueue EventsDrained
CHECK_DEADLOCK FALSE
