SPECIFICATION CoreSpec
CONSTANTS
  b1 = b1
  b2 = b2
  Backends <- MCBackends
  Bgw = bgw
  Nobody = nobody
  NoEvent = none
  RingCapacity = 2
  MaxBatch = 2
  MaxSpin = 2
  SyncFlush = FALSE
  MaxPublishes = 2
INVARIANT AdvanceOwnsPosition
CHECK_DEADLOCK FALSE
