SPECIFICATION Spec
CONSTANTS
  b1 = b1
  b2 = b2
  Backends <- MCBackends
  Bgw = bgw
  Nobody = nobody
  NoEvent = none
  RingCapacity = 2
  MaxBatch = 2
  MaxSpin = 2
  SyncFlush = FALSE
  MaxPublishes = 2
SYMMETRY MCSymmetry
INVARIANTS TypeOK BatchExclusive WindowFull NoOverrun ReleasedIsDurable
PROPERTY HeadsMonotone
CHECK_DEADLOCK FALSE
