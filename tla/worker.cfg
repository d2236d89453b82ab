SPECIFICATION FairSpec
CONSTANTS
  c1 = c1
  c2 = c2
  Clients = {c1, c2}
  TheWorker = bgw
  Nobody = nobody
  Absent = absent
  MaxJobs = 2
  Unimplemented <- AofJobs
  Loads <- JobsAndRing
  RingSize = 8
  BatchMax = 1
  ReclaimEvery = 2
INVARIANTS
  TypeOK
  CountersExact
  
PROPERTIES
  NoSkip
  DueJobsRun
  RingServed
CHECK_DEADLOCK FALSE
