SPECIFICATION Spec
CONSTANTS
  b1 = b1
  b2 = b2
  k1 = k1
  k2 = k2
  f1 = f1
  f2 = f2
  Backends <- TwoBackends
  Nobody = nobody
  NoRow = norow
  Keys <- OneKey
  Fields <- TwoFields
  Ords <- SmallOrds
  Configs <- HashAndKeys
  MaxBatch = 2
  MaxCommands = 2
INVARIANTS TypeOK  
CHECK_DEADLOCK FALSE
