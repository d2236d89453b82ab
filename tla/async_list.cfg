SPECIFICATION Spec
CONSTANTS
  b1 = b1
  b2 = b2
  k1 = k1
  k2 = k2
  f1 = f1
  f2 = f2
  Backends <- OneBackend
  Nobody = nobody
  NoRow = norow
  Keys <- OneKey
  Fields <- TwoFields
  Ords <- SmallOrds
  Configs <- Pushes
  MaxBatch = 2
  MaxCommands = 3
INVARIANTS DrainNeverFails
CHECK_DEADLOCK FALSE
