SPECIFICATION Spec
CONSTANTS
  s1 = s1
  s2 = s2
  k1 = k1
  f1 = f1
  f2 = f2
  Sessions <- MCSessions
  NoRow = norow
  Keys = {k1}
  Fields = {f1, f2}
  Ords <- SmallOrds
  Workloads <- SoloAndPair
INVARIANTS TypeOK OrdsAscend  FlushExact 
CHECK_DEADLOCK FALSE
