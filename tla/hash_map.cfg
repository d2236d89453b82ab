SPECIFICATION Spec
CONSTANTS
  f1 = f1
  f2 = f2
  f3 = f3
  f4 = f4
  f5 = f5
  Fields = {f1, f2, f3, f4, f5}
  Values = {x}
  NoField = nofield
  NoValue = novalue
  Hash <- MCHash
  InitBuckets = 2
  MaxCopy = 2
INVARIANTS TypeOK Reachable EmptyRemains CountsExact 
PROPERTY ImplementsMap
CHECK_DEADLOCK FALSE
