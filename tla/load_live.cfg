SPECIFICATION LiveSpec
CONSTANTS
  Backends = {b1, b2, b3}
  StringKeys = {s}
  HashKeys = {h}
  Fields = {f1}
  Whole = whole
  MaxWrites = 1
  MaxFails = 1
  MaxDeaths = 1
  MaxFlushes = 1
INVARIANTS TypeOK  
PROPERTY EventuallyLoaded
CHECK_DEADLOCK FALSE
