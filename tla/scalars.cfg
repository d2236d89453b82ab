SPECIFICATION Spec
CONSTANTS
  Base = 2
  Keys = {k1}
  Texts <- MCTexts
  Seconds = {0, 1}
  TicksPerSecond = 2
  Aborts = {"none", "heard"}
  MaxTime = 3
  IntRange <- MCIntRange
INVARIANTS TypeOK 
PROPERTIES ImplementsTtlMap
