SPECIFICATION Spec
CONSTANTS
  s1 = s1
  s2 = s2
  Sessions = {s1, s2}
  Batches = {1, 2}
  TargetLists <- MCTargetLists
  MaxTargets = 2
  Cap = 1
  None = None
INVARIANTS
    TypeOK
    DialsSound
    NoLeakWhenClean
    RowTruthful
PROPERTIES
    Settles
CHECK_DEADLOCK FALSE
