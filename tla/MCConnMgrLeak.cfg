SPECIFICATION Spec
CONSTANTS
  s1 = s1
  s2 = s2
  Sessions = {s1, s2}
  Batches = {1, 2}
  TargetLists <- MCTargetLists
  MaxTargets = 2
  Cap = 2
  None = None
INVARIANTS
  NoLeak
CHECK_DEADLOCK FALSE
