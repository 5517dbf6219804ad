SPECIFICATION Spec
CONSTANTS
  t1 = t1
  t2 = t2
  t3 = t3
  t4 = t4
  Task = {t1, t2, t3, t4}
  After <- MCAfter
  Position <- MCPosition
  Overlap <- MCOverlap
  MaxConcurrency = 2
  MaxUndone = 1
INVARIANT IndexIsRebuild
INVARIANT OverlapExcluded
INVARIANT NeverStuck
CHECK_DEADLOCK FALSE
