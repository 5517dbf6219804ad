SPECIFICATION FairSpec
CONSTANTS
  t1 = t1
  t2 = t2
  t3 = t3
  Task = {t1, t2, t3}
  User = User
  Aux = Aux
  After <- MCAfter
  Position <- MCPosition
  MaxConcurrency = 2
  MaxStarts = 2
  MaxForeign = 1
INVARIANT RecordedAsLanded
INVARIANT NoLostUpdate
INVARIANT InGraphOrder
INVARIANT RemovedOnlyLanded
PROPERTY ImplementsContract
PROPERTY StartEnds
CHECK_DEADLOCK FALSE
