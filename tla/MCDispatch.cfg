SPECIFICATION FairSpec
CONSTANTS
  t1 = t1
  t2 = t2
  Task = {t1, t2}
  MaxConcurrency = 2
  MaxAttemptsPerTask = 2
  MaxAttemptsPerRun = 3
  MaxEpoch = 3
INVARIANT SentAgainOnlyCancelled
INVARIANT OneWorker
INVARIANT CleanReservation
INVARIANT Aligned
INVARIANT OneEffectOpen
INVARIANT KernelFolds
INVARIANT RecoveriesFold
INVARIANT OneUnknown
PROPERTY StartEnds
CHECK_DEADLOCK FALSE
