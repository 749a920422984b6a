SPECIFICATION FairSpec
CONSTANTS
  e1 = e1
  e2 = e2
  f1 = f1
  f2 = f2
  w1 = w1
  w2 = w2
  Event <- EventDef
  Source <- SourceDef
  Cause <- CauseDef
  Worker = {w1, w2}
  MaxAttempts = 2
  Batch = 2
  BackoffCap = 2
  MaxAborts = 2
  MaxRequeues = 1
INVARIANTS EffectsExactlyOnce GivenUpInTime
PROPERTIES ImplementsPromise EventuallySettled
CHECK_DEADLOCK FALSE
