SPECIFICATION FairSpec
CONSTANTS
  x1 = x1
  e1 = e1
  e2 = e2
  w1 = w1
  w2 = w2
  m1 = m1
  Request = {e1, e2}
  Export = {}
  Subject <- SubjectDef
  Medium = {m1}
  Of <- OfDef
  Worker = {w1, w2}
  MaxAttempts = 2
  Batch = 2
  Lease = 1
  BackoffCap = 1
  MaxCrashes = 1
  MaxOverruns = 0
INVARIANTS OnlyLateMediaRemain
PROPERTIES EventuallyResolved
CHECK_DEADLOCK FALSE
