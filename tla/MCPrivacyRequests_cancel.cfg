SPECIFICATION Spec
CONSTANTS
  x1 = x1
  e1 = e1
  e2 = e2
  w1 = w1
  w2 = w2
  m1 = m1
  Request = {x1, e1}
  Export = {x1}
  Subject <- SubjectDef
  Medium = {}
  Of <- OfDef
  Worker = {w1, w2}
  MaxAttempts = 2
  Batch = 2
  Lease = 1
  BackoffCap = 1
  MaxCrashes = 0
  MaxOverruns = 0
PROPERTIES OnlyQueuedAreCanceled
CHECK_DEADLOCK FALSE
