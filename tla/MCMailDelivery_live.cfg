SPECIFICATION FairSpec
CONSTANTS
  m1 = m1
  m2 = m2
  w1 = w1
  w2 = w2
  w3 = w3
  Message = {m1}
  Worker = {w1, w2, w3}
  OneTime = {}
  MaxAttempts = 2
  BatchLimit = 2
  Lease = 2
  BackoffBase = 1
  BackoffCap = 2
  MaxCrashes = 1
PROPERTIES ImplementsPromise EventuallySettled
CHECK_DEADLOCK FALSE
