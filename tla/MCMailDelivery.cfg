SPECIFICATION Spec
CONSTANTS
  m1 = m1
  m2 = m2
  w1 = w1
  w2 = w2
  w3 = w3
  Message = {m1, m2}
  Worker = {w1, w2}
  OneTime = {m1, m2}
  MaxAttempts = 2
  BatchLimit = 2
  Lease = 1
  BackoffBase = 1
  BackoffCap = 1
  MaxCrashes = 1
SYMMETRY Symmetry
INVARIANTS CopiesArePaidFor SecretWhileQueued LeaseExcludes
CHECK_DEADLOCK FALSE
