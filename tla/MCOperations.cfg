SPECIFICATION Spec
CONSTANTS
  v1 = v1
  v2 = v2
  v3 = v3
  d1 = d1
  x1 = x1
  c1 = c1
  g1 = g1
  p1 = p1
  p2 = p2
  a1 = a1
  t1 = t1
  s1 = s1
  k1 = k1
  k2 = k2
  o1 = o1
  r1 = r1
  r2 = r2
  i1 = i1
  i2 = i2
  i3 = i3
  short = short
  long = long
  w1 = w1
  w2 = w2
  None = None
  Process = {p1, p2}
  Area = {"registry", "plan", "client", "batch", "hit", "outage", "time",
          "live", "hub", "stream", "incident", "rebuild", "tick", "day", "point",
          "container"}
  Budgets <- Mixes
  Vehicle = {v1, v2, v3}
  Driver = {d1}
  Device = {x1}
  Camera = {c1}
  Group = {g1}
  Limits = {1, 2}
  Client = {a1}
  Token = {t1}
  Source = {s1}
  EventId = {k1, k2}
  Envelopes <- Sent
  Files <- Imports
  MaxBatch = 2
  Scope = {short, long}
  Window <- Windows
  Limit <- Limits_
  MaxTracked = 1
  MaxTime = 4
  Stream = {w1}
  QueueSize = 1
  Incident = {i1, i2, i3}
  Near <- Chain
  MinCluster = 2
  Org = {o1}
  DaysPerMonth = 2
  PlanDays <- Plans
  MinRetention = 1
  MaxDay = 3
  MaxPoints = 1
  Specs <- Started
SYMMETRY Symmetry
INVARIANTS AcknowledgedOnce CountersAddUp OverrunBounded BurstBounded NoLostWakeup RisksOfOneRebuild StopsForAReason
PROPERTIES ActivityNeverShrinks
CHECK_DEADLOCK FALSE
