SPECIFICATION Spec
CONSTANTS
  e1 = e1
  e2 = e2
  u1 = u1
  u2 = u2
  u3 = u3
  p1 = p1
  p2 = p2
  m1 = m1
  m2 = m2
  h1 = h1
  h2 = h2
  None = None
  Process = {p1, p2}
  Area = {"coaching", "evidence", "webhooks", "runbook"}
  Budgets <- Mixes
  Event = {e1}
  User = {u1, u2, u3}
  Manager = {u1, u2}
  Media = {m1, m2}
  Endpoint = {h1, h2}
  Severity = {1, 2}
  MaxAttempts = 2
  BatchLimit = 2
SYMMETRY Symmetry
INVARIANTS MediaMatchesRow PostsAccountedFor
PROPERTIES CoachingAssigned TerminalIsFinal ImplementsPromise
CHECK_DEADLOCK FALSE
