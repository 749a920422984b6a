SPECIFICATION Spec
CONSTANTS
  u1 = u1
  u2 = u2
  u3 = u3
  o1 = o1
  o2 = o2
  p1 = p1
  p2 = p2
  None = None
  User = {u1, u2, u3}
  Org = {o1, o2}
  Process = {p1, p2}
  Plan = {"small", "large"}
  Trial = "small"
  UserLimit <- Limits
  Budgets <- Mixes
  MaxFailed = 2
  MaxAttempts = 1
  CodeCount = 1
  MaxStep = 2
  Offered = {"owner", "admin"}
SYMMETRY Symmetry
INVARIANTS OneOpenPerFamily NoSessionOutlivesReset SecondFactorOnce OneUsableLink InvitationAdmitsOnce
PROPERTIES ClosedFamiliesStayClosed SeatsWithinPlan
CHECK_DEADLOCK FALSE
