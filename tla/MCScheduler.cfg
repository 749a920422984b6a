SPECIFICATION SchedulerSpec
CONSTANTS
  p1 = p1
  o1 = o1
  Process = {p1}
  Area = {"tick", "day", "point"}
  Budgets <- Ticks
  Org = {o1}
  DaysPerMonth = 3
  PlanDays <- Two
  MinRetention = 1
  MaxDay = 3
  MaxPoints = 1
PROPERTY TicksEnd
CHECK_DEADLOCK FALSE
