SPECIFICATION FairSpec
CONSTANTS
  e1 = e1
  e2 = e2
  e3 = e3
  e4 = e4
  w1 = w1
  w2 = w2
  car = car
  van = van
  None = None
  Event = {e1, e2, e3, e4}
  Vehicle <- TwoVehicles
  Occurred <- TwoTimes
  Rules = 1
  Broken <- AllBroken
  Worker = {w1, w2}
  Gap = 0
  Window = 1
  Batch = 2
  MaxAttempts = 1
  MaxAborts = 0
  MaxNow = 2
PROPERTIES EventuallyQuiet
CHECK_DEADLOCK FALSE
