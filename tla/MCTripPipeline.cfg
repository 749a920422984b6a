SPECIFICATION Spec
CONSTANTS
  e1 = e1
  e2 = e2
  e3 = e3
  e4 = e4
  w1 = w1
  w2 = w2
  car = car
  van = van
  None = None
  Event = {e1, e2, e3}
  Vehicle <- OneVehicle
  Occurred <- OneTimes
  Rules = 1
  Broken <- AllBroken
  Worker = {w1, w2}
  Gap = 2
  Window = 1
  Batch = 2
  MaxAttempts = 2
  MaxAborts = 1
  MaxNow = 7
SYMMETRY Symmetry
INVARIANTS HeadMatchesPoints EventsApart HitsCounted
PROPERTIES TripsStayClosed ImplementsPromise
CHECK_DEADLOCK FALSE
