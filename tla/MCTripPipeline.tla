--------------------------- MODULE MCTripPipeline ---------------------------
(* The pipeline on small instances, for TLC: the events of one or two        *)
(* vehicles, given by their vehicles and times.                              *)
EXTENDS TripPipeline, TLC

CONSTANTS w1, w2, e1, e2, e3, e4, car, van

(* Two points of each of two vehicles, all at one time.                      *)
TwoVehicles == e1 :> car @@ e2 :> car @@ e3 :> van @@ e4 :> van
TwoTimes == [e \in Event |-> 1]

(* Three points of one vehicle: the third is a gap after the first only.     *)
OneVehicle == e1 :> car @@ e2 :> car @@ e3 :> car
OneTimes == e1 :> 1 @@ e2 :> 2 @@ e3 :> 4

AllBroken == [e \in Event |-> Rule]

Symmetry == Permutations(Worker)
=============================================================================
