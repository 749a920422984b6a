----------------------------- MODULE MCScheduler -----------------------------
(* One replica of the scheduler past the end of a month, for TLC.            *)
EXTENDS Scheduler

CONSTANTS p1, o1

Two == [o \in Org |-> 2]

Ticks == {[tick |-> 3, day |-> 2, point |-> 1]}
=============================================================================
