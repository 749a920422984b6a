--------------------------- MODULE MCEventHandling ---------------------------
(* Event handling on small instances, for TLC.                               *)
EXTENDS EventHandling, TLC

CONSTANTS e1, e2, u1, u2, u3, p1, p2, m1, m2, h1, h2

Mix(c, e, w, r) == [coaching |-> c, evidence |-> e, webhooks |-> w, runbook |-> r]

(* The parts do not touch: each has its own behaviours.                      *)
Mixes == {Mix(4, 0, 0, 0), Mix(0, 6, 0, 0), Mix(0, 0, 5, 1)}

Symmetry == Permutations(Process) \cup Permutations(Media) \cup Permutations(Endpoint)
==============================================================================
