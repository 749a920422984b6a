------------------------------ MODULE MCOutbox ------------------------------
(* The outbox on a small instance, for TLC: two events that requests publish *)
(* and two that the handler of the first may publish.                        *)
EXTENDS Outbox

CONSTANTS e1, e2, f1, f2

EventDef == {e1, e2, f1, f2}
SourceDef == {e1, e2}
CauseDef == [f \in {f1, f2} |-> e1]
=============================================================================
