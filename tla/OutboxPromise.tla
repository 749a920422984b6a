---------------------------- MODULE OutboxPromise ----------------------------
(***************************************************************************)
(* What the transactional outbox promises to the code that publishes an    *)
(* event: the effects of its handler, and the events the handler publishes *)
(* in turn, happen together with the event being done, exactly once; an    *)
(* event that is given up has had no effect, so it can be queued again.    *)
(***************************************************************************)
EXTENDS Naturals

CONSTANTS Event, Source, Cause

VARIABLES
  state,    (* "none", "queued", "done" or "dead_letter" for each event.      *)
  applied   (* How often the effects of each event's handler were committed.  *)

vars == <<state, applied>>

Init ==
  /\ state = [e \in Event |-> "none"]
  /\ applied = [e \in Event |-> 0]

(* A business transaction that publishes an event commits. *)
Publish(e) ==
  /\ e \in Source
  /\ state[e] = "none"
  /\ state' = [state EXCEPT ![e] = "queued"]
  /\ UNCHANGED applied

(* The events in D are handled and those in X given up; what the handlers   *)
(* publish, B, is queued by the same step.                                  *)
Settle(D, X, B) ==
  /\ \A e \in D \cup X : state[e] = "queued"
  /\ D \cap X = {}
  /\ \A e \in B : state[e] = "none" /\ e \notin Source /\ Cause[e] \in D
  /\ state' = [e \in Event |-> IF e \in D THEN "done"
                               ELSE IF e \in X THEN "dead_letter"
                               ELSE IF e \in B THEN "queued"
                               ELSE state[e]]
  /\ applied' = [e \in Event |-> IF e \in D THEN applied[e] + 1 ELSE applied[e]]

(* An operator queues a dead letter again. *)
Requeue(e) ==
  /\ state[e] = "dead_letter"
  /\ state' = [state EXCEPT ![e] = "queued"]
  /\ UNCHANGED applied

Next ==
  \/ \E e \in Event : Publish(e) \/ Requeue(e)
  \/ \E D, X, B \in SUBSET Event : Settle(D, X, B)

Spec == Init /\ [][Next]_vars

(* A queued event does not stay queued. *)
Settles == \A e \in Event : state[e] = "queued" ~> state[e] \in {"done", "dead_letter"}
==============================================================================
