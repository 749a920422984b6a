------------------------------- MODULE Coaching ------------------------------
(***************************************************************************)
(* Review of safety events (application/safety/review.py) and the coaching *)
(* actions that come of it (application/coaching/service.py).              *)
(*                                                                         *)
(* An event has at most one active action, by a look before the insert and *)
(* by a partial unique index when two requests look at the same time.      *)
(* Nothing locks an action between its read and its write; a review of an  *)
(* event holds the event's row from its first query to its commit.         *)
(***************************************************************************)
EXTENDS Requests

CONSTANTS
  Event,    (* Safety events. *)
  User,     (* Members of the organization. *)
  Manager,  (* Those with coaching.manage. *)
  None

ASSUME CoachingAssumption == Manager \subseteq User /\ None \notin Event \cup User

VARIABLES
  event,    (* The review of each safety event. *)
  action,   (* Every coaching action, in order. *)
  mailed    (* coaching_assigned messages enqueued: of which action, to whom. *)

coachingVars == <<event, action, mailed>>

EventRow == [review : {"pending", "confirmed", "rejected", "uncertain"},
             resolution : {"none", "coaching", "other"}]

Status == {"open", "in_progress", "completed", "canceled"}

(* outcome: completed_at and outcome set; reason: canceled_at and           *)
(* cancel_reason set.                                                       *)
ActionRow == [event : Event \cup {None}, status : Status,
              assignee : User \cup {None}, outcome : BOOLEAN, reason : BOOLEAN]

CoachingInit ==
  /\ event = [e \in Event |-> [review |-> "pending", resolution |-> "none"]]
  /\ action = <<>>
  /\ mailed = <<>>

ActiveStatuses == {"open", "in_progress"}

ActiveIn(rows, e) == {i \in DOMAIN rows : /\ e # None /\ rows[i].event = e
                                          /\ rows[i].status \in ActiveStatuses}

ActiveForEvent(e) == ActiveIn(action, e)

(* With completed actions that can be taken up again.                       *)
CanTransitionAgain(current, target) ==
  \/ current = "open" /\ target # "open"
  \/ current # "canceled" /\ target \in {"completed", "canceled"}

CanTransition(current, target) ==
  \/ current = "open" /\ target # "open"
  \/ current = "in_progress" /\ target \in {"completed", "canceled"}

(* Requests that have read action i.                                        *)
OnAction(i) == {p \in Process : call[p].op \in {"update", "transition"}
                                  /\ call[p].row = i}

(* Requests that count on an active action of e.                            *)
OnEvent(e) == {p \in Process : call[p].op \in {"create", "review"}
                                 /\ call[p].event = e}

-----------------------------------------------------------------------------
(* Creating *)

(* Someone to assign needs the permission, and so does who assigns.         *)
RequireAssignee(by, u) == u # None => by \in Manager /\ u \in Manager

(* uq_coaching_actions_active_event, without it.                            *)
NoIndex(e) == FALSE

(* uq_coaching_actions_active_event.                                        *)
Clashes(e) == ActiveForEvent(e) # {}

NotifyAssignee(i, by, u) ==
  mailed' = IF u \notin {None, by} THEN Append(mailed, [row |-> i, user |-> u])
                                   ELSE mailed

(* The insert in its savepoint.  On a conflict the action that is there is  *)
(* returned instead.                                                        *)
Insert(c) ==
  IF Clashes(c.event)
    THEN UNCHANGED <<action, mailed>>
    ELSE /\ action' = Append(action,
              [event |-> c.event, status |-> "open", assignee |-> c.assignee,
               outcome |-> FALSE, reason |-> FALSE])
         /\ NotifyAssignee(Len(action) + 1, c.by, c.assignee)

(* An action on its own or of an event; an active one is returned as it is. *)
CreateAction(p, by, e, u) ==
  /\ by \in Manager
  /\ RequireAssignee(by, u)
  /\ ActiveForEvent(e) = {}
  /\ Begin(p, "coaching", [op |-> "create", event |-> e, assignee |-> u,
                           by |-> by, stale |-> FALSE])
  /\ UNCHANGED coachingVars

InsertAction(p) ==
  /\ call[p].op = "create"
  /\ Insert(call[p])
  /\ Return(p)
  /\ UNCHANGED event

-----------------------------------------------------------------------------
(* Reviewing *)

Locked(e) == \E q \in Process : call[q].op = "review" /\ call[q].event = e

(* A resolution not given leaves the earlier one.                           *)
Reviewed(e, decision, resolution) ==
  event' = [event EXCEPT ![e] =
    [review |-> decision,
     resolution |-> IF resolution = "none" THEN @.resolution ELSE resolution]]

ReviewEvent(e, decision, resolution) ==
  /\ resolution # "coaching"
  /\ ~Locked(e)
  /\ Reviewed(e, decision, resolution)
  /\ AtOnce("coaching")
  /\ UNCHANGED <<action, mailed>>

(* Resolved by coaching, which only a confirmed event can be.  The query    *)
(* for an active action flushes the event's new fields and so locks its row.*)
ReviewWithCoaching(p, by, e, u) ==
  /\ RequireAssignee(by, u)
  /\ ~Locked(e)
  /\ Begin(p, "coaching", [op |-> "review", event |-> e, assignee |-> u,
                           by |-> by, reuse |-> ActiveForEvent(e) # {},
                           stale |-> FALSE])
  /\ UNCHANGED coachingVars

CommitReview(p) ==
  /\ call[p].op = "review"
  /\ Reviewed(call[p].event, "confirmed", "coaching")
  /\ IF call[p].reuse THEN UNCHANGED <<action, mailed>> ELSE Insert(call[p])
  /\ Return(p)

-----------------------------------------------------------------------------
(* Working on an action *)

(* Another assignee, or other texts and dates, which are left out.          *)
UpdateAction(p, by, i, u) ==
  /\ by \in Manager
  /\ action[i].status \in ActiveStatuses
  /\ u # None => u \in Manager
  /\ Begin(p, "coaching", [op |-> "update", row |-> i, assignee |-> u,
                           by |-> by, seen |-> action[i].assignee,
                           stale |-> FALSE])
  /\ UNCHANGED coachingVars

WriteUpdate(p) ==
  /\ call[p].op = "update"
  /\ IF call[p].assignee = call[p].seen
       THEN UNCHANGED <<action, mailed>>
       ELSE /\ action' = [action EXCEPT ![call[p].row].assignee = call[p].assignee]
            /\ NotifyAssignee(call[p].row, call[p].by, call[p].assignee)
  /\ Commit(p, {})
  /\ UNCHANGED event

(* start, complete and cancel; the same transition again changes nothing.   *)
Transition(p, by, i, target) ==
  /\ by \in Manager
  /\ CanTransition(action[i].status, target)
  /\ Begin(p, "coaching", [op |-> "transition", row |-> i, target |-> target,
                           by |-> by, seen |-> action[i].assignee,
                           stale |-> FALSE])
  /\ UNCHANGED coachingVars

Moved(row, c) ==
  [row EXCEPT
     !.status = c.target,
     !.assignee = IF c.target = "in_progress" /\ c.seen = None THEN c.by ELSE @,
     !.outcome = @ \/ c.target = "completed",
     !.reason = @ \/ c.target = "canceled"]

(* Written by id over whatever the row has become; the unique index refuses *)
(* to make active again an action whose event has another one.              *)
WriteTransition(p) ==
  LET i == call[p].row
      e == action[i].event
  IN /\ call[p].op = "transition"
     /\ IF /\ call[p].target = "in_progress"
           /\ action[i].status \notin ActiveStatuses
           /\ Clashes(e)
          THEN UNCHANGED action
          ELSE action' = [action EXCEPT ![i] = Moved(@, call[p])]
     /\ Commit(p, OnAction(i) \cup
                    (IF call[p].target \in ActiveStatuses THEN {} ELSE OnEvent(e)))
     /\ UNCHANGED <<event, mailed>>

(* A request that began is dropped, or meets an error.                      *)
AbortCoaching(p) ==
  /\ call[p].op \in {"create", "review", "update", "transition"}
  /\ Return(p)
  /\ UNCHANGED coachingVars

CoachingStep ==
  \/ \E p \in Process, by \in User, u \in User \cup {None} :
       \/ \E e \in Event \cup {None} : CreateAction(p, by, e, u)
       \/ \E e \in Event : ReviewWithCoaching(p, by, e, u)
       \/ \E i \in DOMAIN action : UpdateAction(p, by, i, u)
  \/ \E p \in Process, by \in User, i \in DOMAIN action, target \in Status :
       Transition(p, by, i, target)
  \/ \E e \in Event, decision \in {"confirmed", "rejected", "uncertain"},
        resolution \in {"none", "other"} : ReviewEvent(e, decision, resolution)
  \/ \E p \in Process : \/ InsertAction(p) \/ CommitReview(p)
                        \/ WriteUpdate(p) \/ WriteTransition(p)
                        \/ AbortCoaching(p)

-----------------------------------------------------------------------------
CoachingTypeOK ==
  /\ event \in [Event -> EventRow]
  /\ action \in Seq(ActionRow)
  /\ mailed \in Seq([row : Nat, user : User])

(* A review that resolves an event by coaching commits with exactly one     *)
(* active action of the event, be it the review's own, one that was there,  *)
(* or one that a request of the same moment has inserted first; unless      *)
(* someone finished that action while the review was under way.             *)
CoachingAssigned ==
  [][\A p \in Process :
       call[p].op = "review" /\ call'[p] = Idle /\ event' # event
       /\ ~call[p].stale
       => Cardinality(ActiveIn(action', call[p].event)) = 1]_<<call, event, action>>

(* Completed and canceled actions are terminal (domain/coaching.py): none   *)
(* of their fields changes again and none of them is taken up again, except *)
(* by a request that read the action before it was finished.                *)
TerminalIsFinal ==
  [][\A i \in DOMAIN action :
       action[i].status \notin ActiveStatuses /\ action'[i] # action[i]
       => \E p \in OnAction(i) : call[p].stale /\ call'[p] = Idle]_<<call, action>>
=============================================================================
