------------------------------- MODULE Outbox -------------------------------
(***************************************************************************)
(* The transactional outbox and its workers (worker/runner.py).  A worker  *)
(* claims a batch of due events and handles all of it in one transaction:  *)
(* every event in a savepoint of its own, whose failure undoes the effects *)
(* of that event's handler only, and one commit at the end that makes all  *)
(* effects, acknowledgements and retries visible together.                 *)
(*                                                                         *)
(* As in MailDelivery, time is the number of ticks until next_attempt_at.  *)
(***************************************************************************)
EXTENDS Integers, FiniteSets

CONSTANTS
  Event,        (* Rows of outbox_events, each with its own id.             *)
  Source,       (* The events published by the requests of the API.         *)
  Cause,        (* For every other event, the event whose handler may       *)
                (* publish it: a safety event comes of an ingested point.   *)
  Worker,       (* Worker processes of the deployment.                      *)
  MaxAttempts,  (* _MAX_ATTEMPTS, 8 in the code.                            *)
  Batch,        (* _BATCH, 50 in the code.                                  *)
  BackoffCap,   (* 300 seconds in the code.                                 *)
  MaxAborts,    (* Bound: worker deaths and failed commits in a behaviour.  *)
  MaxRequeues   (* Bound: dead letters an operator queues again.            *)

ASSUME OutboxAssumption ==
  /\ Source \subseteq Event
  /\ Cause \in [Event \ Source -> Event]
  /\ MaxAttempts \in Nat \ {0}
  /\ Batch \in Nat \ {0}
  /\ BackoffCap \in Nat \ {0}
  /\ MaxAborts \in Nat
  /\ MaxRequeues \in Nat

VARIABLES
  row,       (* The committed table: status, attempts and wait of each event. *)
  txn,       (* Each worker's open transaction, invisible to all others.      *)
  applied,   (* History: how often an event's effects were committed.         *)
  aborts,    (* History: transactions lost so far.                            *)
  requeues   (* History: dead letters queued again so far.                    *)

vars == <<row, txn, applied, aborts, requeues>>

Status == {"none", "pending", "done", "dead_letter"}

(* The events of a batch still to handle, those handled, those whose        *)
(* savepoint was rolled back, and the events the handlers published.        *)
Begun(S) == [todo |-> S, done |-> {}, failed |-> {}, born |-> {}]
NoTxn == Begun({})

Claimed(w) == txn[w].todo \cup txn[w].done \cup txn[w].failed

(* min(2 ** attempts, 300) *)
BackoffFor(n) == LET raw == 2 ^ n IN IF raw \in 0..BackoffCap THEN raw ELSE BackoffCap

-----------------------------------------------------------------------------
Init ==
  /\ row = [e \in Event |-> [status |-> "none", attempts |-> 0, wait |-> 0]]
  /\ txn = [w \in Worker |-> NoTxn]
  /\ applied = [e \in Event |-> 0]
  /\ aborts = 0
  /\ requeues = 0

New == [status |-> "pending", attempts |-> 0, wait |-> 0]

(* publish_event, in the transaction of the business change that commits.   *)
Publish(e) ==
  /\ e \in Source
  /\ row[e].status = "none"
  /\ row' = [row EXCEPT ![e] = New]
  /\ UNCHANGED <<txn, applied, aborts, requeues>>

(* The WHERE clause of _claim and SKIP LOCKED: due, and in no open          *)
(* transaction.  Status processing is only ever written inside one.         *)
Claimable(e) ==
  /\ row[e].status = "pending"
  /\ row[e].wait = 0
  /\ \A w \in Worker : e \notin Claimed(w)

Claim(w) ==
  /\ Claimed(w) = {}
  /\ \E S \in SUBSET {e \in Event : Claimable(e)} :
       /\ S # {}
       /\ Cardinality(S) <= Batch
       /\ txn' = [txn EXCEPT ![w] = Begun(S)]
  /\ UNCHANGED <<row, applied, aborts, requeues>>

(* What e's handler may publish: events that exist nowhere yet.             *)
Publishable(e) ==
  {f \in Event \ Source : /\ Cause[f] = e
                          /\ row[f].status = "none"
                          /\ \A w \in Worker : f \notin txn[w].born}

(* _dispatch and _notify_live succeed and the savepoint is released.        *)
Handled(t, e, F) ==
  [todo |-> t.todo \ {e}, done |-> t.done \cup {e}, failed |-> t.failed, born |-> t.born \cup F]

(* An exception: the savepoint takes back what the handler did, F included, *)
(* and _mark_retry notes the failure in the surrounding transaction.        *)
FailedLeaking(t, e, F) ==
  [todo |-> t.todo \ {e}, done |-> t.done, failed |-> t.failed \cup {e}, born |-> t.born \cup F]
FailedAndLost(t, e, F) == NoTxn
Failed(t, e, F) ==
  [todo |-> t.todo \ {e}, done |-> t.done, failed |-> t.failed \cup {e}, born |-> t.born]

Handle(w) ==
  /\ \E e \in txn[w].todo : \E F \in SUBSET Publishable(e) :
       \/ txn' = [txn EXCEPT ![w] = Handled(txn[w], e, F)]
       \/ txn' = [txn EXCEPT ![w] = Failed(txn[w], e, F)]
  /\ UNCHANGED <<row, applied, aborts, requeues>>

(* _mark_retry *)
RetriedOnceMore(r) ==
  [status   |-> IF r.attempts >= MaxAttempts THEN "dead_letter" ELSE "pending",
   attempts |-> r.attempts + 1,
   wait     |-> BackoffFor(r.attempts + 1)]
Retried(r) ==
  LET n == r.attempts + 1
  IN  IF n >= MaxAttempts
      THEN [status |-> "dead_letter", attempts |-> n, wait |-> r.wait]
      ELSE [status |-> "pending", attempts |-> n, wait |-> BackoffFor(n)]

(* The row of e once worker w has committed. *)
Committed(w, e) ==
  IF e \in txn[w].done THEN [row[e] EXCEPT !.status = "done"]
  ELSE IF e \in txn[w].failed THEN Retried(row[e])
  ELSE IF e \in txn[w].born THEN New
  ELSE row[e]

Commit(w) ==
  /\ Claimed(w) # {}
  /\ txn[w].todo = {}
  /\ row' = [e \in Event |-> Committed(w, e)]
  /\ applied' = [e \in Event |-> IF e \in txn[w].done THEN applied[e] + 1 ELSE applied[e]]
  /\ txn' = [txn EXCEPT ![w] = NoTxn]
  /\ UNCHANGED <<aborts, requeues>>

(* The process dies, the connection is lost or the commit fails: the whole  *)
(* batch is as before, attempts included.                                   *)
AbortAfterEffects(w) ==
  /\ aborts < MaxAborts
  /\ Claimed(w) # {}
  /\ txn' = [txn EXCEPT ![w] = NoTxn]
  /\ aborts' = aborts + 1
  /\ applied' = [e \in Event |-> IF e \in txn[w].done THEN applied[e] + 1 ELSE applied[e]]
  /\ UNCHANGED <<row, requeues>>
Abort(w) ==
  /\ aborts < MaxAborts
  /\ Claimed(w) # {}
  /\ txn' = [txn EXCEPT ![w] = NoTxn]
  /\ aborts' = aborts + 1
  /\ UNCHANGED <<row, applied, requeues>>

(* The runbook: once the cause is fixed an operator queues dead letters     *)
(* again with attempts = 0.                                                 *)
Requeue(e) ==
  /\ requeues < MaxRequeues
  /\ row[e].status = "dead_letter"
  /\ row' = [row EXCEPT ![e] = New]
  /\ requeues' = requeues + 1
  /\ UNCHANGED <<txn, applied, aborts>>

Tick ==
  /\ \E e \in Event : row[e].wait > 0
  /\ row' = [e \in Event |->
               [row[e] EXCEPT !.wait = IF @ > 0 THEN @ - 1 ELSE 0]]
  /\ UNCHANGED <<txn, applied, aborts, requeues>>

Next ==
  \/ \E e \in Event : Publish(e) \/ Requeue(e)
  \/ \E w \in Worker : Claim(w) \/ Handle(w) \/ Commit(w) \/ Abort(w)
  \/ Tick

Spec == Init /\ [][Next]_vars

(* run_forever polls for ever, a handler ends or raises, and time passes.   *)
Fairness ==
  /\ WF_vars(Tick)
  /\ \A w \in Worker : WF_vars(Claim(w)) /\ WF_vars(Handle(w)) /\ WF_vars(Commit(w))

FairSpec == Spec /\ Fairness

-----------------------------------------------------------------------------
Txn == [todo : SUBSET Event, done : SUBSET Event, failed : SUBSET Event, born : SUBSET Event]

(* No committed row is in processing: the status is an event's state inside *)
(* a transaction only, although the claim accepts it.                       *)
TypeOK ==
  /\ row \in [Event -> [status : Status, attempts : Nat, wait : Nat]]
  /\ txn \in [Worker -> Txn]
  /\ applied \in [Event -> Nat]
  /\ aborts \in Nat
  /\ requeues \in Nat

(* Row locks are mutual exclusion: no event is in two transactions, nor     *)
(* twice in one, and whatever is claimed is still pending in the table.     *)
ClaimsDisjoint ==
  /\ \A w, v \in Worker : w # v => Claimed(w) \cap Claimed(v) = {}
  /\ \A w \in Worker : /\ txn[w].todo \cap txn[w].done = {}
                       /\ txn[w].todo \cap txn[w].failed = {}
                       /\ txn[w].done \cap txn[w].failed = {}
                       /\ \A e \in Claimed(w) : row[e].status = "pending"

(* The effects of a handler (notifications, webhook deliveries, telemetry   *)
(* points) are committed exactly once for an event that is done and never   *)
(* for any other, in spite of aborts, retries and requeued dead letters:    *)
(* the handlers themselves are not idempotent.                              *)
EffectsExactlyOnce ==
  \A e \in Event : applied[e] = IF row[e].status = "done" THEN 1 ELSE 0

(* An event a handler publishes exists only if its cause is done: none      *)
(* survives a savepoint that was rolled back or an aborted batch.           *)
FollowUpsHaveCause ==
  \A f \in Event \ Source : row[f].status # "none" => row[Cause[f]].status = "done"

(* The limit is neither overrun nor cut short, whichever worker counts and   *)
(* however often the event was requeued: an event is given up with exactly  *)
(* MaxAttempts failures behind it and none has more.                        *)
GivenUpInTime ==
  \A e \in Event :
    /\ row[e].attempts <= MaxAttempts
    /\ row[e].status = "dead_letter" <=> row[e].attempts = MaxAttempts

State == [e \in Event |-> IF row[e].status = "pending" THEN "queued" ELSE row[e].status]
Promise == INSTANCE OutboxPromise WITH state <- State

(* The outbox implements its promise: the commit of a batch is one step     *)
(* that settles its events, and nothing else shows.                         *)
ImplementsPromise == Promise!Init /\ [][Promise!Next]_<<State, applied>>

(* Every published event is in the end done or given up, whatever fails in  *)
(* its batch, if transactions are lost finitely often.                      *)
EventuallySettled == Promise!Settles
=============================================================================
