---------------------------- MODULE TripPipeline ----------------------------
(***************************************************************************)
(* From accepted positions to trips and safety events.  Workers take       *)
(* batches of ingest events from the outbox (worker/runner.py); for each   *)
(* event, in a savepoint, a point is put on the vehicle's trip             *)
(* (application/telemetry/service.py) and the safety engine records the    *)
(* rules it breaks (application/safety/engine.py).  The scheduler marks    *)
(* trips stale at the same time (scheduler/runner.py).                     *)
(*                                                                         *)
(* Transactions are READ COMMITTED: a statement sees what is committed and *)
(* the transaction's own changes; an UPDATE waits for the row lock and     *)
(* then changes the newest row, with values computed from the row as it    *)
(* was read before.  A trip or safety event is named by the ingest event   *)
(* that created it.  Positions, speeds and distances are left out:         *)
(* point_count stands for all that accumulates in the head of a trip.      *)
(***************************************************************************)
EXTENDS Integers, FiniteSets, FiniteSetsExt

CONSTANTS
  Event,        (* Accepted ingest events of type telemetry.position.       *)
  None,         (* No event, and so no trip.                                *)
  Vehicle,      (* The vehicle of each event: a function.                   *)
  Occurred,     (* occurred_at of each event's envelope: a function.        *)
  Rules,        (* The number of rules; rule n is the n-th evaluate_point   *)
                (* tries.                                                   *)
  Broken,       (* The set of rules each event's sample breaks: a function. *)
  Worker,       (* Worker processes; production runs two.                   *)
  Gap,          (* TRIP_IDLE_GAP                                            *)
  Window,       (* _DEDUP_WINDOW                                            *)
  Batch,        (* _BATCH, 50 in the code.                                  *)
  MaxAttempts,  (* _MAX_ATTEMPTS, 8 in the code.                            *)
  MaxAborts,    (* Bound: transactions lost in a behaviour.                 *)
  MaxNow        (* Bound: the time at which the clock stops.                *)

ASSUME PipelineAssumption ==
  /\ None \notin Event
  /\ IsFiniteSet(Event)
  /\ Occurred \in [Event -> Nat \ {0}]
  /\ Rules \in Nat
  /\ Broken \in [Event -> SUBSET (1..Rules)]
  /\ Gap \in Nat
  /\ Window \in Nat
  /\ Batch \in Nat \ {0}
  /\ MaxAttempts \in Nat \ {0}
  /\ MaxAborts \in Nat
  /\ MaxNow \in Nat

VARIABLES
  now,     (* The clock.                                                     *)
  outbox,  (* The outbox row of each event: status, attempts, order.         *)
  trip,    (* The committed table of trips.                                  *)
  point,   (* The trip of each committed telemetry point, None if no point.  *)
  count,   (* occurrence_count of each committed safety event, 0 if no row.  *)
  batch,   (* Each worker's claimed events: to do, done, failed.             *)
  job,     (* The event each worker is handling, and how far it is.          *)
  mine,    (* What each worker's transaction has changed, released so far.   *)
  save,    (* What its open savepoint has changed on top of that.            *)
  tick,    (* The trips a tick of the scheduler has marked, not committed.   *)
  aborts   (* History: transactions lost so far.                             *)

committed == <<outbox, trip, point, count>>
vars == <<now, outbox, trip, point, count, batch, job, mine, save, tick, aborts>>

Rule == 1..Rules

(* A row of trips.  raced and late are history: a head was written over a   *)
(* row that had changed since it was read; a point was older than the head. *)
TripRow == [status : {"none", "active", "completed", "stale"},
            startedAt : Nat, endedAt : Nat, lastAt : Nat, points : Nat,
            raced : BOOLEAN, late : BOOLEAN]
NoRow == [status |-> "none", startedAt |-> 0, endedAt |-> 0, lastAt |-> 0, points |-> 0,
          raced |-> FALSE, late |-> FALSE]

(* Changes of a transaction: NoRow, None and 0 where it has changed nothing. *)
NoChange == [trip  |-> [t \in Event |-> NoRow],
             point |-> [e \in Event |-> None],
             count |-> [s \in Event \X Rule |-> 0]]
NoBatch == [todo |-> {}, done |-> {}, failed |-> {}]
NoJob == [event |-> None, step |-> "idle", trip |-> None, base |-> NoRow, rules |-> {}]

Claimed(w) == batch[w].todo \cup batch[w].done \cup batch[w].failed

-----------------------------------------------------------------------------
(* The row of trip t, and the count of safety event s, as w sees them. *)
TripSeen(w, t) ==
  IF save[w].trip[t] # NoRow THEN save[w].trip[t]
  ELSE IF mine[w].trip[t] # NoRow THEN mine[w].trip[t]
  ELSE trip[t]
CountSeen(w, s) ==
  IF save[w].count[s] # 0 THEN save[w].count[s]
  ELSE IF mine[w].count[s] # 0 THEN mine[w].count[s]
  ELSE count[s]

(* A changed row is locked until the end of the transaction, or until the   *)
(* savepoint that changed it is rolled back.                                *)
HoldsTrip(w, t) == save[w].trip[t] # NoRow \/ mine[w].trip[t] # NoRow
TripFree(w, t) ==
  /\ t \notin tick
  /\ \A v \in Worker \ {w} : ~HoldsTrip(v, t)

(* pg_advisory_xact_lock on vehicle and rule: whoever takes it changes a    *)
(* safety event of that vehicle and rule under it.                          *)
HoldsRule(w, v, r) ==
  \E e \in Event : /\ Vehicle[e] = v
                   /\ save[w].count[<<e, r>>] # 0 \/ mine[w].count[<<e, r>>] # 0
RuleFreeForAll(w, v, r) == TRUE
RuleFree(w, v, r) == \A u \in Worker \ {w} : ~HoldsRule(u, v, r)

-----------------------------------------------------------------------------
Init ==
  /\ now = 1
  /\ outbox = [e \in Event |-> [status |-> "none", attempts |-> 0, order |-> 0]]
  /\ trip = [t \in Event |-> NoRow]
  /\ point = [e \in Event |-> None]
  /\ count = [s \in Event \X Rule |-> 0]
  /\ batch = [w \in Worker |-> NoBatch]
  /\ job = [w \in Worker |-> NoJob]
  /\ mine = [w \in Worker |-> NoChange]
  /\ save = [w \in Worker |-> NoChange]
  /\ tick = {}
  /\ aborts = 0

(* Ingestion accepts e, at any time after it occurred, and publishes it.    *)
Accept(e) ==
  /\ outbox[e].status = "none"
  /\ Occurred[e] <= now
  /\ outbox' = [outbox EXCEPT ![e] =
       [status |-> "pending", attempts |-> 0,
        order |-> Cardinality({d \in Event : outbox[d].status # "none"})]]
  /\ UNCHANGED <<now, trip, point, count, batch, job, mine, save, tick, aborts>>

(* _claim: the first Batch due rows no other transaction has locked.  An    *)
(* event that has failed is due at some time after its back-off.            *)
First(due) == {e \in due : Cardinality({d \in due : outbox[d].order < outbox[e].order}) < Batch}
Claim(w) ==
  LET free == {e \in Event : /\ outbox[e].status = "pending"
                             /\ \A v \in Worker : e \notin Claimed(v)}
  IN  /\ Claimed(w) = {}
      /\ \E waiting \in SUBSET {e \in free : outbox[e].attempts > 0} :
           /\ free \ waiting # {}
           /\ batch' = [batch EXCEPT ![w] = [NoBatch EXCEPT !.todo = First(free \ waiting)]]
      /\ UNCHANGED <<now, committed, job, mine, save, tick, aborts>>

(* The next event of the batch. *)
IsNext(w, e) ==
  /\ e \in batch[w].todo
  /\ \A d \in batch[w].todo : outbox[e].order <= outbox[d].order

(* The SELECT of _active_trip: an open trip of the vehicle that started     *)
(* last, None if there is none.                                             *)
Open(w, v) == {t \in Event : Vehicle[t] = v /\ TripSeen(w, t).status = "active"}
IsActiveTrip(w, v, t) ==
  \/ Open(w, v) = {} /\ t = None
  \/ /\ t \in Open(w, v)
     /\ \A u \in Open(w, v) : TripSeen(w, u).startedAt <= TripSeen(w, t).startedAt

(* A trip that starts with the point of e. *)
NewTrip(e) == [NoRow EXCEPT !.status = "active", !.startedAt = Occurred[e],
                            !.lastAt = Occurred[e], !.points = 1]

IdleTooLong(e, r) == Occurred[e] - r.lastAt > Gap

(* A savepoint begins: the event is dispatched and the trip is read.  If    *)
(* there is none, one is inserted, which nobody else sees.                  *)
Reading(w, e, t) ==
  /\ job[w].event = None
  /\ IsNext(w, e)
  /\ point[e] = None
  /\ IsActiveTrip(w, Vehicle[e], t)
Job(e, step, t, r) == [event |-> e, step |-> step, trip |-> t, base |-> r, rules |-> Broken[e]]

OpenTrip(w) ==
  /\ \E e \in Event :
       /\ Reading(w, e, None)
       /\ save' = [save EXCEPT ![w].trip[e] = NewTrip(e)]
       /\ job' = [job EXCEPT ![w] = Job(e, "rules", e, NoRow)]
  /\ UNCHANGED <<now, committed, batch, mine, tick, aborts>>

ReadTrip(w) ==
  /\ \E e, t \in Event :
       LET r == TripSeen(w, t)
       IN  /\ Reading(w, e, t)
           /\ job' = [job EXCEPT ![w] =
                        Job(e, IF IdleTooLong(e, r) THEN "close" ELSE "head", t, r)]
  /\ UNCHANGED <<now, committed, batch, mine, save, tick, aborts>>

(* The idle gap is exceeded: the trip that was read is completed as of its  *)
(* last point then, and a new one inserted.                                 *)
Close(w) ==
  LET t == job[w].trip
      e == job[w].event
  IN  /\ job[w].step = "close"
      /\ TripFree(w, t)
      /\ save' = [save EXCEPT
           ![w].trip = [@ EXCEPT
              ![t] = [TripSeen(w, t) EXCEPT !.status = "completed", !.endedAt = job[w].base.lastAt],
              ![e] = NewTrip(e)]]
      /\ job' = [job EXCEPT ![w].step = "rules", ![w].trip = e]
      /\ UNCHANGED <<now, committed, batch, mine, tick, aborts>>

(* The head of the trip: computed from the row as read, written to the row  *)
(* as it is now.  The status is not among the columns written.              *)
HeadWholeRow(seen, base, e) ==
  [base EXCEPT !.lastAt = Occurred[e], !.points = base.points + 1,
               !.raced = seen.raced \/ seen # base,
               !.late = seen.late \/ Occurred[e] < seen.lastAt]
HeadAfter(seen, base, e) ==
  [seen EXCEPT !.lastAt = Occurred[e], !.points = base.points + 1,
               !.raced = seen.raced \/ seen # base,
               !.late = seen.late \/ Occurred[e] < seen.lastAt]
UpdateHead(w) ==
  LET t == job[w].trip
  IN  /\ job[w].step = "head"
      /\ TripFree(w, t)
      /\ save' = [save EXCEPT ![w].trip[t] =
                    HeadAfter(TripSeen(w, t), job[w].base, job[w].event)]
      /\ job' = [job EXCEPT ![w].step = "rules"]
      /\ UNCHANGED <<now, committed, batch, mine, tick, aborts>>

(* _persist for the next rule broken, lock, look-up and write in one step:  *)
(* nobody else touches safety events of this vehicle and rule meanwhile.    *)
(* The earliest event within the window gets the hit, or a new one.         *)
Distance(d, e) ==
  IF Occurred[d] < Occurred[e] THEN Occurred[e] - Occurred[d] ELSE Occurred[d] - Occurred[e]
SameEvent(w, e, r) ==
  {d \in Event : /\ Vehicle[d] = Vehicle[e]
                 /\ CountSeen(w, <<d, r>>) # 0
                 /\ Distance(d, e) <= Window}
IsNextRule(w, r) == r \in job[w].rules /\ \A q \in job[w].rules : r <= q
PersistRule(w) ==
  LET e == job[w].event
  IN  /\ job[w].step = "rules"
      /\ \E r \in Rule, d \in Event :
           LET near == SameEvent(w, e, r)
           IN  /\ IsNextRule(w, r)
               /\ RuleFree(w, Vehicle[e], r)
               /\ IF near = {} THEN d = e
                  ELSE d \in near /\ \A f \in near : Occurred[d] <= Occurred[f]
               /\ save' = [save EXCEPT ![w].count[<<d, r>>] = CountSeen(w, <<d, r>>) + 1]
               /\ job' = [job EXCEPT ![w].rules = @ \ {r}]
      /\ UNCHANGED <<now, committed, batch, mine, tick, aborts>>

(* The savepoint is released: its changes are now those of the transaction. *)
Released(w) ==
  [trip  |-> [t \in Event |->
                IF save[w].trip[t] # NoRow THEN save[w].trip[t] ELSE mine[w].trip[t]],
   point |-> [mine[w].point EXCEPT ![job[w].event] = job[w].trip],
   count |-> [s \in Event \X Rule |->
                IF save[w].count[s] # 0 THEN save[w].count[s] ELSE mine[w].count[s]]]
Release(w) ==
  /\ job[w].step = "rules"
  /\ job[w].rules = {}
  /\ mine' = [mine EXCEPT ![w] = Released(w)]
  /\ save' = [save EXCEPT ![w] = NoChange]
  /\ batch' = [batch EXCEPT ![w].todo = @ \ {job[w].event},
                            ![w].done = @ \cup {job[w].event}]
  /\ job' = [job EXCEPT ![w] = NoJob]
  /\ UNCHANGED <<now, committed, tick, aborts>>

(* An exception: the savepoint is rolled back, which also lets go of the    *)
(* locks taken since it began.                                              *)
RollBackNothing(w) ==
  /\ mine' = [mine EXCEPT ![w] = [Released(w) EXCEPT !.point = mine[w].point]]
  /\ save' = [save EXCEPT ![w] = NoChange]
  /\ batch' = [batch EXCEPT ![w].todo = @ \ {job[w].event},
                            ![w].failed = @ \cup {job[w].event}]
  /\ job' = [job EXCEPT ![w] = NoJob]
  /\ UNCHANGED <<now, committed, tick, aborts>>
RollBack(w) ==
  /\ save' = [save EXCEPT ![w] = NoChange]
  /\ batch' = [batch EXCEPT ![w].todo = @ \ {job[w].event},
                            ![w].failed = @ \cup {job[w].event}]
  /\ job' = [job EXCEPT ![w] = NoJob]
  /\ UNCHANGED <<now, committed, mine, tick, aborts>>

Fail(w) == job[w].event # None /\ RollBack(w)

(* PostgreSQL ends a circle of transactions that wait for one another with  *)
(* an error in one of them.                                                 *)
WaitsFor(w, v) ==
  /\ w # v
  /\ \/ job[w].step \in {"close", "head"} /\ HoldsTrip(v, job[w].trip)
     \/ /\ job[w].step = "rules"
        /\ \E r \in Rule : IsNextRule(w, r) /\ HoldsRule(v, Vehicle[job[w].event], r)
InDeadlockUnseen(w) == FALSE
InDeadlock(w) ==
  \E S \in SUBSET Worker :
    /\ w \in S
    /\ \A u \in S : (\E v \in S : WaitsFor(u, v)) /\ (\E v \in S : WaitsFor(v, u))
BreakDeadlock(w) == InDeadlock(w) /\ RollBack(w)

(* _mark_retry *)
RetriedDropping(row) ==
  [row EXCEPT !.attempts = row.attempts + 1,
              !.status = IF row.attempts + 1 >= MaxAttempts THEN "done" ELSE "pending"]
Retried(row) ==
  [row EXCEPT !.attempts = row.attempts + 1,
              !.status = IF row.attempts + 1 >= MaxAttempts THEN "dead_letter" ELSE "pending"]

(* All changes of the batch and its outbox rows are committed at once.      *)
Commit(w) ==
  /\ Claimed(w) # {}
  /\ batch[w].todo = {}
  /\ outbox' = [e \in Event |-> IF e \in batch[w].done THEN [outbox[e] EXCEPT !.status = "done"]
                                ELSE IF e \in batch[w].failed THEN Retried(outbox[e])
                                ELSE outbox[e]]
  /\ trip' = [t \in Event |-> IF mine[w].trip[t] # NoRow THEN mine[w].trip[t] ELSE trip[t]]
  /\ point' = [e \in Event |-> IF mine[w].point[e] # None THEN mine[w].point[e] ELSE point[e]]
  /\ count' = [s \in Event \X Rule |->
                 IF mine[w].count[s] # 0 THEN mine[w].count[s] ELSE count[s]]
  /\ batch' = [batch EXCEPT ![w] = NoBatch]
  /\ mine' = [mine EXCEPT ![w] = NoChange]
  /\ UNCHANGED <<now, job, save, tick, aborts>>

(* The process dies or the connection is lost: the transaction never was.   *)
Abort(w) ==
  /\ aborts < MaxAborts
  /\ Claimed(w) # {}
  /\ batch' = [batch EXCEPT ![w] = NoBatch]
  /\ job' = [job EXCEPT ![w] = NoJob]
  /\ mine' = [mine EXCEPT ![w] = NoChange]
  /\ save' = [save EXCEPT ![w] = NoChange]
  /\ aborts' = aborts + 1
  /\ UNCHANGED <<now, committed, tick>>

(* _close_stale_trips, row by row: an UPDATE that waits for a lock looks at *)
(* the row again once it has it.  The rows stay locked until the tick has   *)
(* done its maintenance and commits.                                        *)
IsStale(t) == trip[t].status = "active" /\ trip[t].lastAt < now - Gap
MarkStale(t) ==
  /\ t \notin tick
  /\ \A w \in Worker : ~HoldsTrip(w, t)
  /\ IsStale(t)
  /\ tick' = tick \cup {t}
  /\ UNCHANGED <<now, committed, batch, job, mine, save, aborts>>

CommitTick ==
  /\ tick # {}
  /\ trip' = [t \in Event |-> IF t \in tick THEN [trip[t] EXCEPT !.status = "stale"] ELSE trip[t]]
  /\ tick' = {}
  /\ UNCHANGED <<now, outbox, point, count, batch, job, mine, save, aborts>>

FailTick ==
  /\ aborts < MaxAborts
  /\ tick # {}
  /\ tick' = {}
  /\ aborts' = aborts + 1
  /\ UNCHANGED <<now, committed, batch, job, mine, save>>

Clock ==
  /\ now < MaxNow
  /\ now' = now + 1
  /\ UNCHANGED <<committed, batch, job, mine, save, tick, aborts>>

Work(w) ==
  \/ Claim(w) \/ OpenTrip(w) \/ ReadTrip(w) \/ Close(w) \/ UpdateHead(w)
  \/ PersistRule(w) \/ Release(w) \/ BreakDeadlock(w) \/ Commit(w)

Next ==
  \/ \E e \in Event : Accept(e) \/ MarkStale(e)
  \/ \E w \in Worker : Work(w) \/ Fail(w) \/ Abort(w)
  \/ CommitTick \/ FailTick \/ Clock

Spec == Init /\ [][Next]_vars

(* The workers and the scheduler go on, locks are granted, PostgreSQL finds *)
(* deadlocks, and time passes.                                              *)
Fairness ==
  /\ \A w \in Worker : WF_vars(Work(w))
  /\ WF_vars(\E t \in Event : MarkStale(t))
  /\ WF_vars(CommitTick)
  /\ WF_vars(Clock)

FairSpec == Spec /\ Fairness

-----------------------------------------------------------------------------
Batches == [todo : SUBSET Event, done : SUBSET Event, failed : SUBSET Event]
Jobs == [event : Event \cup {None}, step : {"idle", "close", "head", "rules"},
         trip : Event \cup {None}, base : TripRow, rules : SUBSET Rule]
Changes == [trip : [Event -> TripRow], point : [Event -> Event \cup {None}],
            count : [Event \X Rule -> Nat]]

TypeOK ==
  /\ now \in Nat
  /\ outbox \in [Event -> [status : {"none", "pending", "done", "dead_letter"},
                           attempts : Nat, order : Nat]]
  /\ trip \in [Event -> TripRow]
  /\ point \in [Event -> Event \cup {None}]
  /\ count \in [Event \X Rule -> Nat]
  /\ batch \in [Worker -> Batches]
  /\ job \in [Worker -> Jobs]
  /\ mine \in [Worker -> Changes]
  /\ save \in [Worker -> Changes]
  /\ tick \in SUBSET Event
  /\ aborts \in Nat

PointsOf(t) == {e \in Event : point[e] = t}

(* The head of a trip tells of the trip's own points: it never counts more  *)
(* than there are; it counts all unless some worker wrote over a row that   *)
(* had changed since it was read; and last_point_at is the time of one of   *)
(* them, the latest unless points came late.                                *)
HeadMatchesPoints ==
  \A t \in Event : trip[t].status # "none" =>
    LET P == PointsOf(t)
    IN  /\ trip[t].points \in 1..Cardinality(P)
        /\ ~trip[t].raced => trip[t].points = Cardinality(P)
        /\ \E e \in P : trip[t].lastAt = Occurred[e]
        /\ ~trip[t].late => \A e \in P : Occurred[e] <= trip[t].lastAt

(* The sliding window: two safety events of a vehicle and rule are more     *)
(* than Window apart, however the workers' transactions interleave and in   *)
(* whatever order the points come.                                          *)
EventsApart ==
  \A r \in Rule : \A d, e \in Event :
    (d # e /\ Vehicle[d] = Vehicle[e] /\ count[<<d, r>>] # 0 /\ count[<<e, r>>] # 0)
      => Distance(d, e) > Window

(* No hit is lost or counted twice: the occurrences of the safety events of *)
(* a vehicle and rule are the committed points that broke it.               *)
HitsCounted ==
  \A r \in Rule : \A v \in {Vehicle[e] : e \in Event} :
    LET Own == {e \in Event : Vehicle[e] = v}
    IN  MapThenSumSet(LAMBDA e : count[<<e, r>>], Own)
          = Cardinality({e \in Own : point[e] # None /\ r \in Broken[e]})

(* A trip that has ended or gone stale is not taken up again, and one that  *)
(* is completed is not marked stale, although workers and the scheduler     *)
(* write rows they have read in another state.                              *)
TripsStayClosed ==
  [][\A t \in Event :
       /\ trip[t].status \in {"completed", "stale"} => trip'[t].status \in {"completed", "stale"}
       /\ trip[t].status = "completed" => trip'[t].status = "completed"]_vars

State == [e \in Event |-> IF outbox[e].status = "pending" THEN "queued" ELSE outbox[e].status]
Applied == [e \in Event |-> IF point[e] # None THEN 1 ELSE 0]
Promise == INSTANCE OutboxPromise WITH
  Source <- Event, Cause <- [e \in {} |-> e], state <- State, applied <- Applied

(* The pipeline keeps the promise of the outbox with telemetry points as    *)
(* the effect: an event has a point if and only if it is done.              *)
ImplementsPromise == Promise!Init /\ [][Promise!Next]_<<State, Applied>>

(* Every accepted event becomes a point or is given up, although workers    *)
(* wait for one another's rows, in circles too, and for those of the tick,  *)
(* and every trip ends: with finitely many events all is quiet in the end.  *)
EventuallyQuiet ==
  []<>(\A e \in Event : outbox[e].status # "pending" /\ trip[e].status # "active")
=============================================================================
