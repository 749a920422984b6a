------------------------- MODULE TripPipelineProofs -------------------------
(***************************************************************************)
(* Proofs about the telemetry pipeline, for any events, vehicles, rules,   *)
(* workers and bounds.  A worker sees the committed tables with its own    *)
(* changes on top (Seen), and after a rollback of its savepoint with those *)
(* it has released (Kept).  The inductive invariant IInv says of these     *)
(* views what the properties say of the tables, and that the locks keep    *)
(* the changes of two workers, and of the scheduler, apart: so a commit    *)
(* makes one worker's view the table without a change of anybody else's    *)
(* view of the rows that worker has changed.  In the same way, on top of   *)
(* IInv, the sums of the hits and the heads of the trips are right in      *)
(* every view, and so in the tables.                                       *)
(***************************************************************************)
EXTENDS TripPipeline, FoldLemmas, FiniteSetTheorems, TLAPS

(* What w will see after a rollback to its last savepoint. *)
TripKept(w, t) == IF mine[w].trip[t] # NoRow THEN mine[w].trip[t] ELSE trip[t]
CountKept(w, s) == IF mine[w].count[s] # 0 THEN mine[w].count[s] ELSE count[s]

(* No event is in the batches of two workers, or to do and done. *)
Disjoint ==
  /\ \A w, u \in Worker : w # u => Claimed(w) \cap Claimed(u) = {}
  /\ \A w \in Worker : batch[w].todo \cap batch[w].done = {}

(* The event being handled is still to do and has no point; nothing is in   *)
(* the savepoint without one, nor before the trip that was read is written. *)
JobOK(w) ==
  /\ job[w].event = None => job[w] = NoJob /\ save[w] = NoChange
  /\ job[w].event # None => /\ job[w].event \in batch[w].todo
                            /\ job[w].step # "idle"
                            /\ point[job[w].event] = None
  /\ job[w].step \in {"close", "head"} => /\ job[w].trip \in Event
                                          /\ save[w] = NoChange
                                          /\ TripSeen(w, job[w].trip) # NoRow
  /\ job[w].step = "rules" => job[w].trip \in Event

(* A trip that is not in the table was opened by the event being handled or *)
(* by one the transaction has handled, and these have their points.         *)
RowsOK(w) ==
  /\ \A t \in Event :
       /\ mine[w].trip[t] # NoRow /\ trip[t] = NoRow => t \in batch[w].done
       /\ save[w].trip[t] # NoRow /\ TripKept(w, t) = NoRow => t = job[w].event
  /\ \A e \in Event : mine[w].point[e] # None <=> e \in batch[w].done

TablesOK ==
  /\ \A t \in Event : trip[t] # NoRow => point[t] # None
  /\ \A t \in tick : trip[t].status = "active"

(* Row locks on trips, advisory locks on vehicles and rules. *)
TripLocks ==
  /\ \A t \in Event : \A w, u \in Worker : w # u => ~(HoldsTrip(w, t) /\ HoldsTrip(u, t))
  /\ \A t \in tick : \A w \in Worker : ~HoldsTrip(w, t)
RuleLocks ==
  \A e \in Event, r \in Rule : \A w, u \in Worker :
    w # u => ~(HoldsRule(w, Vehicle[e], r) /\ HoldsRule(u, Vehicle[e], r))

(* The life of a trip: row b may follow row a. *)
Later(a, b) ==
  /\ a.status \in {"completed", "stale"} => b.status \in {"completed", "stale"}
  /\ a.status = "completed" => b.status = "completed"
Chain(w) == \A t \in Event : /\ Later(trip[t], TripKept(w, t))
                             /\ Later(TripKept(w, t), TripSeen(w, t))

(* EventsApart, of the counts c(s) a worker sees. *)
SeenApart(w) ==
  \A r \in Rule : \A d, e \in Event :
    (d # e /\ Vehicle[d] = Vehicle[e] /\ CountSeen(w, <<d, r>>) # 0 /\ CountSeen(w, <<e, r>>) # 0)
      => Distance(d, e) > Window
KeptApart(w) ==
  \A r \in Rule : \A d, e \in Event :
    (d # e /\ Vehicle[d] = Vehicle[e] /\ CountKept(w, <<d, r>>) # 0 /\ CountKept(w, <<e, r>>) # 0)
      => Distance(d, e) > Window

WorkerOK(w) == JobOK(w) /\ RowsOK(w) /\ Chain(w) /\ SeenApart(w) /\ KeptApart(w)

IInv ==
  /\ TypeOK
  /\ Disjoint
  /\ TablesOK
  /\ TripLocks
  /\ RuleLocks
  /\ EventsApart
  /\ \A w \in Worker : WorkerOK(w)

-----------------------------------------------------------------------------
(* How the changes of a transaction are read and written.                  *)
LEMMA NoChangeType ==
  /\ NoChange \in Changes /\ NoRow \in TripRow
  /\ \A t \in Event : NoChange.trip[t] = NoRow
  /\ \A e \in Event : NoChange.point[e] = None
  /\ \A s \in Event \X Rule : NoChange.count[s] = 0
  /\ \A e \in Event, r \in Rule : NoChange.count[<<e, r>>] = 0
  <1>1. NoRow \in TripRow
    BY DEF NoRow, TripRow
  <1>. QED BY <1>1 DEF NoChange, Changes

LEMMA SeenType ==
  ASSUME TypeOK, NEW w \in Worker
  PROVE  /\ \A t \in Event : TripSeen(w, t) \in TripRow
         /\ \A s \in Event \X Rule : CountSeen(w, s) \in Nat
  BY DEF TypeOK, Changes, TripSeen, CountSeen

(* A savepoint that writes the trip t.                                     *)
LEMMA TripWritten ==
  ASSUME TypeOK, NEW w \in Worker, NEW t \in Event, NEW row \in TripRow,
         save' = [save EXCEPT ![w].trip[t] = row]
  PROVE  /\ save' \in [Worker -> Changes]
         /\ \A v \in Worker \ {w} : save'[v] = save[v]
         /\ save'[w].point = save[w].point /\ save'[w].count = save[w].count
         /\ save'[w].trip[t] = row
         /\ \A u \in Event \ {t} : save'[w].trip[u] = save[w].trip[u]
  BY DEF TypeOK, Changes

(* A savepoint whose trips are replaced.                                   *)
LEMMA TripsReplaced ==
  ASSUME NEW c \in Changes, NEW f \in [Event -> TripRow]
  PROVE  /\ [c EXCEPT !.trip = f] \in Changes
         /\ [c EXCEPT !.trip = f].trip = f
         /\ [c EXCEPT !.trip = f].count = c.count
  BY DEF Changes

(* What a worker writes of its job.                                        *)
LEMMA JobMoved ==
  ASSUME NEW j \in Jobs, NEW e \in Event
  PROVE  /\ [j EXCEPT !.step = "rules", !.trip = e] \in Jobs
         /\ [j EXCEPT !.step = "rules", !.trip = e].event = j.event
         /\ [j EXCEPT !.step = "rules", !.trip = e].step = "rules"
         /\ [j EXCEPT !.step = "rules", !.trip = e].trip = e
  BY DEF Jobs

LEMMA JobRulesLeft ==
  ASSUME NEW j \in Jobs, NEW S \in SUBSET Rule
  PROVE  /\ [j EXCEPT !.rules = S] \in Jobs
         /\ [j EXCEPT !.rules = S].event = j.event
         /\ [j EXCEPT !.rules = S].step = j.step
         /\ [j EXCEPT !.rules = S].trip = j.trip
  BY DEF Jobs

(* An event that leaves what is to do of a batch is still claimed.         *)
LEMMA EventDone ==
  ASSUME NEW b \in Batches, NEW e \in b.todo
  PROVE  /\ [b EXCEPT !.todo = @ \ {e}, !.done = @ \cup {e}] \in Batches
         /\ [b EXCEPT !.todo = @ \ {e}, !.done = @ \cup {e}].todo = b.todo \ {e}
         /\ [b EXCEPT !.todo = @ \ {e}, !.done = @ \cup {e}].done = b.done \cup {e}
         /\ [b EXCEPT !.todo = @ \ {e}, !.done = @ \cup {e}].failed = b.failed
  BY DEF Batches

LEMMA EventFailed ==
  ASSUME NEW b \in Batches, NEW e \in b.todo
  PROVE  /\ [b EXCEPT !.todo = @ \ {e}, !.failed = @ \cup {e}] \in Batches
         /\ [b EXCEPT !.todo = @ \ {e}, !.failed = @ \cup {e}].todo = b.todo \ {e}
         /\ [b EXCEPT !.todo = @ \ {e}, !.failed = @ \cup {e}].done = b.done
         /\ [b EXCEPT !.todo = @ \ {e}, !.failed = @ \cup {e}].failed = b.failed \cup {e}
  BY DEF Batches

(* The rows a worker writes are rows, and are there.                       *)
LEMMA RowTypes ==
  ASSUME NEW e \in Event, NEW seen \in TripRow, NEW base \in TripRow
  PROVE  /\ NewTrip(e) \in TripRow /\ NewTrip(e) # NoRow
         /\ HeadAfter(seen, base, e) \in TripRow /\ HeadAfter(seen, base, e) # NoRow
         /\ [seen EXCEPT !.status = "completed", !.endedAt = base.lastAt] \in TripRow
         /\ [seen EXCEPT !.status = "completed", !.endedAt = base.lastAt] # NoRow
  <1>1. Occurred[e] \in Nat
    BY PipelineAssumption
  <1>2. NewTrip(e) \in TripRow /\ NewTrip(e).status = "active"
    BY <1>1 DEF NewTrip, TripRow, NoRow
  <1>3. HeadAfter(seen, base, e) \in TripRow /\ HeadAfter(seen, base, e).points # 0
    <2>1. (seen.raced \/ seen # base) \in BOOLEAN /\ (seen.late \/ Occurred[e] < seen.lastAt) \in BOOLEAN
      OBVIOUS
    <2>2. base.points + 1 \in Nat /\ base.points + 1 # 0
      BY DEF TripRow
    <2>. QED BY <1>1, <2>1, <2>2 DEF HeadAfter, TripRow
  <1>4. /\ [seen EXCEPT !.status = "completed", !.endedAt = base.lastAt] \in TripRow
        /\ [seen EXCEPT !.status = "completed", !.endedAt = base.lastAt].status = "completed"
    BY DEF TripRow
  <1>5. NoRow.status = "none" /\ NoRow.points = 0
    BY DEF NoRow
  <1>. QED BY <1>2, <1>3, <1>4, <1>5

(* The changes a released savepoint leaves.                                *)
LEMMA ReleasedType ==
  ASSUME TypeOK, NEW w \in Worker, job[w].event \in Event
  PROVE  Released(w) \in Changes
  BY DEF TypeOK, Changes, Jobs, Released

-----------------------------------------------------------------------------
(* A step of w that changes nothing but what w has to itself leaves the    *)
(* other workers as they were.                                             *)
LEMMA LocalStep ==
  ASSUME IInv, NEW w \in Worker,
         UNCHANGED <<committed, tick>>,
         \A u \in Worker \ {w} : /\ batch'[u] = batch[u] /\ job'[u] = job[u]
                                 /\ mine'[u] = mine[u] /\ save'[u] = save[u],
         TypeOK', Disjoint', TripLocks', RuleLocks', WorkerOK(w)'
  PROVE  IInv'
  <1>1. TablesOK' /\ EventsApart'
    BY DEF IInv, TablesOK, EventsApart, committed, Distance
  <1>2. \A u \in Worker \ {w} : WorkerOK(u)'
    <2>. SUFFICES ASSUME NEW u \in Worker \ {w} PROVE WorkerOK(u)'
      OBVIOUS
    <2>1. WorkerOK(u)
      BY DEF IInv
    <2>2. JobOK(u)'
      BY <2>1 DEF WorkerOK, JobOK, TripSeen, committed
    <2>3. RowsOK(u)'
      BY <2>1 DEF WorkerOK, RowsOK, TripKept, committed
    <2>4. Chain(u)'
      BY <2>1 DEF WorkerOK, Chain, TripKept, TripSeen, Later, committed
    <2>5. SeenApart(u)' /\ KeptApart(u)'
      BY <2>1 DEF WorkerOK, SeenApart, KeptApart, CountSeen, CountKept, Distance, committed
    <2>. QED BY <2>2, <2>3, <2>4, <2>5 DEF WorkerOK
  <1>. QED BY <1>1, <1>2 DEF IInv

(* The locks w takes in a step were free, so all are exclusive as before.  *)
LEMMA LocksTaken ==
  ASSUME IInv, NEW w \in Worker, tick' = tick,
         \A u \in Worker \ {w} : mine'[u] = mine[u] /\ save'[u] = save[u]
  PROVE  /\ (\A t \in Event : HoldsTrip(w, t)' => HoldsTrip(w, t) \/ TripFree(w, t)) => TripLocks'
         /\ (\A e \in Event, r \in Rule :
               HoldsRule(w, Vehicle[e], r)' => HoldsRule(w, Vehicle[e], r) \/ RuleFree(w, Vehicle[e], r))
              => RuleLocks'
  <1>1. \A u \in Worker \ {w}, t \in Event : HoldsTrip(u, t)' <=> HoldsTrip(u, t)
    BY DEF HoldsTrip
  <1>2. \A u \in Worker \ {w}, e \in Event, r \in Rule :
          HoldsRule(u, Vehicle[e], r)' <=> HoldsRule(u, Vehicle[e], r)
    BY DEF HoldsRule
  <1>3. (\A t \in Event : HoldsTrip(w, t)' => HoldsTrip(w, t) \/ TripFree(w, t)) => TripLocks'
    BY <1>1 DEF IInv, TripLocks, TypeOK, TripFree
  <1>4. (\A e \in Event, r \in Rule :
           HoldsRule(w, Vehicle[e], r)' => HoldsRule(w, Vehicle[e], r) \/ RuleFree(w, Vehicle[e], r))
              => RuleLocks'
    BY <1>2 DEF IInv, RuleLocks, RuleFree
  <1>. QED BY <1>3, <1>4

(* A worker that changes no count sees the same safety events.             *)
LEMMA CountsSame ==
  ASSUME IInv, NEW w \in Worker, UNCHANGED <<count, tick>>,
         \A u \in Worker \ {w} : mine'[u] = mine[u] /\ save'[u] = save[u],
         mine'[w].count = mine[w].count, save'[w].count = save[w].count
  PROVE  SeenApart(w)' /\ KeptApart(w)' /\ RuleLocks'
  <1>1. SeenApart(w) /\ KeptApart(w)
    BY DEF IInv, WorkerOK
  <1>2. SeenApart(w)' /\ KeptApart(w)'
    BY <1>1 DEF SeenApart, KeptApart, CountSeen, CountKept, Distance
  <1>3. \A e \in Event, r \in Rule : HoldsRule(w, Vehicle[e], r)' => HoldsRule(w, Vehicle[e], r)
    BY DEF HoldsRule
  <1>. QED BY <1>2, <1>3, LocksTaken

(* The row of a new trip is nowhere yet.                                   *)
LEMMA FreshRow ==
  ASSUME IInv, NEW w \in Worker, NEW e \in Event, e \in batch[w].todo, point[e] = None
  PROVE  trip[e] = NoRow /\ TripKept(w, e) = NoRow /\ TripFree(w, e)
  <1>1. trip[e] = NoRow
    BY DEF IInv, TablesOK
  <1>2. TripKept(w, e) = NoRow
    BY <1>1 DEF IInv, WorkerOK, RowsOK, Disjoint, TripKept
  <1>3. e \notin tick
    BY <1>1 DEF IInv, TablesOK, NoRow
  <1>4. ASSUME NEW u \in Worker \ {w} PROVE ~HoldsTrip(u, e)
    <2>1. e \notin Claimed(u)
      BY DEF IInv, Disjoint, Claimed
    <2>2. RowsOK(u) /\ JobOK(u)
      BY DEF IInv, WorkerOK
    <2>3. mine[u].trip[e] = NoRow
      BY <1>1, <2>1, <2>2 DEF RowsOK, Claimed
    <2>4. save[u].trip[e] = NoRow
      BY <1>1, <2>1, <2>2, <2>3, PipelineAssumption DEF RowsOK, JobOK, Claimed, TripKept
    <2>. QED BY <2>3, <2>4 DEF HoldsTrip
  <1>. QED BY <1>1, <1>2, <1>3, <1>4 DEF TripFree

LEMMA OpenTripKeeps ==
  ASSUME IInv, NEW w \in Worker, OpenTrip(w)
  PROVE  IInv'
  <1>1. PICK e \in Event : /\ Reading(w, e, None)
                           /\ save' = [save EXCEPT ![w].trip[e] = NewTrip(e)]
                           /\ job' = [job EXCEPT ![w] = Job(e, "rules", e, NoRow)]
    BY DEF OpenTrip
  <1>2. /\ TypeOK /\ WorkerOK(w)
        /\ UNCHANGED <<now, outbox, trip, point, count, batch, mine, tick, aborts>>
        /\ job[w].event = None /\ save[w] = NoChange
        /\ e \in batch[w].todo /\ point[e] = None
    BY <1>1 DEF IInv, WorkerOK, JobOK, OpenTrip, committed, Reading, IsNext
  <1>3. trip[e] = NoRow /\ TripKept(w, e) = NoRow /\ TripFree(w, e)
    BY <1>2, FreshRow
  <1>4. /\ save' \in [Worker -> Changes]
        /\ \A u \in Worker \ {w} : save'[u] = save[u] /\ job'[u] = job[u]
        /\ save'[w].point = save[w].point /\ save'[w].count = save[w].count
        /\ save'[w].trip[e] = NewTrip(e)
        /\ \A u \in Event \ {e} : save'[w].trip[u] = NoRow
    <2>1. NewTrip(e) \in TripRow
      BY RowTypes, NoChangeType
    <2>2. /\ save' \in [Worker -> Changes]
          /\ \A u \in Worker \ {w} : save'[u] = save[u]
          /\ save'[w].point = save[w].point /\ save'[w].count = save[w].count
          /\ save'[w].trip[e] = NewTrip(e)
          /\ \A u \in Event \ {e} : save'[w].trip[u] = save[w].trip[u]
      <3>1. PICK r \in TripRow : r = NewTrip(e)
        BY <2>1
      <3>2. TypeOK /\ save' = [save EXCEPT ![w].trip[e] = r]
        BY <1>1, <1>2, <3>1
      <3>3. /\ save' \in [Worker -> Changes]
            /\ \A u \in Worker \ {w} : save'[u] = save[u]
            /\ save'[w].point = save[w].point /\ save'[w].count = save[w].count
            /\ save'[w].trip[e] = r
            /\ \A u \in Event \ {e} : save'[w].trip[u] = save[w].trip[u]
        <4>1. w \in Worker /\ e \in Event /\ r \in TripRow
          OBVIOUS
        <4>. QED BY ONLY <3>2, <4>1 DEF TypeOK, Changes
      <3>. QED BY <3>1, <3>3
    <2>3. \A u \in Worker \ {w} : job'[u] = job[u]
      BY <1>1, <1>2 DEF TypeOK
    <2>. QED BY <1>2, <2>2, <2>3, NoChangeType
  <1>5. Job(e, "rules", e, NoRow) \in Jobs /\ job'[w] = Job(e, "rules", e, NoRow)
    BY <1>1, <1>2, NoChangeType, PipelineAssumption DEF Job, Jobs, Rule, TypeOK
  <1>6. TypeOK'
    BY <1>1, <1>2, <1>4, <1>5 DEF TypeOK
  <1>7. JobOK(w)'
    BY <1>2, <1>5, PipelineAssumption DEF JobOK, Job
  <1>8. RowsOK(w)'
    BY <1>2, <1>3, <1>4, <1>5 DEF WorkerOK, RowsOK, TripKept, Job
  <1>9. Chain(w)'
    <2>1. \A t \in Event : TripKept(w, t)' = TripKept(w, t)
      BY <1>2 DEF TripKept
    <2>2. \A t \in Event \ {e} : TripSeen(w, t)' = TripKept(w, t)'
      BY <1>2, <1>4 DEF TripKept, TripSeen
    <2>3. Later(TripKept(w, e), TripSeen(w, e)')
      BY <1>3 DEF Later, NoRow
    <2>. QED BY <1>2, <2>1, <2>2, <2>3 DEF WorkerOK, Chain, Later
  <1>10. TripLocks'
    <2>1. \A t \in Event : HoldsTrip(w, t)' => HoldsTrip(w, t) \/ TripFree(w, t)
      BY <1>2, <1>3, <1>4 DEF HoldsTrip
    <2>. QED BY <1>2, <1>4, <2>1, LocksTaken
  <1>11. SeenApart(w)' /\ KeptApart(w)' /\ RuleLocks'
    BY <1>2, <1>4, CountsSame
  <1>12. Disjoint'
    BY <1>2 DEF IInv, Disjoint, Claimed
  <1>. QED BY <1>2, <1>4, <1>6, <1>7, <1>8, <1>9, <1>10, <1>11, <1>12, LocalStep DEF WorkerOK, committed

LEMMA ReadTripKeeps ==
  ASSUME IInv, NEW w \in Worker, ReadTrip(w)
  PROVE  IInv'
  <1>1. PICK e \in Event, t \in Event :
          LET r == TripSeen(w, t)
          IN  /\ Reading(w, e, t)
              /\ job' = [job EXCEPT ![w] =
                           Job(e, IF IdleTooLong(e, r) THEN "close" ELSE "head", t, r)]
    BY DEF ReadTrip
  <1> DEFINE step == IF IdleTooLong(e, TripSeen(w, t)) THEN "close" ELSE "head"
  <1>2. /\ TypeOK /\ WorkerOK(w)
        /\ UNCHANGED <<now, outbox, trip, point, count, batch, mine, save, tick, aborts>>
        /\ save[w] = NoChange
        /\ e \in batch[w].todo /\ point[e] = None
    BY <1>1 DEF IInv, WorkerOK, JobOK, ReadTrip, committed, Reading, IsNext
  <1>3. TripSeen(w, t) # NoRow /\ TripSeen(w, t) \in TripRow
    BY <1>1, <1>2, SeenType, PipelineAssumption DEF Reading, IsActiveTrip, Open, NoRow
  <1>4. /\ Job(e, step, t, TripSeen(w, t)) \in Jobs
        /\ job'[w] = Job(e, step, t, TripSeen(w, t))
        /\ \A u \in Worker \ {w} : job'[u] = job[u]
    BY <1>1, <1>2, <1>3, PipelineAssumption DEF Job, Jobs, Rule, TypeOK
  <1>5. TypeOK'
    BY <1>1, <1>2, <1>4 DEF TypeOK
  <1>6. JobOK(w)'
    BY <1>2, <1>3, <1>4, PipelineAssumption DEF JobOK, Job, TripSeen
  <1>7. RowsOK(w)'
    BY <1>2, NoChangeType DEF WorkerOK, RowsOK, TripKept
  <1>8. Chain(w)'
    BY <1>2 DEF WorkerOK, Chain, TripKept, TripSeen, Later
  <1>9. TripLocks'
    BY <1>2 DEF IInv, TripLocks, HoldsTrip
  <1>10. SeenApart(w)' /\ KeptApart(w)' /\ RuleLocks'
    BY <1>2, CountsSame
  <1>11. Disjoint'
    BY <1>2 DEF IInv, Disjoint, Claimed
  <1>. QED BY <1>2, <1>4, <1>5, <1>6, <1>7, <1>8, <1>9, <1>10, <1>11, LocalStep DEF WorkerOK, committed

(* The event being handled, once there is a step to take.                  *)
LEMMA JobEvent ==
  ASSUME IInv, NEW w \in Worker, job[w].step # "idle" \/ job[w].event # None
  PROVE  /\ job[w].event \in Event /\ job[w].event \in batch[w].todo
         /\ point[job[w].event] = None /\ job[w].step # "idle"
  BY DEF IInv, WorkerOK, JobOK, NoJob, TypeOK, Jobs

LEMMA CloseKeeps ==
  ASSUME IInv, NEW w \in Worker, Close(w)
  PROVE  IInv'
  <1>0. /\ job[w].step = "close" /\ TypeOK /\ WorkerOK(w) /\ save[w] = NoChange
        /\ job[w].trip \in Event /\ job[w].event \in Event
    BY JobEvent DEF Close, IInv, WorkerOK, JobOK
  <1>1. PICK t \in Event, e \in Event : t = job[w].trip /\ e = job[w].event
    BY <1>0
  <1> DEFINE old == [TripSeen(w, t) EXCEPT !.status = "completed", !.endedAt = job[w].base.lastAt]
  <1>2. /\ TypeOK /\ WorkerOK(w) /\ TripFree(w, t)
        /\ UNCHANGED <<now, outbox, trip, point, count, batch, mine, tick, aborts>>
        /\ save[w] = NoChange /\ TripSeen(w, t) # NoRow
        /\ e \in batch[w].todo /\ point[e] = None
    BY <1>0, <1>1, JobEvent DEF WorkerOK, JobOK, Close, committed
  <1>3. trip[e] = NoRow /\ TripKept(w, e) = NoRow /\ TripFree(w, e)
    BY <1>2, FreshRow
  <1>4. TripSeen(w, t) = TripKept(w, t) /\ t # e
    BY <1>2, <1>3, NoChangeType DEF TripSeen, TripKept
  <1>5. /\ old \in TripRow /\ old # NoRow /\ old.status = "completed"
        /\ NewTrip(e) \in TripRow /\ NewTrip(e) # NoRow
    <2>1. TripSeen(w, t) \in TripRow /\ job[w].base \in TripRow
      BY <1>2, SeenType DEF TypeOK, Jobs
    <2>2. old.status = "completed"
      BY <2>1 DEF TripRow
    <2>. QED BY <1>2, <2>1, <2>2, RowTypes
  <1>6. PICK row : row = old
    OBVIOUS
  <1>7. /\ save' \in [Worker -> Changes]
        /\ \A u \in Worker \ {w} : save'[u] = save[u]
        /\ save'[w].trip[t] = row /\ save'[w].trip[e] = NewTrip(e)
        /\ \A u \in Event \ {t, e} : save'[w].trip[u] = NoRow
        /\ save'[w].count = save[w].count
    <2>1. save[w].trip \in [Event -> TripRow] /\ \A u \in Event : save[w].trip[u] = NoRow
      BY <1>2, NoChangeType DEF TypeOK, Changes
    <2>2. save' = [save EXCEPT ![w].trip = [@ EXCEPT ![t] = row, ![e] = NewTrip(e)]]
      BY <1>1, <1>6 DEF Close
    <2>3. PICK f : f = [save[w].trip EXCEPT ![t] = row, ![e] = NewTrip(e)]
      OBVIOUS
    <2>4. /\ f \in [Event -> TripRow] /\ f[t] = row /\ f[e] = NewTrip(e)
          /\ \A u \in Event \ {t, e} : f[u] = NoRow
      BY <1>4, <1>5, <1>6, <2>1, <2>3
    <2>5. save' = [save EXCEPT ![w].trip = f]
      BY <1>2, <2>2, <2>3 DEF TypeOK
    <2>6. /\ save' \in [Worker -> Changes]
          /\ \A u \in Worker \ {w} : save'[u] = save[u]
          /\ save'[w].trip = f /\ save'[w].count = save[w].count
      <3>1. /\ [save[w] EXCEPT !.trip = f] \in Changes
            /\ [save[w] EXCEPT !.trip = f].trip = f
            /\ [save[w] EXCEPT !.trip = f].count = save[w].count
        <4>1. save[w] \in Changes
          BY <1>2 DEF TypeOK
        <4>. QED BY <2>4, <4>1, TripsReplaced
      <3>2. save' = [save EXCEPT ![w] = [save[w] EXCEPT !.trip = f]]
        BY <1>2, <2>5 DEF TypeOK
      <3>. QED BY <1>2, <3>1, <3>2 DEF TypeOK
    <2>. QED BY <2>4, <2>6
  <1>8. /\ job' \in [Worker -> Jobs]
        /\ \A u \in Worker \ {w} : job'[u] = job[u]
        /\ job'[w].event = e /\ job'[w].step = "rules" /\ job'[w].trip = e
    <2>1. job' = [job EXCEPT ![w] = [job[w] EXCEPT !.step = "rules", !.trip = e]]
      BY <1>1, <1>2 DEF Close, TypeOK
    <2>2. /\ [job[w] EXCEPT !.step = "rules", !.trip = e] \in Jobs
          /\ [job[w] EXCEPT !.step = "rules", !.trip = e].event = e
          /\ [job[w] EXCEPT !.step = "rules", !.trip = e].step = "rules"
          /\ [job[w] EXCEPT !.step = "rules", !.trip = e].trip = e
      <3>1. job[w] \in Jobs
        BY <1>2 DEF TypeOK
      <3>. QED BY <1>1, <3>1, JobMoved
    <2>. QED BY <1>2, <2>1, <2>2 DEF TypeOK
  <1>8b. row \in TripRow /\ row # NoRow /\ row.status = "completed"
    BY <1>5, <1>6
  <1>. HIDE DEF old
  <1>9. TypeOK'
    BY <1>2, <1>7, <1>8 DEF TypeOK
  <1>10. JobOK(w)'
    BY <1>2, <1>8, PipelineAssumption DEF JobOK
  <1>11. RowsOK(w)'
    <2>1. \A u \in Event : TripKept(w, u)' = TripKept(w, u)
      BY <1>2 DEF TripKept
    <2>. QED BY <1>2, <1>4, <1>7, <1>8, <2>1 DEF WorkerOK, RowsOK
  <1>12. Chain(w)'
    <2>1. \A u \in Event : TripKept(w, u)' = TripKept(w, u)
      BY <1>2 DEF TripKept
    <2>2. \A u \in Event \ {t, e} : TripSeen(w, u)' = TripKept(w, u)'
      BY <1>7 DEF TripKept, TripSeen
    <2>3. TripSeen(w, t)' = row
      BY <1>7, <1>8b DEF TripSeen
    <2>4. Later(TripKept(w, e), TripSeen(w, e)')
      BY <1>3 DEF Later, NoRow
    <2>. QED BY <1>2, <1>8b, <2>1, <2>2, <2>3, <2>4 DEF WorkerOK, Chain, Later
  <1>13. TripLocks'
    <2>1. \A u \in Event : HoldsTrip(w, u)' => HoldsTrip(w, u) \/ TripFree(w, u)
      BY <1>2, <1>3, <1>7 DEF HoldsTrip
    <2>. QED BY <1>2, <1>7, <2>1, LocksTaken
  <1>14. SeenApart(w)' /\ KeptApart(w)' /\ RuleLocks'
    BY <1>2, <1>7, CountsSame
  <1>15. Disjoint'
    BY <1>2 DEF IInv, Disjoint, Claimed
  <1>. QED BY <1>2, <1>7, <1>8, <1>9, <1>10, <1>11, <1>12, <1>13, <1>14, <1>15, LocalStep
         DEF WorkerOK, committed

LEMMA UpdateHeadKeeps ==
  ASSUME IInv, NEW w \in Worker, UpdateHead(w)
  PROVE  IInv'
  <1>0. /\ job[w].step = "head" /\ TypeOK /\ WorkerOK(w)
        /\ job[w].trip \in Event /\ job[w].event \in Event
    BY JobEvent DEF UpdateHead, IInv, WorkerOK, JobOK
  <1>1. PICK t \in Event, e \in Event : t = job[w].trip /\ e = job[w].event
    BY <1>0
  <1>2. /\ TypeOK /\ WorkerOK(w) /\ TripFree(w, t)
        /\ UNCHANGED <<now, outbox, trip, point, count, batch, mine, tick, aborts>>
        /\ save[w] = NoChange /\ TripSeen(w, t) # NoRow
        /\ e \in batch[w].todo /\ point[e] = None
    BY <1>0, <1>1, JobEvent DEF WorkerOK, JobOK, UpdateHead, committed
  <1>3. TripSeen(w, t) = TripKept(w, t)
    BY <1>2, NoChangeType DEF TripSeen, TripKept
  <1>4. PICK row : row = HeadAfter(TripSeen(w, t), job[w].base, e)
    OBVIOUS
  <1>5. row \in TripRow /\ row # NoRow /\ row.status = TripSeen(w, t).status
    <2>1. TripSeen(w, t) \in TripRow /\ job[w].base \in TripRow
      BY <1>2, SeenType DEF TypeOK, Jobs
    <2>2. row.status = TripSeen(w, t).status
      BY <1>4, <2>1 DEF HeadAfter, TripRow
    <2>. QED BY <1>4, <2>1, <2>2, RowTypes
  <1>6. /\ save' \in [Worker -> Changes]
        /\ \A u \in Worker \ {w} : save'[u] = save[u]
        /\ save'[w].trip[t] = row /\ save'[w].count = save[w].count
        /\ \A u \in Event \ {t} : save'[w].trip[u] = NoRow
    <2>1. save' = [save EXCEPT ![w].trip[t] = row]
      BY <1>1, <1>4 DEF UpdateHead
    <2>2. /\ save' \in [Worker -> Changes]
          /\ \A u \in Worker \ {w} : save'[u] = save[u]
          /\ save'[w].trip[t] = row /\ save'[w].count = save[w].count
          /\ \A u \in Event \ {t} : save'[w].trip[u] = save[w].trip[u]
      <3>1. save \in [Worker -> Changes] /\ row \in TripRow
        BY <1>2, <1>5 DEF TypeOK
      <3>. QED BY <2>1, <3>1 DEF Changes
    <2>. QED BY <1>2, <2>2, NoChangeType
  <1>7. /\ job' \in [Worker -> Jobs]
        /\ \A u \in Worker \ {w} : job'[u] = job[u]
        /\ job'[w].event = e /\ job'[w].step = "rules" /\ job'[w].trip = t
    <2>1. job' = [job EXCEPT ![w] = [job[w] EXCEPT !.step = "rules"]]
      BY <1>2 DEF UpdateHead, TypeOK
    <2>2. job[w] \in Jobs /\ job[w].event = e /\ job[w].trip = t
      BY <1>1, <1>2 DEF TypeOK
    <2>3. /\ [job[w] EXCEPT !.step = "rules"] \in Jobs
          /\ [job[w] EXCEPT !.step = "rules"].event = e
          /\ [job[w] EXCEPT !.step = "rules"].step = "rules"
          /\ [job[w] EXCEPT !.step = "rules"].trip = t
      BY <2>2 DEF Jobs
    <2>. QED BY <1>2, <2>1, <2>3 DEF TypeOK
  <1>8. TypeOK'
    BY <1>2, <1>6, <1>7 DEF TypeOK
  <1>9. JobOK(w)'
    BY <1>2, <1>7, PipelineAssumption DEF JobOK
  <1>10. \A u \in Event : TripKept(w, u)' = TripKept(w, u)
    BY <1>2 DEF TripKept
  <1>11. RowsOK(w)'
    BY <1>2, <1>3, <1>6, <1>7, <1>10 DEF WorkerOK, RowsOK
  <1>12. Chain(w)'
    <2>1. \A u \in Event \ {t} : TripSeen(w, u)' = TripKept(w, u)'
      BY <1>6 DEF TripKept, TripSeen
    <2>2. TripSeen(w, t)' = row
      BY <1>5, <1>6 DEF TripSeen
    <2>. QED BY <1>2, <1>3, <1>5, <1>10, <2>1, <2>2 DEF WorkerOK, Chain, Later
  <1>13. TripLocks'
    <2>1. \A u \in Event : HoldsTrip(w, u)' => HoldsTrip(w, u) \/ TripFree(w, u)
      BY <1>2, <1>6 DEF HoldsTrip
    <2>. QED BY <1>2, <1>6, <2>1, LocksTaken
  <1>14. SeenApart(w)' /\ KeptApart(w)' /\ RuleLocks'
    BY <1>2, <1>6, CountsSame
  <1>15. Disjoint'
    BY <1>2 DEF IInv, Disjoint, Claimed
  <1>. QED BY <1>2, <1>6, <1>7, <1>8, <1>9, <1>11, <1>12, <1>13, <1>14, <1>15, LocalStep
         DEF WorkerOK, committed

(* A hit is counted on an event within the window, or on a new one that no  *)
(* other is near.                                                          *)
LEMMA PersistRuleKeeps ==
  ASSUME IInv, NEW w \in Worker, PersistRule(w)
  PROVE  IInv'
  <1>0. /\ job[w].step = "rules" /\ TypeOK /\ WorkerOK(w) /\ job[w].event \in Event
    BY JobEvent DEF PersistRule, IInv
  <1>1. PICK e \in Event : e = job[w].event
    BY <1>0
  <1>2. PICK r \in Rule, d \in Event :
          /\ IsNextRule(w, r)
          /\ RuleFree(w, Vehicle[e], r)
          /\ IF SameEvent(w, e, r) = {} THEN d = e ELSE d \in SameEvent(w, e, r)
          /\ save' = [save EXCEPT ![w].count[<<d, r>>] = CountSeen(w, <<d, r>>) + 1]
          /\ job' = [job EXCEPT ![w].rules = @ \ {r}]
    BY <1>1 DEF PersistRule
  <1>3. UNCHANGED <<now, outbox, trip, point, count, batch, mine, tick, aborts>>
    BY DEF PersistRule, committed
  <1>4. PICK s \in Event \X Rule, n \in Nat : s = <<d, r>> /\ n = CountSeen(w, s) + 1
    <2>1. <<d, r>> \in Event \X Rule
      OBVIOUS
    <2>. QED BY <1>0, <2>1, SeenType
  <1>5. n # 0
    BY <1>0, <1>4, SeenType
  <1>6. /\ save' \in [Worker -> Changes]
        /\ \A u \in Worker \ {w} : save'[u] = save[u]
        /\ save'[w].trip = save[w].trip /\ save'[w].count[s] = n
        /\ \A q \in (Event \X Rule) \ {s} : save'[w].count[q] = save[w].count[q]
    <2>1. save \in [Worker -> Changes] /\ save' = [save EXCEPT ![w].count[s] = n]
      BY <1>0, <1>2, <1>4 DEF TypeOK
    <2>. QED BY <2>1 DEF Changes
  <1>7. /\ job' \in [Worker -> Jobs]
        /\ \A u \in Worker \ {w} : job'[u] = job[u]
        /\ job'[w].event = e /\ job'[w].step = "rules" /\ job'[w].trip = job[w].trip
    <2>1. job \in [Worker -> Jobs] /\ job[w] \in Jobs
      BY <1>0 DEF TypeOK
    <2>2. PICK left \in SUBSET Rule : left = job[w].rules \ {r}
      BY <2>1 DEF Jobs
    <2>3. job' = [job EXCEPT ![w].rules = left]
      BY <1>2, <2>2
    <2>4. PICK j \in Jobs : /\ j = [job[w] EXCEPT !.rules = left]
                            /\ j.event = e /\ j.step = "rules" /\ j.trip = job[w].trip
      <3>1. PICK i \in Jobs : i = job[w] /\ i.event = e /\ i.step = "rules"
        BY <1>0, <1>1, <2>1
      <3>2. /\ [i EXCEPT !.rules = left] \in Jobs
            /\ [i EXCEPT !.rules = left].event = i.event
            /\ [i EXCEPT !.rules = left].step = i.step
            /\ [i EXCEPT !.rules = left].trip = i.trip
        BY JobRulesLeft
      <3>. QED BY <3>1, <3>2
    <2>5. job' = [job EXCEPT ![w] = j]
      BY <2>1, <2>3, <2>4
    <2>. QED BY <2>1, <2>4, <2>5
  <1>8. TypeOK'
    BY <1>0, <1>3, <1>6, <1>7 DEF TypeOK
  <1>9. JobOK(w)'
    BY <1>0, <1>1, <1>3, <1>7, JobEvent, PipelineAssumption DEF WorkerOK, JobOK
  <1>10. RowsOK(w)' /\ Chain(w)'
    BY <1>0, <1>1, <1>3, <1>6, <1>7 DEF WorkerOK, RowsOK, Chain, TripKept, TripSeen, Later
  <1>11. TripLocks'
    <2>1. \A u \in Event : HoldsTrip(w, u)' => HoldsTrip(w, u)
      BY <1>3, <1>6 DEF HoldsTrip
    <2>. QED BY <1>3, <1>6, <2>1, LocksTaken
  <1>12. Vehicle[d] = Vehicle[e]
    BY <1>2 DEF SameEvent
  <1>13. RuleLocks'
    <2>1. ASSUME NEW x \in Event, NEW q \in Rule, HoldsRule(w, Vehicle[x], q)'
          PROVE  HoldsRule(w, Vehicle[x], q) \/ RuleFree(w, Vehicle[x], q)
      <3>1. PICK y \in Event : /\ Vehicle[y] = Vehicle[x]
                               /\ save'[w].count[<<y, q>>] # 0 \/ mine'[w].count[<<y, q>>] # 0
        BY <2>1 DEF HoldsRule
      <3>2. CASE <<y, q>> = s
        BY <1>2, <1>4, <1>12, <3>1, <3>2
      <3>3. CASE <<y, q>> # s
        BY <1>3, <1>6, <3>1, <3>3 DEF HoldsRule
      <3>. QED BY <3>2, <3>3
    <2>. QED BY <1>3, <1>6, <2>1, LocksTaken
  <1>14. KeptApart(w)'
    BY <1>0, <1>3 DEF WorkerOK, KeptApart, CountKept, Distance
  <1>15. SeenApart(w)'
    <2>1. \A q \in (Event \X Rule) \ {s} : CountSeen(w, q)' = CountSeen(w, q)
      BY <1>3, <1>6 DEF CountSeen
    <2>2. ASSUME NEW x \in Event \ {d}, Vehicle[x] = Vehicle[d], CountSeen(w, <<x, r>>) # 0
          PROVE  Distance(d, x) > Window /\ Distance(x, d) > Window
      <3>1. Distance(d, x) \in Nat /\ Distance(x, d) = Distance(d, x)
        BY PipelineAssumption DEF Distance
      <3>2. CASE SameEvent(w, e, r) = {}
        <4>1. x \notin SameEvent(w, e, r) /\ d = e
          BY <1>2, <3>2
        <4>. QED BY <1>12, <2>2, <3>1, <4>1, PipelineAssumption DEF SameEvent
      <3>3. CASE SameEvent(w, e, r) # {}
        <4>1. CountSeen(w, <<d, r>>) # 0
          BY <1>2, <3>3 DEF SameEvent
        <4>. QED BY <1>0, <2>2, <3>1, <4>1 DEF WorkerOK, SeenApart
      <3>. QED BY <3>2, <3>3
    <2>3. SUFFICES ASSUME NEW q \in Rule, NEW x \in Event, NEW y \in Event, x # y,
                          Vehicle[x] = Vehicle[y],
                          CountSeen(w, <<x, q>>)' # 0, CountSeen(w, <<y, q>>)' # 0
                   PROVE  Distance(x, y) > Window
      BY DEF SeenApart, Distance
    <2>4. CASE <<x, q>> = s
      <3>1. x = d /\ q = r /\ <<y, q>> # s
        BY <1>4, <2>3, <2>4
      <3>. QED BY <2>1, <2>2, <2>3, <3>1
    <2>5. CASE <<y, q>> = s
      <3>1. y = d /\ q = r /\ <<x, q>> # s
        BY <1>4, <2>3, <2>5
      <3>. QED BY <2>1, <2>2, <2>3, <3>1
    <2>6. CASE <<x, q>> # s /\ <<y, q>> # s
      BY <1>0, <2>1, <2>3, <2>6 DEF WorkerOK, SeenApart
    <2>. QED BY <2>4, <2>5, <2>6
  <1>16. Disjoint'
    BY <1>3 DEF IInv, Disjoint, Claimed
  <1>. QED BY <1>3, <1>6, <1>7, <1>8, <1>9, <1>10, <1>11, <1>13, <1>14, <1>15, <1>16, LocalStep
         DEF WorkerOK, committed

-----------------------------------------------------------------------------
(* The end of a savepoint.                                                 *)
LEMMA NothingSaved ==
  ASSUME NEW w \in Worker, save'[w] = NoChange
  PROVE  /\ \A t \in Event : TripSeen(w, t)' = TripKept(w, t)'
         /\ \A s \in Event \X Rule : CountSeen(w, s)' = CountKept(w, s)'
         /\ \A t \in Event : HoldsTrip(w, t)' <=> mine'[w].trip[t] # NoRow
         /\ \A e \in Event, r \in Rule :
              HoldsRule(w, Vehicle[e], r)' <=>
                \E d \in Event : Vehicle[d] = Vehicle[e] /\ mine'[w].count[<<d, r>>] # 0
  BY NoChangeType DEF TripSeen, TripKept, CountSeen, CountKept, HoldsTrip, HoldsRule

LEMMA RollBackKeeps ==
  ASSUME IInv, NEW w \in Worker, job[w].event # None \/ job[w].step # "idle", RollBack(w)
  PROVE  IInv'
  <1>1. /\ TypeOK /\ WorkerOK(w) /\ job[w].event \in batch[w].todo
        /\ UNCHANGED <<now, outbox, trip, point, count, mine, tick, aborts>>
    BY JobEvent DEF RollBack, committed, IInv
  <1>2. /\ save' \in [Worker -> Changes] /\ save'[w] = NoChange
        /\ \A u \in Worker \ {w} : save'[u] = save[u]
    BY <1>1, NoChangeType DEF RollBack, TypeOK
  <1>3. /\ job' \in [Worker -> Jobs] /\ job'[w] = NoJob
        /\ \A u \in Worker \ {w} : job'[u] = job[u]
    <2>1. NoJob \in Jobs
      BY NoChangeType DEF NoJob, Jobs
    <2>. QED BY <1>1, <2>1 DEF RollBack, TypeOK
  <1>4. /\ batch' \in [Worker -> Batches]
        /\ batch'[w].done = batch[w].done /\ batch'[w].todo \subseteq batch[w].todo
        /\ Claimed(w)' = Claimed(w)
        /\ \A u \in Worker \ {w} : batch'[u] = batch[u]
    <2> DEFINE e == job[w].event
    <2>1. batch \in [Worker -> Batches] /\ batch[w] \in Batches /\ e \in batch[w].todo
      BY <1>1 DEF TypeOK
    <2>2. PICK b : b = [batch[w] EXCEPT !.todo = @ \ {e}, !.failed = @ \cup {e}]
      OBVIOUS
    <2>3. b \in Batches /\ b.todo = batch[w].todo \ {e} /\ b.done = batch[w].done
          /\ b.failed = batch[w].failed \cup {e}
      BY <2>1, <2>2, EventFailed
    <2>4. batch' = [batch EXCEPT ![w] = b]
      BY <2>2 DEF RollBack
    <2>. HIDE DEF e
    <2>5. batch' \in [Worker -> Batches] /\ batch'[w] = b
          /\ \A u \in Worker \ {w} : batch'[u] = batch[u]
      BY <2>1, <2>3, <2>4
    <2>. QED BY <2>1, <2>3, <2>5 DEF Claimed
  <1>5. TypeOK'
    BY <1>1, <1>2, <1>3, <1>4 DEF TypeOK
  <1>6. Disjoint'
    BY <1>4 DEF IInv, Disjoint, Claimed
  <1>7. JobOK(w)'
    BY <1>2, <1>3 DEF JobOK, NoJob
  <1>8. \A t \in Event : TripKept(w, t)' = TripKept(w, t)
    BY <1>1 DEF TripKept
  <1>9. RowsOK(w)' /\ Chain(w)'
    BY <1>1, <1>2, <1>4, <1>8, NothingSaved, NoChangeType DEF WorkerOK, RowsOK, Chain, Later
  <1>10. KeptApart(w)' /\ SeenApart(w)'
    <2>1. \A s \in Event \X Rule : CountKept(w, s)' = CountKept(w, s)
      BY <1>1 DEF CountKept
    <2>. QED BY <1>1, <1>2, <2>1, NothingSaved DEF WorkerOK, KeptApart, SeenApart, Distance
  <1>11. TripLocks' /\ RuleLocks'
    <2>1. /\ \A t \in Event : HoldsTrip(w, t)' => HoldsTrip(w, t)
          /\ \A e \in Event, r \in Rule : HoldsRule(w, Vehicle[e], r)' => HoldsRule(w, Vehicle[e], r)
      BY <1>1, <1>2, NothingSaved DEF HoldsTrip, HoldsRule
    <2>. QED BY <1>1, <1>2, <2>1, LocksTaken
  <1>. QED BY <1>1, <1>2, <1>3, <1>4, <1>5, <1>6, <1>7, <1>9, <1>10, <1>11, LocalStep
         DEF WorkerOK, committed

LEMMA ReleaseKeeps ==
  ASSUME IInv, NEW w \in Worker, Release(w)
  PROVE  IInv'
  <1>0. job[w].step = "rules" /\ job[w].event \in Event
    BY JobEvent DEF Release
  <1>1. /\ TypeOK /\ WorkerOK(w) /\ job[w].event \in batch[w].todo /\ job[w].trip \in Event
        /\ UNCHANGED <<now, outbox, trip, point, count, tick, aborts>>
    BY <1>0, JobEvent DEF Release, committed, IInv, WorkerOK, JobOK
  <1>2. PICK e \in Event : e = job[w].event /\ e \in batch[w].todo
    BY <1>0, <1>1
  <1>3. /\ save' \in [Worker -> Changes] /\ save'[w] = NoChange
        /\ \A u \in Worker \ {w} : save'[u] = save[u]
    BY <1>1, NoChangeType DEF Release, TypeOK
  <1>4. /\ job' \in [Worker -> Jobs] /\ job'[w] = NoJob
        /\ \A u \in Worker \ {w} : job'[u] = job[u]
    <2>1. NoJob \in Jobs
      BY NoChangeType DEF NoJob, Jobs
    <2>. QED BY <1>1, <2>1 DEF Release, TypeOK
  <1>5. /\ batch' \in [Worker -> Batches]
        /\ batch'[w].done = batch[w].done \cup {e}
        /\ batch'[w].todo = batch[w].todo \ {e}
        /\ Claimed(w)' = Claimed(w)
        /\ \A u \in Worker \ {w} : batch'[u] = batch[u]
    <2>1. batch \in [Worker -> Batches] /\ batch[w] \in Batches
      BY <1>1 DEF TypeOK
    <2>2. PICK b : b = [batch[w] EXCEPT !.todo = @ \ {e}, !.done = @ \cup {e}]
      OBVIOUS
    <2>3. b \in Batches /\ b.todo = batch[w].todo \ {e} /\ b.done = batch[w].done \cup {e}
          /\ b.failed = batch[w].failed
      BY <1>2, <2>1, <2>2, EventDone
    <2>4. batch' = [batch EXCEPT ![w] = b]
      BY <1>2, <2>2 DEF Release
    <2>5. batch' \in [Worker -> Batches] /\ batch'[w] = b
          /\ \A u \in Worker \ {w} : batch'[u] = batch[u]
      BY <2>1, <2>3, <2>4
    <2>. QED BY <1>2, <2>3, <2>5 DEF Claimed
  <1>6. /\ mine' \in [Worker -> Changes] /\ mine'[w] = Released(w)
        /\ \A u \in Worker \ {w} : mine'[u] = mine[u]
    BY <1>0, <1>1, ReleasedType DEF Release, TypeOK
  <1>7. /\ \A t \in Event : mine'[w].trip[t] =
             IF save[w].trip[t] # NoRow THEN save[w].trip[t] ELSE mine[w].trip[t]
        /\ \A s \in Event \X Rule : mine'[w].count[s] =
             IF save[w].count[s] # 0 THEN save[w].count[s] ELSE mine[w].count[s]
        /\ mine'[w].point[e] = job[w].trip
        /\ \A d \in Event \ {e} : mine'[w].point[d] = mine[w].point[d]
    <2>1. mine[w].point \in [Event -> Event \cup {None}]
      BY <1>1 DEF TypeOK, Changes
    <2>. QED BY <1>2, <1>6, <2>1 DEF Released
  <1>8. /\ \A t \in Event : TripKept(w, t)' = TripSeen(w, t)
        /\ \A s \in Event \X Rule : CountKept(w, s)' = CountSeen(w, s)
    BY <1>1, <1>7 DEF TripKept, TripSeen, CountKept, CountSeen
  <1>9. TypeOK'
    BY <1>1, <1>3, <1>4, <1>5, <1>6 DEF TypeOK
  <1>10. Disjoint'
    BY <1>5 DEF IInv, Disjoint, Claimed
  <1>11. JobOK(w)'
    BY <1>3, <1>4 DEF JobOK, NoJob
  <1>12. RowsOK(w)'
    <2>1. \A d \in Event : mine'[w].point[d] # None <=> d \in batch'[w].done
      BY <1>1, <1>5, <1>7, PipelineAssumption DEF WorkerOK, RowsOK
    <2>2. ASSUME NEW t \in Event, mine'[w].trip[t] # NoRow, trip[t] = NoRow
          PROVE  t \in batch'[w].done
      BY <1>1, <1>2, <1>5, <1>7, <2>2 DEF WorkerOK, RowsOK, TripKept
    <2>. QED BY <1>1, <1>3, <2>1, <2>2, NoChangeType DEF RowsOK
  <1>13. Chain(w)'
    BY <1>1, <1>3, <1>8, NothingSaved DEF WorkerOK, Chain, Later
  <1>14. KeptApart(w)' /\ SeenApart(w)'
    BY <1>1, <1>3, <1>8, NothingSaved DEF WorkerOK, KeptApart, SeenApart, Distance
  <1>15. TripLocks' /\ RuleLocks'
    <2>1. \A t \in Event : HoldsTrip(w, t)' => HoldsTrip(w, t)
      BY <1>3, <1>7, NothingSaved DEF HoldsTrip
    <2>2. \A d \in Event, r \in Rule : HoldsRule(w, Vehicle[d], r)' => HoldsRule(w, Vehicle[d], r)
      <3>. SUFFICES ASSUME NEW d \in Event, NEW r \in Rule, HoldsRule(w, Vehicle[d], r)'
                    PROVE  HoldsRule(w, Vehicle[d], r)
        OBVIOUS
      <3>1. PICK x \in Event : Vehicle[x] = Vehicle[d] /\ mine'[w].count[<<x, r>>] # 0
        BY <1>3, NothingSaved
      <3>2. PICK s \in Event \X Rule : s = <<x, r>>
        OBVIOUS
      <3>3. save[w].count[s] # 0 \/ mine[w].count[s] # 0
        BY <1>7, <3>1, <3>2
      <3>. QED BY <3>1, <3>2, <3>3 DEF HoldsRule
    <2>. QED BY <1>1, <1>3, <1>6, <2>1, <2>2, LocksTaken
  <1>. QED BY <1>1, <1>3, <1>4, <1>5, <1>6, <1>9, <1>10, <1>11, <1>12, <1>13, <1>14, <1>15, LocalStep
         DEF WorkerOK, committed

-----------------------------------------------------------------------------
(* The beginning and the end of a batch.                                   *)
LEMMA BetweenEvents ==
  ASSUME IInv, NEW w \in Worker, batch[w].todo = {}
  PROVE  job[w] = NoJob /\ save[w] = NoChange
  BY DEF IInv, WorkerOK, JobOK

LEMMA ClaimKeeps ==
  ASSUME IInv, NEW w \in Worker, Claim(w)
  PROVE  IInv'
  <1>1. /\ TypeOK /\ WorkerOK(w) /\ batch[w].todo = {} /\ batch[w].done = {}
        /\ UNCHANGED <<now, outbox, trip, point, count, job, mine, save, tick, aborts>>
    BY DEF Claim, Claimed, committed, IInv
  <1>2. PICK new \in SUBSET Event :
          /\ batch' = [batch EXCEPT ![w] = [NoBatch EXCEPT !.todo = new]]
          /\ \A u \in Worker : new \cap Claimed(u) = {}
    <2>1. PICK free \in SUBSET Event, waiting \in SUBSET Event :
            /\ \A e \in free, u \in Worker : e \notin Claimed(u)
            /\ batch' = [batch EXCEPT ![w] = [NoBatch EXCEPT !.todo = First(free \ waiting)]]
      BY DEF Claim
    <2>2. First(free \ waiting) \in SUBSET free
      BY DEF First
    <2>. QED BY <2>1, <2>2
  <1>3. /\ batch' \in [Worker -> Batches]
        /\ batch'[w].todo = new /\ batch'[w].done = {} /\ batch'[w].failed = {}
        /\ \A u \in Worker \ {w} : batch'[u] = batch[u]
    BY <1>1, <1>2 DEF TypeOK, Batches, NoBatch
  <1>4. TypeOK'
    BY <1>1, <1>3 DEF TypeOK
  <1>5. Disjoint'
    <2>1. Claimed(w)' = new /\ \A u \in Worker \ {w} : Claimed(u)' = Claimed(u)
      BY <1>3 DEF Claimed
    <2>. QED BY <1>2, <1>3, <2>1 DEF IInv, Disjoint
  <1>6. JobOK(w)'
    <2>1. job'[w] = NoJob /\ save'[w] = NoChange
      BY <1>1, BetweenEvents
    <2>. QED BY <2>1 DEF JobOK, NoJob
  <1>7. RowsOK(w)'
    BY <1>1, <1>3 DEF WorkerOK, RowsOK, TripKept
  <1>8. Chain(w)'
    BY <1>1 DEF WorkerOK, Chain, TripKept, TripSeen, Later
  <1>9. TripLocks'
    BY <1>1 DEF IInv, TripLocks, HoldsTrip
  <1>10. SeenApart(w)' /\ KeptApart(w)' /\ RuleLocks'
    BY <1>1, CountsSame
  <1>. QED BY <1>1, <1>3, <1>4, <1>5, <1>6, <1>7, <1>8, <1>9, <1>10, LocalStep DEF WorkerOK, committed

LEMMA AbortKeeps ==
  ASSUME IInv, NEW w \in Worker, Abort(w)
  PROVE  IInv'
  <1>1. /\ TypeOK /\ UNCHANGED <<now, outbox, trip, point, count, tick>>
    BY DEF Abort, committed, IInv
  <1>2. /\ save' \in [Worker -> Changes] /\ save'[w] = NoChange
        /\ mine' \in [Worker -> Changes] /\ mine'[w] = NoChange
        /\ \A u \in Worker \ {w} : save'[u] = save[u] /\ mine'[u] = mine[u]
    BY <1>1, NoChangeType DEF Abort, TypeOK
  <1>3. /\ job' \in [Worker -> Jobs] /\ job'[w] = NoJob
        /\ \A u \in Worker \ {w} : job'[u] = job[u]
    <2>1. NoJob \in Jobs
      BY NoChangeType DEF NoJob, Jobs
    <2>. QED BY <1>1, <2>1 DEF Abort, TypeOK
  <1>4. /\ batch' \in [Worker -> Batches]
        /\ batch'[w] = NoBatch
        /\ \A u \in Worker \ {w} : batch'[u] = batch[u]
    BY <1>1 DEF Abort, TypeOK, Batches, NoBatch
  <1>5. TypeOK'
    BY <1>1, <1>2, <1>3, <1>4 DEF TypeOK, Abort
  <1>6. Disjoint'
    BY <1>4 DEF IInv, Disjoint, Claimed, NoBatch
  <1>7. /\ \A t \in Event : mine'[w].trip[t] = NoRow /\ save'[w].trip[t] = NoRow
        /\ \A t \in Event : TripKept(w, t)' = trip[t]
        /\ \A s \in Event \X Rule : CountKept(w, s)' = count[s]
    BY <1>1, <1>2, NoChangeType DEF TripKept, CountKept
  <1>8. JobOK(w)' /\ RowsOK(w)'
    BY <1>2, <1>3, <1>4, <1>7, NoChangeType DEF JobOK, NoJob, RowsOK, NoBatch
  <1>9. Chain(w)'
    BY <1>1, <1>2, <1>7, NothingSaved DEF Chain, Later
  <1>10. KeptApart(w)' /\ SeenApart(w)'
    BY <1>1, <1>2, <1>7, NothingSaved DEF IInv, EventsApart, KeptApart, SeenApart, Distance
  <1>11. TripLocks' /\ RuleLocks'
    <2>1. /\ \A t \in Event : ~HoldsTrip(w, t)'
          /\ \A e \in Event, r \in Rule : ~HoldsRule(w, Vehicle[e], r)'
      <3>1. /\ \A t \in Event : mine'[w].trip[t] = NoRow
            /\ \A d \in Event, r \in Rule : mine'[w].count[<<d, r>>] = 0
        BY <1>2, NoChangeType
      <3>. QED BY <1>2, <3>1, NothingSaved
    <2>. QED BY <1>1, <1>2, <2>1, LocksTaken
  <1>. QED BY <1>1, <1>2, <1>3, <1>4, <1>5, <1>6, <1>8, <1>9, <1>10, <1>11, LocalStep
         DEF WorkerOK, committed

(* What a commit of w does to the tables: the rows w has changed become    *)
(* what w saw, the others stay.                                            *)
LEMMA Committed ==
  ASSUME IInv, NEW w \in Worker, Commit(w)
  PROVE  /\ batch[w].todo = {} /\ UNCHANGED <<now, job, save, tick, aborts>>
         /\ \A t \in Event : trip'[t] = TripKept(w, t)
         /\ \A s \in Event \X Rule : count'[s] = CountKept(w, s)
         /\ \A e \in Event : point'[e] = IF e \in batch[w].done THEN mine[w].point[e] ELSE point[e]
         /\ \A u \in Worker \ {w} : batch'[u] = batch[u] /\ mine'[u] = mine[u]
         /\ batch'[w] = NoBatch /\ mine'[w] = NoChange
  <1>1. TypeOK /\ RowsOK(w)
    BY DEF IInv, WorkerOK
  <1>. QED BY <1>1 DEF Commit, TripKept, CountKept, RowsOK, TypeOK

LEMMA CommitType ==
  ASSUME IInv, NEW w \in Worker, Commit(w)
  PROVE  TypeOK'
  <1>1. TypeOK
    BY DEF IInv
  <1>2. mine' \in [Worker -> Changes] /\ batch' \in [Worker -> Batches]
    BY <1>1, NoChangeType DEF Commit, TypeOK, NoBatch, Batches
  <1>3. mine[w] \in Changes
    BY <1>1 DEF TypeOK
  <1>4. trip' \in [Event -> TripRow] /\ point' \in [Event -> Event \cup {None}]
    BY <1>1, <1>3 DEF Commit, TypeOK, Changes
  <1>5. count' \in [Event \X Rule -> Nat]
    BY <1>1, <1>3 DEF Commit, TypeOK, Changes
  <1>6. outbox' \in [Event -> [status : {"none", "pending", "done", "dead_letter"},
                               attempts : Nat, order : Nat]]
    <2>1. ASSUME NEW row \in [status : {"none", "pending", "done", "dead_letter"},
                              attempts : Nat, order : Nat]
          PROVE  /\ Retried(row) \in [status : {"none", "pending", "done", "dead_letter"},
                                      attempts : Nat, order : Nat]
                 /\ [row EXCEPT !.status = "done"] \in
                       [status : {"none", "pending", "done", "dead_letter"},
                        attempts : Nat, order : Nat]
      <3>1. row.attempts + 1 \in Nat
        OBVIOUS
      <3>2. PICK n \in Nat : n = row.attempts + 1
        BY <3>1
      <3>3. PICK st \in {"dead_letter", "pending"} :
              Retried(row) = [row EXCEPT !.attempts = n, !.status = st]
        BY <3>2 DEF Retried
      <3>. QED BY <3>3
    <2>. QED BY <1>1, <2>1 DEF Commit, TypeOK
  <1>. QED BY <1>1, <1>2, <1>4, <1>5, <1>6 DEF TypeOK, Commit

(* The worker that commits sees the tables now, and has its locks no more. *)
LEMMA CommitOwn ==
  ASSUME IInv, NEW w \in Worker, Commit(w)
  PROVE  /\ Disjoint' /\ TripLocks' /\ RuleLocks' /\ EventsApart' /\ TablesOK' /\ WorkerOK(w)'
  <1>1. /\ batch[w].todo = {} /\ UNCHANGED <<now, job, save, tick, aborts>>
        /\ \A t \in Event : trip'[t] = TripKept(w, t)
        /\ \A s \in Event \X Rule : count'[s] = CountKept(w, s)
        /\ \A e \in Event : point'[e] = IF e \in batch[w].done THEN mine[w].point[e] ELSE point[e]
        /\ \A u \in Worker \ {w} : batch'[u] = batch[u] /\ mine'[u] = mine[u]
        /\ batch'[w] = NoBatch /\ mine'[w] = NoChange
    BY Committed
  <1>2. job'[w] = NoJob /\ save'[w] = NoChange /\ WorkerOK(w)
    BY <1>1, BetweenEvents DEF IInv
  <1>3. Disjoint'
    BY <1>1 DEF IInv, Disjoint, Claimed, NoBatch
  <1>4. /\ \A t \in Event : mine'[w].trip[t] = NoRow
        /\ \A d \in Event, r \in Rule : mine'[w].count[<<d, r>>] = 0
        /\ \A e \in Event : mine'[w].point[e] = None
    BY <1>1, NoChangeType
  <1>5. TripLocks' /\ RuleLocks'
    <2>1. /\ \A t \in Event : ~HoldsTrip(w, t)'
          /\ \A e \in Event, r \in Rule : ~HoldsRule(w, Vehicle[e], r)'
      <3>1. save'[w] = NoChange
        BY <1>2
      <3>2. \A t \in Event : ~HoldsTrip(w, t)'
        BY <1>4, <3>1, NothingSaved
      <3>3. \A d \in Event, r \in Rule : save'[w].count[<<d, r>>] = 0 /\ mine'[w].count[<<d, r>>] = 0
        BY <1>4, <3>1, NoChangeType
      <3>. QED BY <3>2, <3>3 DEF HoldsRule
    <2>. QED BY <1>1, <2>1, LocksTaken
  <1>6. EventsApart'
    BY <1>1, <1>2 DEF WorkerOK, KeptApart, EventsApart, Distance
  <1>7. TablesOK'
    <2>1. ASSUME NEW t \in Event, trip'[t] # NoRow PROVE point'[t] # None
      BY <1>1, <1>2, <2>1 DEF WorkerOK, RowsOK, TripKept, IInv, TablesOK
    <2>2. ASSUME NEW t \in tick PROVE trip'[t].status = "active"
      <3>1. t \in Event /\ ~HoldsTrip(w, t)
        BY DEF IInv, TypeOK, TripLocks
      <3>. QED BY <1>1, <3>1 DEF HoldsTrip, TripKept, IInv, TablesOK
    <2>. QED BY <1>1, <2>1, <2>2 DEF TablesOK
  <1>8. JobOK(w)' /\ RowsOK(w)'
    BY <1>1, <1>2, <1>4, NoChangeType DEF JobOK, NoJob, RowsOK, NoBatch
  <1>9. \A t \in Event : TripKept(w, t)' = trip'[t] /\ TripSeen(w, t)' = trip'[t]
    BY <1>2, <1>4, NothingSaved DEF TripKept
  <1>10. Chain(w)'
    BY <1>9 DEF Chain, Later
  <1>11. \A d \in Event, r \in Rule :
           CountKept(w, <<d, r>>)' = count'[<<d, r>>] /\ CountSeen(w, <<d, r>>)' = count'[<<d, r>>]
    BY <1>2, <1>4, NothingSaved DEF CountKept
  <1>12. KeptApart(w)' /\ SeenApart(w)'
    BY <1>6, <1>11 DEF EventsApart, KeptApart, SeenApart, Distance
  <1>. QED BY <1>3, <1>5, <1>6, <1>7, <1>8, <1>10, <1>12 DEF WorkerOK

(* The others: a row or lock they hold is none that w has changed; of the   *)
(* rest they see the tables, before and after.                             *)
LEMMA CommitOthers ==
  ASSUME IInv, NEW w \in Worker, Commit(w), NEW u \in Worker \ {w}
  PROVE  WorkerOK(u)'
  <1>1. /\ batch[w].todo = {} /\ UNCHANGED <<now, job, save, tick, aborts>>
        /\ \A t \in Event : trip'[t] = TripKept(w, t)
        /\ \A s \in Event \X Rule : count'[s] = CountKept(w, s)
        /\ \A e \in Event : point'[e] = IF e \in batch[w].done THEN mine[w].point[e] ELSE point[e]
        /\ batch'[u] = batch[u] /\ mine'[u] = mine[u]
    BY Committed
  <1>2. TypeOK /\ WorkerOK(u) /\ WorkerOK(w)
    BY DEF IInv
  <1>3. ASSUME NEW t \in Event, HoldsTrip(u, t) PROVE trip'[t] = trip[t]
    <2>1. ~HoldsTrip(w, t)
      BY <1>3 DEF IInv, TripLocks
    <2>. QED BY <1>1, <2>1 DEF HoldsTrip, TripKept
  <1>4. \A t \in Event : trip[t] # NoRow => trip'[t] # NoRow
    BY <1>1 DEF TripKept
  <1>5. JobOK(u)'
    <2>1. ASSUME job[u].event # None PROVE point'[job[u].event] = None
      <3>1. job[u].event \in Event /\ job[u].event \in batch[u].todo /\ point[job[u].event] = None
        BY <2>1, JobEvent
      <3>2. job[u].event \notin batch[w].done
        BY <3>1 DEF IInv, Disjoint, Claimed
      <3>. QED BY <1>1, <3>1, <3>2
    <2>2. ASSUME NEW t \in Event, TripSeen(u, t) # NoRow PROVE TripSeen(u, t)' # NoRow
      BY <1>1, <1>4, <2>2 DEF TripSeen
    <2>. QED BY <1>1, <1>2, <2>1, <2>2 DEF WorkerOK, JobOK
  <1>6. RowsOK(u)'
    BY <1>1, <1>2, <1>4 DEF WorkerOK, RowsOK, TripKept
  <1>7. Chain(u)'
    <2>. SUFFICES ASSUME NEW t \in Event
                  PROVE  Later(trip[t], TripKept(u, t))' /\ Later(TripKept(u, t), TripSeen(u, t))'
      BY DEF Chain
    <2>1. CASE HoldsTrip(u, t)
      <3>1. /\ trip'[t] = trip[t]
            /\ TripKept(u, t)' = TripKept(u, t) /\ TripSeen(u, t)' = TripSeen(u, t)
        BY <1>1, <1>3, <2>1 DEF TripKept, TripSeen
      <3>. QED BY <1>2, <3>1 DEF WorkerOK, Chain, Later
    <2>2. CASE ~HoldsTrip(u, t)
      <3>1. TripKept(u, t)' = trip'[t] /\ TripSeen(u, t)' = trip'[t]
        BY <1>1, <2>2 DEF HoldsTrip, TripKept, TripSeen
      <3>. QED BY <3>1 DEF Later
    <2>. QED BY <2>1, <2>2
  <1>8. ASSUME NEW e \in Event, NEW r \in Rule
        PROVE  \/ \A d \in Event : Vehicle[d] = Vehicle[e] =>
                    /\ CountKept(u, <<d, r>>)' = CountKept(u, <<d, r>>)
                    /\ CountSeen(u, <<d, r>>)' = CountSeen(u, <<d, r>>)
               \/ \A d \in Event : Vehicle[d] = Vehicle[e] =>
                    /\ CountKept(u, <<d, r>>)' = CountKept(w, <<d, r>>)
                    /\ CountSeen(u, <<d, r>>)' = CountKept(w, <<d, r>>)
    <2>1. CASE HoldsRule(u, Vehicle[e], r)
      <3>1. ~HoldsRule(w, Vehicle[e], r)
        BY <2>1 DEF IInv, RuleLocks
      <3>2. ASSUME NEW d \in Event, Vehicle[d] = Vehicle[e] PROVE count'[<<d, r>>] = count[<<d, r>>]
        BY <1>1, <3>1, <3>2 DEF HoldsRule, CountKept
      <3>. QED BY <1>1, <3>2 DEF CountKept, CountSeen
    <2>2. CASE ~HoldsRule(u, Vehicle[e], r)
      <3>1. ASSUME NEW d \in Event, Vehicle[d] = Vehicle[e]
            PROVE  save[u].count[<<d, r>>] = 0 /\ mine[u].count[<<d, r>>] = 0
        BY <2>2, <3>1 DEF HoldsRule
      <3>. QED BY <1>1, <3>1 DEF CountKept, CountSeen
    <2>. QED BY <2>1, <2>2
  <1>9. KeptApart(u)' /\ SeenApart(u)'
    <2>. SUFFICES ASSUME NEW r \in Rule, NEW d \in Event, NEW e \in Event,
                         d # e, Vehicle[d] = Vehicle[e]
                  PROVE  /\ CountKept(u, <<d, r>>)' # 0 /\ CountKept(u, <<e, r>>)' # 0
                              => Distance(d, e) > Window
                         /\ CountSeen(u, <<d, r>>)' # 0 /\ CountSeen(u, <<e, r>>)' # 0
                              => Distance(d, e) > Window
      BY DEF KeptApart, SeenApart, Distance
    <2>1. /\ CountKept(u, <<d, r>>) # 0 /\ CountKept(u, <<e, r>>) # 0 => Distance(d, e) > Window
          /\ CountSeen(u, <<d, r>>) # 0 /\ CountSeen(u, <<e, r>>) # 0 => Distance(d, e) > Window
          /\ CountKept(w, <<d, r>>) # 0 /\ CountKept(w, <<e, r>>) # 0 => Distance(d, e) > Window
      BY <1>2 DEF WorkerOK, KeptApart, SeenApart
    <2>. QED BY <1>8, <2>1
  <1>. QED BY <1>5, <1>6, <1>7, <1>9 DEF WorkerOK

LEMMA CommitKeeps ==
  ASSUME IInv, NEW w \in Worker, Commit(w)
  PROVE  IInv'
  BY CommitType, CommitOwn, CommitOthers DEF IInv

-----------------------------------------------------------------------------
(* Steps of nobody's transaction.                                          *)
LEMMA OutsideStep ==
  ASSUME IInv, TypeOK', UNCHANGED <<trip, point, count, batch, job, mine, save>>,
         \A t \in tick' : trip[t].status = "active" /\ \A w \in Worker : ~HoldsTrip(w, t)
  PROVE  IInv'
  <1>1. Disjoint' /\ TablesOK' /\ EventsApart'
    BY DEF IInv, Disjoint, Claimed, TablesOK, EventsApart, Distance
  <1>2. TripLocks' /\ RuleLocks'
    BY DEF IInv, TripLocks, RuleLocks, HoldsTrip, HoldsRule
  <1>3. ASSUME NEW w \in Worker PROVE WorkerOK(w)'
    <2>1. WorkerOK(w)
      BY DEF IInv
    <2>2. JobOK(w)' /\ RowsOK(w)'
      BY <2>1 DEF WorkerOK, JobOK, RowsOK, TripSeen, TripKept
    <2>3. Chain(w)'
      BY <2>1 DEF WorkerOK, Chain, TripKept, TripSeen, Later
    <2>4. SeenApart(w)' /\ KeptApart(w)'
      BY <2>1 DEF WorkerOK, SeenApart, KeptApart, CountSeen, CountKept, Distance
    <2>. QED BY <2>2, <2>3, <2>4 DEF WorkerOK
  <1>. QED BY <1>1, <1>2, <1>3 DEF IInv

(* What a tick has marked when it commits: active until then, and locked.  *)
LEMMA CommitTickKeeps ==
  ASSUME IInv, CommitTick
  PROVE  IInv'
  <1>1. /\ TypeOK /\ tick' = {}
        /\ UNCHANGED <<now, outbox, point, count, batch, job, mine, save, aborts>>
    BY DEF IInv, CommitTick
  <1>2. trip' = [t \in Event |-> IF t \in tick THEN [trip[t] EXCEPT !.status = "stale"] ELSE trip[t]]
    BY DEF CommitTick
  <1>3. trip' \in [Event -> TripRow]
    <2>1. ASSUME NEW row \in TripRow PROVE [row EXCEPT !.status = "stale"] \in TripRow
      BY DEF TripRow
    <2>. QED BY <1>1, <1>2, <2>1 DEF TypeOK
  <1>4. ASSUME NEW t \in Event \ tick PROVE trip'[t] = trip[t]
    BY <1>2
  <1>5. ASSUME NEW t \in tick
        PROVE  /\ t \in Event /\ trip'[t].status = "stale" /\ trip'[t] # NoRow /\ trip[t] # NoRow
               /\ \A w \in Worker : ~HoldsTrip(w, t)
    <2>1. t \in Event /\ trip[t] \in TripRow /\ trip[t].status = "active"
      BY <1>1 DEF TypeOK, IInv, TablesOK
    <2>2. trip'[t].status = "stale"
      BY <1>2, <2>1 DEF TripRow
    <2>. QED BY <2>1, <2>2 DEF NoRow, IInv, TripLocks
  <1>6. TypeOK'
    BY <1>1, <1>3 DEF TypeOK
  <1>7. Disjoint' /\ EventsApart' /\ TripLocks' /\ RuleLocks'
    BY <1>1 DEF IInv, Disjoint, Claimed, EventsApart, Distance, TripLocks, RuleLocks,
                HoldsTrip, HoldsRule
  <1>8. TablesOK'
    BY <1>1, <1>4, <1>5 DEF IInv, TablesOK
  <1>9. ASSUME NEW w \in Worker PROVE WorkerOK(w)'
    <2>1. WorkerOK(w)
      BY DEF IInv
    <2>2. \A t \in Event : /\ TripSeen(w, t)' # NoRow <=> TripSeen(w, t) # NoRow
                           /\ TripKept(w, t)' # NoRow <=> TripKept(w, t) # NoRow
                           /\ trip'[t] # NoRow <=> trip[t] # NoRow
      BY <1>1, <1>4, <1>5 DEF TripSeen, TripKept
    <2>3. JobOK(w)' /\ RowsOK(w)'
      BY <1>1, <2>1, <2>2 DEF WorkerOK, JobOK, RowsOK
    <2>4. Chain(w)'
      <3>. SUFFICES ASSUME NEW t \in Event
                    PROVE  Later(trip[t], TripKept(w, t))' /\ Later(TripKept(w, t), TripSeen(w, t))'
        BY DEF Chain
      <3>1. CASE t \in tick
        <4>1. TripKept(w, t)' = trip'[t] /\ TripSeen(w, t)' = trip'[t]
          BY <1>1, <1>5, <3>1 DEF HoldsTrip, TripKept, TripSeen
        <4>. QED BY <4>1 DEF Later
      <3>2. CASE t \notin tick
        <4>1. TripKept(w, t)' = TripKept(w, t) /\ TripSeen(w, t)' = TripSeen(w, t) /\ trip'[t] = trip[t]
          BY <1>1, <1>4, <3>2 DEF TripKept, TripSeen
        <4>. QED BY <2>1, <4>1 DEF WorkerOK, Chain, Later
      <3>. QED BY <3>1, <3>2
    <2>5. SeenApart(w)' /\ KeptApart(w)'
      BY <1>1, <2>1 DEF WorkerOK, SeenApart, KeptApart, CountSeen, CountKept, Distance
    <2>. QED BY <2>3, <2>4, <2>5 DEF WorkerOK
  <1>. QED BY <1>6, <1>7, <1>8, <1>9 DEF IInv

-----------------------------------------------------------------------------
LEMMA InitIInv ==
  Init => IInv
  <1> SUFFICES ASSUME Init PROVE IInv
    OBVIOUS
  <1>1. TypeOK
    <2>1. NoJob \in Jobs /\ NoBatch \in Batches
      BY NoChangeType DEF NoJob, Jobs, NoBatch, Batches
    <2>. QED BY <2>1, NoChangeType DEF Init, TypeOK
  <1>2. Disjoint /\ TablesOK
    BY DEF Init, Disjoint, Claimed, NoBatch, TablesOK
  <1>3. /\ \A w \in Worker : mine[w] = NoChange /\ save[w] = NoChange
        /\ \A w \in Worker : batch[w] = NoBatch /\ job[w] = NoJob
        /\ \A t \in Event : trip[t] = NoRow /\ point[t] = None
        /\ \A e \in Event, r \in Rule : count[<<e, r>>] = 0
        /\ tick = {}
    BY DEF Init
  <1>4. TripLocks /\ RuleLocks
    <2>1. ASSUME NEW w \in Worker
          PROVE  /\ \A t \in Event : ~HoldsTrip(w, t)
                 /\ \A e \in Event, r \in Rule : ~HoldsRule(w, Vehicle[e], r)
      <3>1. mine[w] = NoChange /\ save[w] = NoChange
        BY <1>3
      <3>. QED BY <3>1, NoChangeType DEF HoldsTrip, HoldsRule
    <2>. QED BY <1>3, <2>1 DEF TripLocks, RuleLocks
  <1>5. EventsApart
    BY <1>3 DEF EventsApart
  <1>6. ASSUME NEW w \in Worker PROVE WorkerOK(w)
    <2>1. JobOK(w) /\ RowsOK(w)
      <3>1. mine[w] = NoChange /\ save[w] = NoChange /\ job[w] = NoJob /\ batch[w].done = {}
        BY <1>3 DEF NoBatch
      <3>2. JobOK(w)
        BY <3>1 DEF JobOK, NoJob
      <3>. QED BY <3>1, <3>2, NoChangeType DEF RowsOK
    <2>2. \A t \in Event : TripKept(w, t) = NoRow /\ TripSeen(w, t) = NoRow
      BY <1>3, NoChangeType DEF TripKept, TripSeen
    <2>3. Chain(w)
      BY <1>3, <2>2 DEF Chain, Later
    <2>4. \A e \in Event, r \in Rule : CountKept(w, <<e, r>>) = 0 /\ CountSeen(w, <<e, r>>) = 0
      BY <1>3, NoChangeType DEF CountKept, CountSeen
    <2>5. SeenApart(w) /\ KeptApart(w)
      BY <2>4 DEF SeenApart, KeptApart
    <2>. QED BY <2>1, <2>3, <2>5 DEF WorkerOK
  <1>. QED BY <1>1, <1>2, <1>4, <1>5, <1>6 DEF IInv

(* A worker that is in a deadlock is handling an event.                    *)
LEMMA BreakDeadlockKeeps ==
  ASSUME IInv, NEW w \in Worker, BreakDeadlock(w)
  PROVE  IInv'
  <1>1. job[w].step # "idle" /\ RollBack(w)
    BY DEF BreakDeadlock, InDeadlock, WaitsFor
  <1>. QED BY <1>1, RollBackKeeps

LEMMA OutsideKeeps ==
  ASSUME IInv, \/ \E e \in Event : Accept(e) \/ MarkStale(e)
               \/ FailTick \/ Clock \/ UNCHANGED vars
  PROVE  IInv'
  <1>1. TypeOK /\ \A t \in tick : trip[t].status = "active" /\ \A w \in Worker : ~HoldsTrip(w, t)
    BY DEF IInv, TablesOK, TripLocks
  <1>2. CASE \E e \in Event : Accept(e)
    <2>1. PICK e \in Event : Accept(e)
      BY <1>2
    <2>2. Cardinality({d \in Event : outbox[d].status # "none"}) \in Nat
      <3>1. IsFiniteSet({d \in Event : outbox[d].status # "none"})
        BY PipelineAssumption, FS_Subset
      <3>. QED BY <3>1, FS_CardinalityType
    <2>3. TypeOK'
      BY <1>1, <2>1, <2>2 DEF TypeOK, Accept
    <2>. QED BY <1>1, <2>1, <2>3, OutsideStep DEF Accept
  <1>3. CASE \E t \in Event : MarkStale(t)
    <2>1. PICK t \in Event : MarkStale(t)
      BY <1>3
    <2>2. TypeOK'
      BY <1>1, <2>1 DEF TypeOK, MarkStale, committed
    <2>. QED BY <1>1, <2>1, <2>2, OutsideStep DEF MarkStale, IsStale, committed
  <1>4. CASE FailTick
    <2>1. TypeOK'
      BY <1>1, <1>4, PipelineAssumption DEF TypeOK, FailTick, committed
    <2>. QED BY <1>4, <2>1, OutsideStep DEF FailTick, committed
  <1>5. CASE Clock
    <2>1. TypeOK'
      BY <1>1, <1>5 DEF TypeOK, Clock, committed
    <2>. QED BY <1>1, <1>5, <2>1, OutsideStep DEF Clock, committed
  <1>6. CASE UNCHANGED vars
    <2>1. TypeOK'
      BY <1>1, <1>6 DEF TypeOK, vars
    <2>. QED BY <1>1, <1>6, <2>1, OutsideStep DEF vars
  <1>. QED BY <1>2, <1>3, <1>4, <1>5, <1>6

LEMMA NextIInv ==
  IInv /\ [Next]_vars => IInv'
  <1> SUFFICES ASSUME IInv, [Next]_vars PROVE IInv'
    OBVIOUS
  <1>1. CASE \/ \E e \in Event : Accept(e) \/ MarkStale(e)
             \/ FailTick \/ Clock \/ UNCHANGED vars
    BY <1>1, OutsideKeeps
  <1>2. CASE CommitTick
    BY <1>2, CommitTickKeeps
  <1>3. ASSUME NEW w \in Worker, Work(w) \/ Fail(w) \/ Abort(w) PROVE IInv'
    BY <1>3, ClaimKeeps, OpenTripKeeps, ReadTripKeeps, CloseKeeps, UpdateHeadKeeps,
       PersistRuleKeeps, ReleaseKeeps, BreakDeadlockKeeps, CommitKeeps, RollBackKeeps, AbortKeeps
       DEF Work, Fail
  <1>. QED BY <1>1, <1>2, <1>3 DEF Next

THEOREM Invariance == Spec => []IInv
  BY InitIInv, NextIInv, PTL DEF Spec

(* Tables, batches, jobs and the changes of transactions are well formed:   *)
(* a worker only ever handles accepted events and writes rows of tables.   *)
THEOREM TypeCorrect == Spec => []TypeOK
  <1>1. IInv => TypeOK
    BY DEF IInv
  <1>. QED BY <1>1, Invariance, PTL

(* The advisory lock and the look-up under it keep two safety events of a   *)
(* vehicle and rule more than the window apart, for any number of workers. *)
THEOREM EventsStayApart == Spec => []EventsApart
  <1>1. IInv => EventsApart
    BY DEF IInv
  <1>. QED BY <1>1, Invariance, PTL

(* Workers and scheduler write rows they have read in another state, but    *)
(* none takes up a trip that has ended, or marks a completed one stale.    *)
THEOREM ClosedTripsStayClosed == Spec => TripsStayClosed
  <1>1. IInv /\ [Next]_vars =>
          [\A t \in Event :
             /\ trip[t].status \in {"completed", "stale"} => trip'[t].status \in {"completed", "stale"}
             /\ trip[t].status = "completed" => trip'[t].status = "completed"]_vars
    <2>. SUFFICES ASSUME IInv, Next, NEW t \in Event PROVE Later(trip[t], trip'[t])
      BY DEF Later
    <2>1. CASE UNCHANGED trip
      BY <2>1 DEF Later
    <2>2. ASSUME NEW w \in Worker, Commit(w) PROVE Later(trip[t], trip'[t])
      <3>1. trip'[t] = TripKept(w, t)
        BY <2>2, Committed
      <3>. QED BY <3>1 DEF IInv, WorkerOK, Chain
    <2>3. CASE CommitTick
      <3>1. trip'[t] = trip[t] \/ trip[t].status = "active"
        BY <2>3 DEF CommitTick, IInv, TablesOK
      <3>. QED BY <3>1 DEF Later
    <2>. QED BY <2>1, <2>2, <2>3
           DEF Next, Work, Accept, MarkStale, Fail, Abort, FailTick, Clock, Claim, OpenTrip, ReadTrip,
               Close, UpdateHead, PersistRule, Release, BreakDeadlock, RollBack, committed
  <1>. QED BY <1>1, Invariance, PTL DEF Spec, TripsStayClosed

-----------------------------------------------------------------------------
(* An event has a point if and only if its outbox row is done; what is in a *)
(* batch is pending, and done, failed or still to do.                      *)
Settled ==
  /\ \A e \in Event : point[e] # None <=> outbox[e].status = "done"
  /\ \A w \in Worker : \A e \in Claimed(w) : outbox[e].status = "pending"
  /\ \A w \in Worker : batch[w].failed \cap (batch[w].todo \cup batch[w].done) = {}

(* A commit settles the batch in the sense of the outbox's promise.        *)
LEMMA CommitSettles ==
  ASSUME IInv, Settled, NEW w \in Worker, Commit(w)
  PROVE  Settled' /\ Promise!Next
  <1>1. TypeOK /\ RowsOK(w)
    BY DEF IInv, WorkerOK
  <1>2. /\ \A e \in Event : point'[e] = IF e \in batch[w].done THEN mine[w].point[e] ELSE point[e]
        /\ \A u \in Worker \ {w} : batch'[u] = batch[u]
        /\ batch'[w] = NoBatch
    BY Committed
  <1>3. PICK done \in SUBSET Event, failed \in SUBSET Event :
          done = batch[w].done /\ failed = batch[w].failed
    BY <1>1 DEF TypeOK, Batches
  <1>4. /\ \A e \in done \cup failed : outbox[e].status = "pending" /\ point[e] = None
        /\ done \cap failed = {}
        /\ \A e \in done : point'[e] # None
        /\ \A e \in Event \ done : point'[e] = point[e]
    BY <1>1, <1>2, <1>3 DEF Settled, Claimed, RowsOK
  <1>5. /\ \A e \in done : outbox'[e].status = "done"
        /\ \A e \in failed : outbox'[e] = Retried(outbox[e])
        /\ \A e \in Event \ (done \cup failed) : outbox'[e] = outbox[e]
    <2>1. \A e \in Event : outbox'[e] = IF e \in done THEN [outbox[e] EXCEPT !.status = "done"]
                                        ELSE IF e \in failed THEN Retried(outbox[e])
                                        ELSE outbox[e]
      BY <1>3 DEF Commit
    <2>. QED BY <1>1, <1>4, <2>1 DEF TypeOK
  <1>6. \A e \in failed : outbox'[e].status \in {"pending", "dead_letter"}
    <2>1. ASSUME NEW row \in [status : {"none", "pending", "done", "dead_letter"},
                              attempts : Nat, order : Nat]
          PROVE  Retried(row).status \in {"pending", "dead_letter"}
      BY DEF Retried
    <2>. QED BY <1>1, <1>5, <2>1 DEF TypeOK
  <1>7. Settled'
    <2>1. \A e \in Event : point'[e] # None <=> outbox'[e].status = "done"
      BY <1>4, <1>5, <1>6 DEF Settled
    <2>2. ASSUME NEW u \in Worker, NEW e \in Claimed(u)'
          PROVE  outbox'[e].status = "pending"
      <3>1. u # w /\ e \in Claimed(u)
        BY <1>2, <2>2 DEF Claimed, NoBatch
      <3>2. e \notin done \cup failed /\ e \in Event
        BY <1>1, <1>3, <3>1 DEF IInv, Disjoint, Claimed, TypeOK, Batches
      <3>. QED BY <1>5, <3>1, <3>2 DEF Settled
    <2>3. \A u \in Worker : batch'[u].failed \cap (batch'[u].todo \cup batch'[u].done) = {}
      BY <1>2 DEF Settled, NoBatch
    <2>. QED BY <2>1, <2>2, <2>3 DEF Settled
  <1>8. PICK dead \in SUBSET Event : dead = {e \in failed : outbox'[e].status = "dead_letter"}
    OBVIOUS
  <1>9. /\ \A e \in done \cup dead : State[e] = "queued"
        /\ done \cap dead = {}
    BY <1>4, <1>8 DEF State
  <1>10. State' = [e \in Event |-> IF e \in done THEN "done"
                                   ELSE IF e \in dead THEN "dead_letter"
                                   ELSE IF e \in {} THEN "queued" ELSE State[e]]
    <2>1. ASSUME NEW e \in Event
          PROVE  State'[e] = IF e \in done THEN "done"
                             ELSE IF e \in dead THEN "dead_letter" ELSE State[e]
      <3>1. CASE e \in done
        BY <1>5, <3>1 DEF State
      <3>2. CASE e \in failed
        BY <1>4, <1>5, <1>6, <1>8, <3>2 DEF State
      <3>3. CASE e \notin done \cup failed
        BY <1>5, <1>8, <3>3 DEF State
      <3>. QED BY <3>1, <3>2, <3>3
    <2>. QED BY <2>1 DEF State
  <1>11. Applied' = [e \in Event |-> IF e \in done THEN Applied[e] + 1 ELSE Applied[e]]
    <2>1. ASSUME NEW e \in Event
          PROVE  Applied'[e] = IF e \in done THEN Applied[e] + 1 ELSE Applied[e]
      BY <1>4 DEF Applied
    <2>. QED BY <2>1 DEF Applied
  <1>12. Promise!Settle(done, dead, {})
    BY <1>9, <1>10, <1>11 DEF Promise!Settle
  <1>. QED BY <1>7, <1>12 DEF Promise!Next

(* What every other step leaves of the promise's state.                    *)
LEMMA BatchSteps ==
  ASSUME IInv, Settled, NEW w \in Worker, (Work(w) /\ ~Commit(w)) \/ Fail(w) \/ Abort(w)
  PROVE  Settled' /\ UNCHANGED <<State, Applied>>
  <1>1. UNCHANGED <<outbox, point>> /\ TypeOK
    BY DEF IInv, Work, Claim, OpenTrip, ReadTrip, Close, UpdateHead, PersistRule, Release, BreakDeadlock,
           RollBack, Fail, Abort, committed
  <1>2. /\ \A u \in Worker : \A e \in Claimed(u)' : outbox[e].status = "pending"
        /\ \A u \in Worker : batch'[u].failed \cap (batch'[u].todo \cup batch'[u].done) = {}
    <2>1. CASE UNCHANGED batch
      BY <2>1 DEF Settled, Claimed
    <2>2. CASE Claim(w)
      <3>1. PICK new \in SUBSET Event :
              /\ batch' = [batch EXCEPT ![w] = [NoBatch EXCEPT !.todo = new]]
              /\ \A e \in new : outbox[e].status = "pending"
        <4>1. PICK free \in SUBSET Event, waiting \in SUBSET Event :
                /\ \A e \in free : outbox[e].status = "pending"
                /\ batch' = [batch EXCEPT ![w] = [NoBatch EXCEPT !.todo = First(free \ waiting)]]
          BY <2>2 DEF Claim
        <4>2. First(free \ waiting) \in SUBSET free
          BY DEF First
        <4>. QED BY <4>1, <4>2
      <3>. QED BY <1>1, <3>1 DEF Settled, Claimed, TypeOK, Batches, NoBatch
    <2>3. ASSUME job[w].event \in batch[w].todo, \A u \in Worker \ {w} : batch'[u] = batch[u],
                 batch'[w].todo = batch[w].todo \ {job[w].event},
                 \/ /\ batch'[w].done = batch[w].done \cup {job[w].event}
                    /\ batch'[w].failed = batch[w].failed
                 \/ /\ batch'[w].failed = batch[w].failed \cup {job[w].event}
                    /\ batch'[w].done = batch[w].done
          PROVE  /\ \A u \in Worker : \A e \in Claimed(u)' : outbox[e].status = "pending"
                 /\ \A u \in Worker : batch'[u].failed \cap (batch'[u].todo \cup batch'[u].done) = {}
      BY <2>3 DEF Settled, Claimed, IInv, Disjoint
    <2>4. CASE Release(w)
      BY <1>1, <2>3, <2>4, JobEvent DEF Release, TypeOK, Batches
    <2>5. CASE RollBack(w) /\ (job[w].step # "idle" \/ job[w].event # None)
      BY <1>1, <2>3, <2>5, JobEvent DEF RollBack, TypeOK, Batches
    <2>6. CASE Abort(w)
      BY <1>1, <2>6 DEF Abort, Settled, Claimed, NoBatch, TypeOK
    <2>. QED BY <2>1, <2>2, <2>4, <2>5, <2>6
           DEF Work, Fail, BreakDeadlock, InDeadlock, WaitsFor, OpenTrip, ReadTrip, Close, UpdateHead,
               PersistRule
  <1>. QED BY <1>1, <1>2 DEF Settled, State, Applied

LEMMA OutsideSteps ==
  ASSUME IInv, Settled, \/ \E e \in Event : MarkStale(e)
                        \/ CommitTick \/ FailTick \/ Clock \/ UNCHANGED vars
  PROVE  Settled' /\ UNCHANGED <<State, Applied>>
  <1>1. UNCHANGED <<outbox, point, batch>>
    BY DEF MarkStale, CommitTick, FailTick, Clock, vars, committed
  <1>. QED BY <1>1 DEF Settled, State, Applied, Claimed

LEMMA AcceptPublishes ==
  ASSUME IInv, Settled, NEW e \in Event, Accept(e)
  PROVE  Settled' /\ Promise!Next
  <1>1. /\ outbox[e].status = "none" /\ outbox'[e].status = "pending"
        /\ \A d \in Event \ {e} : outbox'[d] = outbox[d]
        /\ UNCHANGED <<point, batch>>
    BY DEF Accept, IInv, TypeOK
  <1>2. Settled'
    <2>1. \A d \in Event : point'[d] # None <=> outbox'[d].status = "done"
      BY <1>1 DEF Settled
    <2>2. \A w \in Worker : Claimed(w)' = Claimed(w) /\ Claimed(w) \subseteq Event
      BY <1>1 DEF Claimed, IInv, TypeOK, Batches
    <2>3. \A w \in Worker : \A d \in Claimed(w) : outbox'[d].status = "pending"
      BY <1>1, <2>2 DEF Settled
    <2>. QED BY <1>1, <2>1, <2>2, <2>3 DEF Settled
  <1>3. State[e] = "none" /\ State' = [State EXCEPT ![e] = "queued"]
    BY <1>1 DEF State
  <1>4. UNCHANGED Applied
    BY <1>1 DEF Applied
  <1>. QED BY <1>2, <1>3, <1>4 DEF Promise!Next, Promise!Publish

(* The pipeline keeps the promise of the outbox with the telemetry point as *)
(* the effect of an event: one if it is done, none if it is not, whatever   *)
(* fails, rolls back or dies, and however often it is tried again.         *)
THEOREM PromiseKept == Spec => ImplementsPromise
  <1>1. Init => Settled /\ Promise!Init
    BY DEF Init, Settled, Claimed, NoBatch, Promise!Init, State, Applied
  <1>2. IInv /\ Settled /\ [Next]_vars => Settled' /\ [Promise!Next]_<<State, Applied>>
    BY CommitSettles, BatchSteps, OutsideSteps, AcceptPublishes DEF Next
  <1>. QED BY <1>1, <1>2, Invariance, PTL DEF Spec, ImplementsPromise
-----------------------------------------------------------------------------
(* Hits.  The occurrences of the safety events of a vehicle and rule, as a *)
(* worker sees them, are the points that broke it among those it sees: the *)
(* committed ones, its own, and the one it is handling once it has come to *)
(* the rule.                                                               *)
Own(v) == {e \in Event : Vehicle[e] = v}
Breaking(r) == {e \in Event : r \in Broken[e]}
Matches(h, P, v) == Sum(h, Own(v)) = Cardinality(Own(v) \cap P)

Pointed == {e \in Event : point[e] # None}
Handled(w) == Pointed \cup {e \in Event : e \in batch[w].done}
InHand(w, r) == {e \in Event : e = job[w].event /\ r \notin job[w].rules}

TableCounts(r) == [e \in Event |-> count[<<e, r>>]]
KeptCounts(w, r) == [e \in Event |-> CountKept(w, <<e, r>>)]
SeenCounts(w, r) == [e \in Event |-> CountSeen(w, <<e, r>>)]

TableHits == \A r \in Rule, x \in Event :
  Matches(TableCounts(r), Breaking(r) \cap Pointed, Vehicle[x])
HitsKept(w) == \A r \in Rule, x \in Event :
  Matches(KeptCounts(w, r), Breaking(r) \cap Handled(w), Vehicle[x])
HitsSeen(w) == \A r \in Rule, x \in Event :
  Matches(SeenCounts(w, r), Breaking(r) \cap (Handled(w) \cup InHand(w, r)), Vehicle[x])

(* The rules still to try are among those the event breaks.                *)
RulesLeft(w) == job[w].event # None => job[w].rules \subseteq Broken[job[w].event]

HitsOK(w) == HitsKept(w) /\ HitsSeen(w) /\ RulesLeft(w)

(* The events of a vehicle are finitely many, and counts are naturals.     *)
LEMMA OwnFinite ==
  ASSUME NEW v
  PROVE  IsFiniteSet(Own(v)) /\ \A P : IsFiniteSet(Own(v) \cap P)
  <1>1. Own(v) \in SUBSET Event /\ \A P : Own(v) \cap P \in SUBSET Event
    BY DEF Own
  <1>. QED BY <1>1, FS_Subset, PipelineAssumption

(* What matches goes on matching if nothing of it has changed.             *)
LEMMA StillMatches ==
  ASSUME NEW v, NEW h, NEW g, NEW P, NEW Q, Matches(h, P, v),
         \A e \in Own(v) : h[e] \in Nat /\ g[e] = h[e],
         Own(v) \cap P = Own(v) \cap Q
  PROVE  Matches(g, Q, v)
  <1>1. Sum(g, Own(v)) = Sum(h, Own(v))
    BY OwnFinite, SumSame
  <1>. QED BY <1>1 DEF Matches

(* One more hit for one more point.                                        *)
LEMMA MatchesOneMore ==
  ASSUME NEW v, NEW h \in [Event -> Nat], NEW d \in Own(v), NEW g, OneMore(g, h, d),
         NEW P, NEW Q, NEW e \in Own(v), e \notin P, Q = P \cup {e}, Matches(h, P, v)
  PROVE  Matches(g, Q, v)
  <1>1. Own(v) \subseteq Event /\ d \in Event
    BY DEF Own
  <1>2. Sum(g, Own(v)) = Sum(h, Own(v)) + 1
    BY <1>1, OwnFinite, SumGrows
  <1>3. PICK p, q : p = Own(v) \cap P /\ q = Own(v) \cap Q
    OBVIOUS
  <1>4. q = p \cup {e} /\ e \notin p /\ IsFiniteSet(p)
    BY <1>3, OwnFinite
  <1>5. Cardinality(q) = Cardinality(p) + 1
    BY <1>4, FS_AddElement
  <1>. QED BY <1>2, <1>3, <1>5 DEF Matches

LEMMA CountTypes ==
  ASSUME TypeOK, NEW w \in Worker, NEW r \in Rule
  PROVE  /\ TableCounts(r) \in [Event -> Nat]
         /\ KeptCounts(w, r) \in [Event -> Nat]
         /\ SeenCounts(w, r) \in [Event -> Nat]
  <1>1. \A e \in Event : <<e, r>> \in Event \X Rule
    OBVIOUS
  <1>2. \A s \in Event \X Rule : count[s] \in Nat /\ CountKept(w, s) \in Nat /\ CountSeen(w, s) \in Nat
    BY DEF TypeOK, Changes, CountKept, CountSeen
  <1>. QED BY <1>1, <1>2 DEF TableCounts, KeptCounts, SeenCounts

(* A worker that holds no lock on the rule sees the table, and has handled *)
(* no point that broke the rule.                                           *)
LEMMA NothingHeld ==
  ASSUME TypeOK, TableHits, NEW w \in Worker, HitsOK(w), NEW r \in Rule, NEW x \in Event,
         ~HoldsRule(w, Vehicle[x], r)
  PROVE  /\ \A e \in Own(Vehicle[x]) : /\ CountKept(w, <<e, r>>) = count[<<e, r>>]
                                       /\ CountSeen(w, <<e, r>>) = count[<<e, r>>]
         /\ \A e \in Own(Vehicle[x]) \cap Breaking(r) :
              e \in Handled(w) \cup InHand(w, r) => e \in Pointed
  <1>1. PICK v : v = Vehicle[x]
    OBVIOUS
  <1>2. \A e \in Own(v) : /\ CountKept(w, <<e, r>>) = count[<<e, r>>]
                          /\ CountSeen(w, <<e, r>>) = count[<<e, r>>]
    BY <1>1 DEF Own, HoldsRule, CountKept, CountSeen
  <1>3. PICK h, g : h = TableCounts(r) /\ g = SeenCounts(w, r)
    OBVIOUS
  <1>4. \A e \in Own(v) : h[e] \in Nat /\ g[e] = h[e]
    <2>1. \A e \in Own(v) : e \in Event
      BY DEF Own
    <2>2. \A e \in Event : h[e] = count[<<e, r>>] /\ g[e] = CountSeen(w, <<e, r>>)
      BY <1>3 DEF TableCounts, SeenCounts
    <2>3. h \in [Event -> Nat]
      BY <1>3, CountTypes
    <2>. QED BY <1>2, <2>1, <2>2, <2>3
  <1>5. PICK P, Q : /\ P = Own(v) \cap (Breaking(r) \cap Pointed)
                    /\ Q = Own(v) \cap (Breaking(r) \cap (Handled(w) \cup InHand(w, r)))
    OBVIOUS
  <1>6. Sum(g, Own(v)) = Sum(h, Own(v))
    BY <1>4, OwnFinite, SumSame
  <1>7. Cardinality(P) = Cardinality(Q)
    BY <1>1, <1>3, <1>5, <1>6 DEF TableHits, HitsOK, HitsSeen, Matches
  <1>8. IsFiniteSet(Q) /\ P \in SUBSET Q
    BY <1>5, OwnFinite DEF Handled
  <1>9. P = Q
    BY <1>7, <1>8, FS_Subset
  <1>. QED BY <1>1, <1>2, <1>5, <1>9

(* What a worker sees of hits when nothing it counts changes.              *)
LEMMA HitsSame ==
  ASSUME TypeOK, NEW w \in Worker, HitsOK(w),
         \A s \in Event \X Rule : CountKept(w, s)' = CountKept(w, s),
         \A s \in Event \X Rule : CountSeen(w, s)' = CountSeen(w, s),
         Handled(w)' = Handled(w),
         job'[w].event = job[w].event, job'[w].rules = job[w].rules
  PROVE  HitsOK(w)'
  <1>1. ASSUME NEW r \in Rule
        PROVE  KeptCounts(w, r)' = KeptCounts(w, r) /\ SeenCounts(w, r)' = SeenCounts(w, r)
    <2>1. \A e \in Event : <<e, r>> \in Event \X Rule
      OBVIOUS
    <2>. QED BY <2>1 DEF KeptCounts, SeenCounts
  <1>2. \A r \in Rule : InHand(w, r)' = InHand(w, r)
    BY DEF InHand
  <1>3. HitsKept(w)' /\ HitsSeen(w)'
    <2>. SUFFICES ASSUME NEW r \in Rule, NEW x \in Event
                  PROVE  /\ Matches(KeptCounts(w, r)', Breaking(r) \cap Handled(w)', Vehicle[x])
                         /\ Matches(SeenCounts(w, r)', Breaking(r) \cap (Handled(w)' \cup InHand(w, r)'),
                                    Vehicle[x])
      BY DEF HitsKept, HitsSeen, Matches, Own, Breaking
    <2>. QED BY <1>1, <1>2 DEF HitsOK, HitsKept, HitsSeen
  <1>. QED BY <1>3 DEF HitsOK, RulesLeft

(* When a savepoint ends, a worker sees what it keeps.                     *)
LEMMA HitsAfter ==
  ASSUME NEW w \in Worker, HitsKept(w)', save'[w] = NoChange, job'[w].event = None
  PROVE  HitsOK(w)'
  <1>1. ASSUME NEW r \in Rule
        PROVE  SeenCounts(w, r)' = KeptCounts(w, r)' /\ InHand(w, r)' = {}
    <2>1. \A e \in Event : CountSeen(w, <<e, r>>)' = CountKept(w, <<e, r>>)'
      BY NothingSaved
    <2>. QED BY <2>1, PipelineAssumption DEF SeenCounts, KeptCounts, InHand
  <1>2. HitsSeen(w)'
    <2>. SUFFICES ASSUME NEW r \in Rule, NEW x \in Event
                  PROVE  Matches(SeenCounts(w, r)', Breaking(r) \cap (Handled(w)' \cup InHand(w, r)'),
                                    Vehicle[x])
      BY DEF HitsSeen, Matches, Own, Breaking
    <2>1. Matches(KeptCounts(w, r)', Breaking(r) \cap Handled(w)', Vehicle[x])
      BY DEF HitsKept, Matches, Own, Breaking
    <2>2. Handled(w)' \cup InHand(w, r)' = Handled(w)'
      BY <1>1
    <2>. QED BY <1>1, <2>1, <2>2
  <1>. QED BY <1>2 DEF HitsOK, RulesLeft

(* The trips are no concern of the hits.                                   *)
LEMMA TripStepHits ==
  ASSUME IInv, NEW w \in Worker, HitsOK(w), UNCHANGED <<point, count>>,
         batch'[w].done = batch[w].done, mine'[w].count = mine[w].count,
         save'[w].count = save[w].count,
         \/ job'[w].event = job[w].event /\ job'[w].rules = job[w].rules
         \/ /\ job[w].event = None
            /\ job'[w].event \in Event
            /\ job'[w].rules = Broken[job'[w].event]
  PROVE  HitsOK(w)'
  <1>1. /\ \A s \in Event \X Rule : CountKept(w, s)' = CountKept(w, s)
        /\ \A s \in Event \X Rule : CountSeen(w, s)' = CountSeen(w, s)
        /\ Handled(w)' = Handled(w)
    BY DEF CountKept, CountSeen, Handled, Pointed
  <1>2. TypeOK
    BY DEF IInv
  <1>3. CASE job'[w].event = job[w].event /\ job'[w].rules = job[w].rules
    BY <1>1, <1>2, <1>3, HitsSame
  <1>4. CASE /\ job[w].event = None
             /\ job'[w].event \in Event
             /\ job'[w].rules = Broken[job'[w].event]
    <2>1. ASSUME NEW r \in Rule
          PROVE  KeptCounts(w, r)' = KeptCounts(w, r) /\ SeenCounts(w, r)' = SeenCounts(w, r)
      <3>1. \A e \in Event : <<e, r>> \in Event \X Rule
        OBVIOUS
      <3>. QED BY <1>1, <3>1 DEF KeptCounts, SeenCounts
    <2>2. \A r \in Rule : /\ Breaking(r) \cap InHand(w, r) = {}
                          /\ Breaking(r) \cap InHand(w, r)' = {}
      BY <1>4, PipelineAssumption DEF InHand, Breaking
    <2>3. HitsKept(w)' /\ HitsSeen(w)'
      <3>. SUFFICES ASSUME NEW r \in Rule, NEW x \in Event
                    PROVE  /\ Matches(KeptCounts(w, r)', Breaking(r) \cap Handled(w)', Vehicle[x])
                           /\ Matches(SeenCounts(w, r)', Breaking(r) \cap (Handled(w)' \cup InHand(w, r)'),
                                    Vehicle[x])
        BY DEF HitsKept, HitsSeen, Matches, Own, Breaking
      <3>1. Breaking(r) \cap (Handled(w)' \cup InHand(w, r)')
              = Breaking(r) \cap (Handled(w) \cup InHand(w, r))
        BY <1>1, <2>2
      <3>. QED BY <1>1, <2>1, <3>1 DEF HitsOK, HitsKept, HitsSeen
    <2>. QED BY <1>4, <2>3 DEF HitsOK, RulesLeft
  <1>. QED BY <1>3, <1>4

(* A hit counted is one more occurrence for one more point.                *)
LEMMA PersistHits ==
  ASSUME IInv, NEW w \in Worker, PersistRule(w), HitsOK(w)
  PROVE  HitsOK(w)'
  <1>0. /\ TypeOK /\ job[w].event \in Event /\ job[w].event \in batch[w].todo
        /\ point[job[w].event] = None
    BY JobEvent DEF PersistRule, IInv
  <1>1. PICK e \in Event : e = job[w].event
    BY <1>0
  <1>2. PICK r \in Rule, d \in Event :
          /\ r \in job[w].rules
          /\ IF SameEvent(w, e, r) = {} THEN d = e ELSE d \in SameEvent(w, e, r)
          /\ save' = [save EXCEPT ![w].count[<<d, r>>] = CountSeen(w, <<d, r>>) + 1]
          /\ job' = [job EXCEPT ![w].rules = @ \ {r}]
    BY <1>1 DEF PersistRule, IsNextRule
  <1>3. UNCHANGED <<point, count, batch, mine>>
    BY DEF PersistRule, committed
  <1>4. Vehicle[d] = Vehicle[e]
    BY <1>2 DEF SameEvent
  <1>5. PICK s \in Event \X Rule, n \in Nat : s = <<d, r>> /\ n = CountSeen(w, s) + 1 /\ n # 0
    <2>1. <<d, r>> \in Event \X Rule
      OBVIOUS
    <2>. QED BY <1>0, <2>1, SeenType
  <1>6. /\ save'[w].count[s] = n
        /\ \A q \in (Event \X Rule) \ {s} : save'[w].count[q] = save[w].count[q]
    <2>1. save \in [Worker -> Changes] /\ save' = [save EXCEPT ![w].count[s] = n]
      BY <1>0, <1>2, <1>5 DEF TypeOK
    <2>. QED BY <2>1 DEF Changes
  <1>7. job'[w].event = e /\ job'[w].rules = job[w].rules \ {r}
    <2>1. job \in [Worker -> Jobs] /\ job[w] \in Jobs
      BY <1>0 DEF TypeOK
    <2>2. PICK left : left = job[w].rules \ {r}
      OBVIOUS
    <2>3. job' = [job EXCEPT ![w].rules = left]
      BY <1>2, <2>2
    <2>. QED BY <1>1, <2>1, <2>2, <2>3 DEF Jobs
  <1>8. /\ \A q \in Event \X Rule : CountKept(w, q)' = CountKept(w, q)
        /\ \A q \in (Event \X Rule) \ {s} : CountSeen(w, q)' = CountSeen(w, q)
        /\ CountSeen(w, s)' = n
        /\ Handled(w)' = Handled(w)
    BY <1>3, <1>5, <1>6 DEF CountKept, CountSeen, Handled, Pointed
  <1>9. e \notin Handled(w) /\ r \in Broken[e]
    <2>1. e \notin Handled(w)
      BY <1>0, <1>1 DEF Handled, Pointed, IInv, Disjoint
    <2>2. r \in Broken[e]
      BY <1>1, <1>2, PipelineAssumption DEF HitsOK, RulesLeft
    <2>. QED BY <2>1, <2>2
  <1>10. HitsKept(w)'
    <2>. SUFFICES ASSUME NEW q \in Rule, NEW x \in Event
                  PROVE  Matches(KeptCounts(w, q)', Breaking(q) \cap Handled(w)', Vehicle[x])
      BY DEF HitsKept, Matches, Own, Breaking
    <2>1. \A y \in Event : <<y, q>> \in Event \X Rule
      OBVIOUS
    <2>2. KeptCounts(w, q)' = KeptCounts(w, q)
      BY <1>8, <2>1 DEF KeptCounts
    <2>. QED BY <1>8, <2>2 DEF HitsOK, HitsKept
  <1>11. HitsSeen(w)'
    <2>. SUFFICES ASSUME NEW q \in Rule, NEW x \in Event
                  PROVE  Matches(SeenCounts(w, q)',
                                 Breaking(q) \cap (Handled(w)' \cup InHand(w, q)'), Vehicle[x])
      BY DEF HitsSeen, Matches, Own, Breaking
    <2>1. PICK h, g, v : h = SeenCounts(w, q) /\ g = SeenCounts(w, q)' /\ v = Vehicle[x]
      OBVIOUS
    <2>2. PICK P, Q : /\ P = Breaking(q) \cap (Handled(w) \cup InHand(w, q))
                      /\ Q = Breaking(q) \cap (Handled(w)' \cup InHand(w, q)')
      OBVIOUS
    <2>3. Matches(h, P, v)
      BY <2>1, <2>2 DEF HitsOK, HitsSeen
    <2>4. h \in [Event -> Nat]
      BY <1>0, <2>1, CountTypes
    <2>5. \A y \in Event : g[y] = IF y = d /\ q = r THEN h[y] + 1 ELSE h[y]
      <3>1. \A y \in Event : /\ h[y] = CountSeen(w, <<y, q>>) /\ g[y] = CountSeen(w, <<y, q>>)'
                             /\ <<y, q>> \in Event \X Rule
                             /\ <<y, q>> = s <=> y = d /\ q = r
        BY <1>5, <2>1 DEF SeenCounts
      <3>. QED BY <1>5, <1>8, <3>1
    <2>6. Q = IF q = r THEN P \cup {e} ELSE P
      <3>1. InHand(w, r) = {} /\ InHand(w, r)' = {e}
        BY <1>1, <1>2, <1>7 DEF InHand
      <3>2. q # r => InHand(w, q)' = InHand(w, q)
        BY <1>1, <1>7 DEF InHand
      <3>3. e \in Breaking(r)
        BY <1>9 DEF Breaking
      <3>. QED BY <1>8, <2>2, <3>1, <3>2, <3>3
    <2>7. CASE q = r /\ v = Vehicle[e]
      <3>1. d \in Own(v) /\ e \in Own(v)
        BY <1>4, <2>7 DEF Own
      <3>2. OneMore(g, h, d)
        <4>1. g = [y \in Event |-> g[y]]
          BY <2>1 DEF SeenCounts
        <4>. QED BY <2>4, <2>5, <2>7, <4>1 DEF OneMore
      <3>3. e \notin P
        BY <1>1, <1>2, <1>9, <2>2, <2>7 DEF InHand
      <3>4. Q = P \cup {e}
        BY <2>6, <2>7
      <3>5. Matches(g, Q, v)
        BY <2>3, <2>4, <3>1, <3>2, <3>3, <3>4, MatchesOneMore
      <3>. QED BY <2>1, <2>2, <3>5
    <2>8. CASE ~(q = r /\ v = Vehicle[e])
      <3>1. \A y \in Own(v) : h[y] \in Nat /\ g[y] = h[y]
        BY <1>4, <2>4, <2>5, <2>8 DEF Own
      <3>2. Own(v) \cap P = Own(v) \cap Q
        BY <2>6, <2>8 DEF Own
      <3>3. Matches(g, Q, v)
        BY <2>3, <3>1, <3>2, StillMatches
      <3>. QED BY <2>1, <2>2, <3>3
    <2>. QED BY <2>7, <2>8
  <1>. QED BY <1>1, <1>7, <1>10, <1>11 DEF HitsOK, RulesLeft

(* What a worker has seen when it releases the savepoint it keeps.         *)
LEMMA ReleaseHits ==
  ASSUME IInv, NEW w \in Worker, Release(w), HitsOK(w)
  PROVE  HitsOK(w)'
  <1>1. /\ TypeOK /\ job[w].event \in Event /\ job[w].rules = {} /\ UNCHANGED <<point, count>>
    BY JobEvent DEF Release, committed, IInv
  <1>2. PICK e \in Event : e = job[w].event
    BY <1>1
  <1>3. save'[w] = NoChange /\ job'[w].event = None
    BY <1>1 DEF Release, TypeOK, NoJob
  <1>4. batch'[w].done = batch[w].done \cup {e}
    BY <1>1, <1>2 DEF Release, TypeOK, Batches
  <1>5. \A s \in Event \X Rule : CountKept(w, s)' = CountSeen(w, s)
    <2>1. mine'[w] = Released(w)
      BY <1>1 DEF Release, TypeOK
    <2>2. \A s \in Event \X Rule : mine'[w].count[s] =
             IF save[w].count[s] # 0 THEN save[w].count[s] ELSE mine[w].count[s]
      BY <2>1 DEF Released
    <2>. QED BY <1>1, <2>2 DEF CountKept, CountSeen
  <1>6. HitsKept(w)'
    <2>. SUFFICES ASSUME NEW r \in Rule, NEW x \in Event
                  PROVE  Matches(KeptCounts(w, r)', Breaking(r) \cap Handled(w)', Vehicle[x])
      BY DEF HitsKept, Matches, Own, Breaking
    <2>1. \A y \in Event : <<y, r>> \in Event \X Rule
      OBVIOUS
    <2>2. KeptCounts(w, r)' = SeenCounts(w, r)
      BY <1>5, <2>1 DEF KeptCounts, SeenCounts
    <2>3. Handled(w)' = Handled(w) \cup InHand(w, r)
      BY <1>1, <1>2, <1>4 DEF Handled, Pointed, InHand
    <2>. QED BY <2>2, <2>3 DEF HitsOK, HitsSeen
  <1>. QED BY <1>3, <1>6, HitsAfter

LEMMA RollBackHits ==
  ASSUME IInv, NEW w \in Worker, RollBack(w), job[w].event # None \/ job[w].step # "idle", HitsOK(w)
  PROVE  HitsOK(w)'
  <1>1. TypeOK /\ UNCHANGED <<point, count, mine>> /\ job[w].event \in batch[w].todo
    BY JobEvent DEF RollBack, committed, IInv
  <1>2. save'[w] = NoChange /\ job'[w].event = None /\ batch'[w].done = batch[w].done
    BY <1>1 DEF RollBack, TypeOK, NoJob, Batches
  <1>3. HitsKept(w)'
    <2>. SUFFICES ASSUME NEW r \in Rule, NEW x \in Event
                  PROVE  Matches(KeptCounts(w, r)', Breaking(r) \cap Handled(w)', Vehicle[x])
      BY DEF HitsKept, Matches, Own, Breaking
    <2>1. KeptCounts(w, r)' = KeptCounts(w, r) /\ Handled(w)' = Handled(w)
      BY <1>1, <1>2 DEF KeptCounts, CountKept, Handled, Pointed
    <2>. QED BY <2>1 DEF HitsOK, HitsKept
  <1>. QED BY <1>2, <1>3, HitsAfter

(* A worker with nothing of its own sees the table.                        *)
LEMMA TableSeen ==
  ASSUME NEW w \in Worker, TableHits', mine'[w] = NoChange, save'[w] = NoChange,
         job'[w].event = None, batch'[w].done = {}
  PROVE  HitsOK(w)'
  <1>1. HitsKept(w)'
    <2>. SUFFICES ASSUME NEW r \in Rule, NEW x \in Event
                  PROVE  Matches(KeptCounts(w, r)', Breaking(r) \cap Handled(w)', Vehicle[x])
      BY DEF HitsKept, Matches, Own, Breaking
    <2>1. Matches(TableCounts(r)', Breaking(r) \cap Pointed', Vehicle[x])
      BY DEF TableHits, Matches, Own, Breaking
    <2>2. KeptCounts(w, r)' = TableCounts(r)'
      BY NoChangeType DEF KeptCounts, TableCounts, CountKept
    <2>3. Handled(w)' = Pointed'
      BY DEF Handled
    <2>. QED BY <2>1, <2>2, <2>3
  <1>. QED BY <1>1, HitsAfter

LEMMA AbortHits ==
  ASSUME IInv, NEW w \in Worker, Abort(w), TableHits
  PROVE  HitsOK(w)' /\ TableHits'
  <1>1. TypeOK /\ UNCHANGED <<point, count>>
    BY DEF Abort, committed, IInv
  <1>2. /\ mine'[w] = NoChange /\ save'[w] = NoChange
        /\ job'[w].event = None /\ batch'[w].done = {}
    BY <1>1 DEF Abort, TypeOK, NoJob, NoBatch
  <1>3. TableHits'
    BY <1>1 DEF TableHits, TableCounts, Pointed, Breaking, Matches, Own
  <1>. QED BY <1>2, <1>3, TableSeen

(* A commit makes of the view of one worker the table.  The others have    *)
(* the lock on a rule, and it has changed nothing there, or see the table. *)
LEMMA CommitHits ==
  ASSUME IInv, NEW w \in Worker, Commit(w), TableHits, \A u \in Worker : HitsOK(u)
  PROVE  TableHits' /\ \A u \in Worker : HitsOK(u)'
  <1>1. /\ TypeOK /\ RowsOK(w) /\ batch[w].todo = {} /\ UNCHANGED <<job, save>>
        /\ \A s \in Event \X Rule : count'[s] = CountKept(w, s)
        /\ \A e \in Event : point'[e] = IF e \in batch[w].done THEN mine[w].point[e] ELSE point[e]
        /\ \A u \in Worker \ {w} : batch'[u] = batch[u] /\ mine'[u] = mine[u]
        /\ batch'[w] = NoBatch /\ mine'[w] = NoChange
    BY Committed DEF IInv, WorkerOK
  <1>2. Pointed' = Handled(w)
    BY <1>1 DEF Pointed, Handled, RowsOK
  <1>3. \A r \in Rule : TableCounts(r)' = KeptCounts(w, r)
    <2>1. \A r \in Rule, e \in Event : <<e, r>> \in Event \X Rule
      OBVIOUS
    <2>. QED BY <1>1, <2>1 DEF TableCounts, KeptCounts
  <1>4. TableHits'
    <2>. SUFFICES ASSUME NEW r \in Rule, NEW x \in Event
                  PROVE  Matches(TableCounts(r)', Breaking(r) \cap Pointed', Vehicle[x])
      BY DEF TableHits, Matches, Own, Breaking
    <2>. QED BY <1>2, <1>3 DEF HitsOK, HitsKept
  <1>5. HitsOK(w)'
    <2>1. save'[w] = NoChange /\ job'[w].event = None
      BY <1>1, BetweenEvents DEF NoJob
    <2>. QED BY <1>1, <1>4, <2>1, TableSeen DEF NoBatch
  <1>6. ASSUME NEW u \in Worker \ {w} PROVE HitsOK(u)'
    <2>1. HitsOK(u) /\ HitsOK(w)
      OBVIOUS
    <2>2. Handled(u)' = Handled(u) \cup Handled(w) /\ \A r \in Rule : InHand(u, r)' = InHand(u, r)
      BY <1>1, <1>2 DEF Handled, InHand
    <2>3. /\ \A s \in Event \X Rule : CountKept(u, s)' = IF mine[u].count[s] # 0 THEN CountKept(u, s)
                                                         ELSE CountKept(w, s)
          /\ \A s \in Event \X Rule : CountSeen(u, s)' =
               IF save[u].count[s] # 0 \/ mine[u].count[s] # 0 THEN CountSeen(u, s)
               ELSE CountKept(w, s)
      BY <1>1 DEF CountKept, CountSeen
    <2>4. HitsKept(u)' /\ HitsSeen(u)'
      <3>. SUFFICES ASSUME NEW r \in Rule, NEW x \in Event
                    PROVE  /\ Matches(KeptCounts(u, r)', Breaking(r) \cap Handled(u)', Vehicle[x])
                           /\ Matches(SeenCounts(u, r)',
                                      Breaking(r) \cap (Handled(u)' \cup InHand(u, r)'), Vehicle[x])
        BY DEF HitsKept, HitsSeen, Matches, Own, Breaking
      <3>1. PICK v : v = Vehicle[x]
        OBVIOUS
      <3>2. \A e \in Own(v) : e \in Event /\ <<e, r>> \in Event \X Rule
        BY DEF Own
      <3>3. PICK h1, g1, h2, g2 : /\ h1 = KeptCounts(u, r) /\ g1 = KeptCounts(u, r)'
                                  /\ h2 = SeenCounts(u, r) /\ g2 = SeenCounts(u, r)'
        OBVIOUS
      <3>4. \A e \in Event : /\ h1[e] = CountKept(u, <<e, r>>) /\ g1[e] = CountKept(u, <<e, r>>)'
                             /\ h2[e] = CountSeen(u, <<e, r>>) /\ g2[e] = CountSeen(u, <<e, r>>)'
        BY <3>3 DEF KeptCounts, SeenCounts
      <3>5. CASE HoldsRule(u, v, r)
        <4>1. ~HoldsRule(w, v, r)
          BY <3>1, <3>5 DEF IInv, RuleLocks
        <4>2. /\ \A e \in Own(v) : CountKept(w, <<e, r>>) = count[<<e, r>>]
              /\ \A e \in Own(v) \cap Breaking(r) : e \in Handled(w) => e \in Pointed
          BY <1>1, <2>1, <3>1, <4>1, NothingHeld
        <4>3. \A e \in Own(v) : CountKept(u, <<e, r>>)' = CountKept(u, <<e, r>>)
                                /\ CountSeen(u, <<e, r>>)' = CountSeen(u, <<e, r>>)
          BY <2>3, <3>2, <4>2 DEF CountKept, CountSeen
        <4>4. /\ \A e \in Own(v) : h1[e] \in Nat /\ g1[e] = h1[e]
              /\ \A e \in Own(v) : h2[e] \in Nat /\ g2[e] = h2[e]
          <5>1. h1 \in [Event -> Nat] /\ h2 \in [Event -> Nat]
            BY <1>1, <3>3, CountTypes
          <5>. QED BY <3>2, <3>4, <4>3, <5>1
        <4>5. PICK P1, Q1, P2, Q2 :
                /\ P1 = Breaking(r) \cap Handled(u) /\ Q1 = Breaking(r) \cap Handled(u)'
                /\ P2 = Breaking(r) \cap (Handled(u) \cup InHand(u, r))
                /\ Q2 = Breaking(r) \cap (Handled(u)' \cup InHand(u, r)')
          OBVIOUS
        <4>6. Own(v) \cap P1 = Own(v) \cap Q1 /\ Own(v) \cap P2 = Own(v) \cap Q2
          <5>1. Pointed \subseteq Handled(u)
            BY DEF Handled
          <5>. QED BY <2>2, <4>2, <4>5, <5>1
        <4>7. Matches(h1, P1, v) /\ Matches(h2, P2, v)
          BY <2>1, <3>1, <3>3, <4>5 DEF HitsOK, HitsKept, HitsSeen
        <4>8. Matches(g1, Q1, v) /\ Matches(g2, Q2, v)
          BY <4>4, <4>6, <4>7, StillMatches
        <4>. QED BY <3>1, <3>3, <4>5, <4>8
      <3>6. CASE ~HoldsRule(u, v, r)
        <4>1. \A e \in Own(v) \cap Breaking(r) : e \in Handled(u) \cup InHand(u, r) => e \in Pointed
          BY <1>1, <2>1, <3>1, <3>6, NothingHeld
        <4>2. \A e \in Own(v) : mine[u].count[<<e, r>>] = 0 /\ save[u].count[<<e, r>>] = 0
          BY <3>6 DEF HoldsRule, Own
        <4>3. \A e \in Own(v) : /\ CountKept(u, <<e, r>>)' = CountKept(w, <<e, r>>)
                                /\ CountSeen(u, <<e, r>>)' = CountKept(w, <<e, r>>)
          BY <2>3, <3>2, <4>2
        <4>4. PICK h, P : h = KeptCounts(w, r) /\ P = Breaking(r) \cap Handled(w)
          OBVIOUS
        <4>5. /\ \A e \in Own(v) : h[e] \in Nat /\ g1[e] = h[e]
              /\ \A e \in Own(v) : h[e] \in Nat /\ g2[e] = h[e]
          <5>1. h \in [Event -> Nat]
            BY <1>1, <4>4, CountTypes
          <5>2. \A e \in Event : h[e] = CountKept(w, <<e, r>>)
            BY <4>4 DEF KeptCounts
          <5>. QED BY <3>2, <3>4, <4>3, <5>1, <5>2
        <4>6. PICK Q1, Q2 :
                /\ Q1 = Breaking(r) \cap Handled(u)'
                /\ Q2 = Breaking(r) \cap (Handled(u)' \cup InHand(u, r)')
          OBVIOUS
        <4>7. Own(v) \cap P = Own(v) \cap Q1 /\ Own(v) \cap P = Own(v) \cap Q2
          <5>1. Pointed \subseteq Handled(w)
            BY DEF Handled
          <5>. QED BY <2>2, <4>1, <4>4, <4>6, <5>1
        <4>8. Matches(h, P, v)
          BY <2>1, <3>1, <4>4 DEF HitsOK, HitsKept
        <4>9. Matches(g1, Q1, v) /\ Matches(g2, Q2, v)
          BY <4>5, <4>7, <4>8, StillMatches
        <4>. QED BY <3>1, <3>3, <4>6, <4>9
      <3>. QED BY <3>5, <3>6
    <2>. QED BY <1>1, <2>1, <2>4 DEF HitsOK, RulesLeft
  <1>. QED BY <1>4, <1>5, <1>6

(* A step of one worker that is no commit is nothing to the others.        *)
LEMMA OthersHits ==
  ASSUME IInv, NEW w \in Worker, UNCHANGED <<point, count>>, TableHits,
         \A u \in Worker : HitsOK(u), HitsOK(w)',
         \A u \in Worker \ {w} : /\ batch'[u] = batch[u] /\ job'[u] = job[u]
                                 /\ mine'[u] = mine[u] /\ save'[u] = save[u]
  PROVE  TableHits' /\ \A u \in Worker : HitsOK(u)'
  <1>1. TableHits'
    BY DEF TableHits, TableCounts, Pointed, Breaking, Matches, Own
  <1>2. ASSUME NEW u \in Worker \ {w} PROVE HitsOK(u)'
    BY TripStepHits
  <1>. QED BY <1>1, <1>2

LEMMA WorkerHits ==
  ASSUME IInv, NEW w \in Worker, Work(w) \/ Fail(w) \/ Abort(w),
         TableHits, \A u \in Worker : HitsOK(u)
  PROVE  TableHits' /\ \A u \in Worker : HitsOK(u)'
  <1>1. TypeOK
    BY DEF IInv
  <1>2. CASE Commit(w)
    BY <1>2, CommitHits
  <1>3. ASSUME ~Commit(w)
        PROVE  /\ UNCHANGED <<point, count>>
               /\ \A u \in Worker \ {w} : /\ batch'[u] = batch[u] /\ job'[u] = job[u]
                                          /\ mine'[u] = mine[u] /\ save'[u] = save[u]
    BY <1>1, <1>3 DEF Work, Claim, OpenTrip, ReadTrip, Close, UpdateHead, PersistRule, Release,
           BreakDeadlock, RollBack, Fail, Abort, committed, TypeOK
  <1>4. CASE Claim(w)
    <2>1. batch'[w].done = {} /\ batch[w].done = {}
      BY <1>1, <1>4 DEF Claim, Claimed, TypeOK, NoBatch
    <2>2. UNCHANGED <<point, count, mine, save, job>>
      BY <1>4 DEF Claim, committed
    <2>3. HitsOK(w)'
      BY <2>1, <2>2, TripStepHits
    <2>. QED BY <1>2, <1>3, <2>3, OthersHits
  <1>5. CASE OpenTrip(w)
    <2>1. PICK e \in Event : /\ save' = [save EXCEPT ![w].trip[e] = NewTrip(e)]
                             /\ job' = [job EXCEPT ![w] = Job(e, "rules", e, NoRow)]
                             /\ job[w].event = None
      BY <1>5 DEF OpenTrip, Reading
    <2>2. /\ save'[w].count = save[w].count /\ job'[w].event = e /\ job'[w].rules = Broken[e]
          /\ UNCHANGED <<point, count, mine, batch>>
      BY <1>1, <1>5, <2>1 DEF OpenTrip, committed, TypeOK, Changes, Job
    <2>3. HitsOK(w)'
      BY <2>1, <2>2, TripStepHits
    <2>. QED BY <1>2, <1>3, <2>3, OthersHits
  <1>6. CASE ReadTrip(w)
    <2>1. PICK e, t \in Event, step \in {"close", "head"} :
            job' = [job EXCEPT ![w] = Job(e, step, t, TripSeen(w, t))] /\ job[w].event = None
      BY <1>6 DEF ReadTrip, Reading
    <2>2. /\ job'[w].event = e /\ job'[w].rules = Broken[e]
          /\ UNCHANGED <<point, count, mine, batch, save>>
      BY <1>1, <1>6, <2>1 DEF ReadTrip, committed, TypeOK, Job
    <2>3. HitsOK(w)'
      BY <2>1, <2>2, TripStepHits
    <2>. QED BY <1>2, <1>3, <2>3, OthersHits
  <1>7. CASE Close(w)
    <2>1. save'[w].count = save[w].count
      <3>1. PICK f : save' = [save EXCEPT ![w].trip = f]
        <4>1. save' = [save EXCEPT ![w].trip = [save[w].trip EXCEPT
                ![job[w].trip] = [TripSeen(w, job[w].trip) EXCEPT !.status = "completed",
                                                         !.endedAt = job[w].base.lastAt],
                ![job[w].event] = NewTrip(job[w].event)]]
          BY <1>1, <1>7 DEF Close, TypeOK
        <4>. QED BY <4>1
      <3>. QED BY <1>1, <3>1 DEF TypeOK, Changes
    <2>2. /\ job'[w].event = job[w].event /\ job'[w].rules = job[w].rules
          /\ UNCHANGED <<point, count, mine, batch>>
      BY <1>1, <1>7 DEF Close, committed, TypeOK, Jobs
    <2>3. HitsOK(w)'
      BY <2>1, <2>2, TripStepHits
    <2>. QED BY <1>2, <1>3, <2>3, OthersHits
  <1>8. CASE UpdateHead(w)
    <2>1. save'[w].count = save[w].count
      BY <1>1, <1>8 DEF UpdateHead, TypeOK, Changes
    <2>2. /\ job'[w].event = job[w].event /\ job'[w].rules = job[w].rules
          /\ UNCHANGED <<point, count, mine, batch>>
      BY <1>1, <1>8 DEF UpdateHead, committed, TypeOK, Jobs
    <2>3. HitsOK(w)'
      BY <2>1, <2>2, TripStepHits
    <2>. QED BY <1>2, <1>3, <2>3, OthersHits
  <1>9. CASE PersistRule(w) \/ Release(w)
    <2>1. HitsOK(w)'
      BY <1>9, PersistHits, ReleaseHits
    <2>. QED BY <1>2, <1>3, <2>1, OthersHits
  <1>10. CASE RollBack(w) /\ (job[w].event # None \/ job[w].step # "idle")
    <2>1. HitsOK(w)'
      BY <1>10, RollBackHits
    <2>. QED BY <1>2, <1>3, <2>1, OthersHits
  <1>11. CASE Abort(w)
    <2>1. HitsOK(w)'
      BY <1>11, AbortHits
    <2>. QED BY <1>2, <1>3, <2>1, OthersHits
  <1>. QED BY <1>2, <1>4, <1>5, <1>6, <1>7, <1>8, <1>9, <1>10, <1>11
         DEF Work, Fail, BreakDeadlock, InDeadlock, WaitsFor

LEMMA OutsideHits ==
  ASSUME IInv, \/ \E e \in Event : Accept(e) \/ MarkStale(e)
               \/ CommitTick \/ FailTick \/ Clock \/ UNCHANGED vars,
         TableHits, \A u \in Worker : HitsOK(u)
  PROVE  TableHits' /\ \A u \in Worker : HitsOK(u)'
  <1>1. UNCHANGED <<point, count, batch, job, mine, save>>
    BY DEF Accept, MarkStale, CommitTick, FailTick, Clock, vars, committed
  <1>2. TableHits'
    BY <1>1 DEF TableHits, TableCounts, Pointed, Breaking, Matches, Own
  <1>3. ASSUME NEW u \in Worker PROVE HitsOK(u)'
    BY <1>1, TripStepHits
  <1>. QED BY <1>2, <1>3

LEMMA InitHits ==
  ASSUME Init
  PROVE  TableHits /\ \A u \in Worker : HitsOK(u)
  <1>1. /\ \A e \in Event : point[e] = None
        /\ \A e \in Event, r \in Rule : count[<<e, r>>] = 0
        /\ \A w \in Worker : /\ mine[w] = NoChange /\ save[w] = NoChange
                             /\ job[w].event = None /\ batch[w].done = {}
    BY DEF Init, NoJob, NoBatch
  <1>2. ASSUME NEW h, NEW P, NEW v, \A e \in Event : h[e] = 0, P = {}
        PROVE  Matches(h, P, v)
    <2>1. \A e \in Own(v) : h[e] = 0
      BY <1>2 DEF Own
    <2>2. Sum(h, Own(v)) = 0 /\ Cardinality({}) = 0 /\ Own(v) \cap P = {}
      BY <1>2, <2>1, OwnFinite, SumZero, FS_EmptySet
    <2>. QED BY <2>2 DEF Matches
  <1>3. Pointed = {}
    BY <1>1 DEF Pointed
  <1>4. TableHits
    <2>1. ASSUME NEW r \in Rule
          PROVE  \A e \in Event : TableCounts(r)[e] = 0
      BY <1>1 DEF TableCounts
    <2>2. ASSUME NEW r \in Rule, NEW x \in Event
          PROVE  Matches(TableCounts(r), Breaking(r) \cap Pointed, Vehicle[x])
      <3>1. Breaking(r) \cap Pointed = {}
        BY <1>3
      <3>. QED BY <1>2, <2>1, <3>1
    <2>. QED BY <2>2 DEF TableHits
  <1>5. ASSUME NEW w \in Worker PROVE HitsOK(w)
    <2>1. ASSUME NEW r \in Rule
          PROVE  /\ \A e \in Event : KeptCounts(w, r)[e] = 0 /\ SeenCounts(w, r)[e] = 0
                 /\ Breaking(r) \cap Handled(w) = {}
                 /\ Breaking(r) \cap (Handled(w) \cup InHand(w, r)) = {}
      <3>1. \A e \in Event : KeptCounts(w, r)[e] = 0 /\ SeenCounts(w, r)[e] = 0
        BY <1>1, NoChangeType DEF KeptCounts, SeenCounts, CountKept, CountSeen
      <3>2. Handled(w) = {} /\ InHand(w, r) = {}
        BY <1>1, <1>3, PipelineAssumption DEF Handled, InHand
      <3>. QED BY <3>1, <3>2
    <2>2. HitsKept(w) /\ HitsSeen(w)
      BY <1>2, <2>1 DEF HitsKept, HitsSeen
    <2>. QED BY <1>1, <2>2 DEF HitsOK, RulesLeft
  <1>. QED BY <1>4, <1>5

LEMMA TableNat ==
  ASSUME TypeOK, NEW r \in Rule
  PROVE  TableCounts(r) \in [Event -> Nat]
  BY DEF TypeOK, TableCounts

(* The sums of the property are those of the table.                        *)
LEMMA HitsImplied ==
  ASSUME TypeOK, TableHits
  PROVE  HitsCounted
  <1> SUFFICES ASSUME NEW r \in Rule, NEW v \in {Vehicle[e] : e \in Event}
               PROVE  MapThenSumSet(LAMBDA e : count[<<e, r>>], {e \in Event : Vehicle[e] = v})
                        = Cardinality({e \in {d \in Event : Vehicle[d] = v} :
                                         point[e] # None /\ r \in Broken[e]})
    BY DEF HitsCounted
  <1>0. PICK x \in Event : v = Vehicle[x]
    OBVIOUS
  <1>1. PICK O : O = Own(v) /\ O = {e \in Event : Vehicle[e] = v}
    BY DEF Own
  <1>2. PICK h : h = TableCounts(r) /\ h \in [Event -> Nat]
    BY TableNat
  <1>3. Sum(h, O) = MapThenSumSet(LAMBDA e : count[<<e, r>>], O)
    <2> DEFINE Adds(f) == f = [s \in SUBSET O |->
                 IF s = {} THEN 0
                 ELSE count[<<CHOOSE y \in s : TRUE, r>>] + f[s \ {CHOOSE y \in s : TRUE}]]
    <2>1. \A s \in SUBSET O : s # {} => h[Pick(s)] = count[<<Pick(s), r>>]
      BY <1>1, <1>2, Picked DEF TableCounts
    <2>2. ASSUME NEW f PROVE Adds(f) <=> SumsUp(f, h, O)
      <3>1. ASSUME NEW s \in SUBSET O
            PROVE  (IF s = {} THEN 0 ELSE count[<<Pick(s), r>>] + f[s \ {Pick(s)}])
                     = (IF s = {} THEN 0 ELSE h[Pick(s)] + f[s \ {Pick(s)}])
        BY <2>1
      <3>2. Adds(f) <=> f = [s \in SUBSET O |->
                              IF s = {} THEN 0 ELSE count[<<Pick(s), r>>] + f[s \ {Pick(s)}]]
        BY DEF Pick
      <3>. HIDE DEF Adds
      <3>. QED BY <3>1, <3>2 DEF SumsUp
    <2>3. \A e \in O : h[e] \in Nat
      BY <1>1, <1>2 DEF Own
    <2>4. IsFiniteSet(O)
      BY <1>1, OwnFinite
    <2>5. \E f : Adds(f)
      <3>. HIDE DEF Adds
      <3>1. PICK f \in [SUBSET O -> Nat] : SumsUp(f, h, O)
        BY <2>3, <2>4, SumExists
      <3>. QED BY <2>2, <3>1
    <2>6. PICK g : g = CHOOSE f : Adds(f)
      OBVIOUS
    <2>7. Adds(g)
      BY <2>5, <2>6
    <2>8. Sum(h, O) = g[O]
      <3>. HIDE DEF Adds
      <3>. QED BY <2>2, <2>3, <2>4, <2>7, SumUnique
    <2>9. MapThenSumSet(LAMBDA e : count[<<e, r>>], O) = g[O]
      BY <2>6 DEF MapThenSumSet, MapThenFoldSet
    <2>. QED BY <2>8, <2>9
  <1>4. O \cap (Breaking(r) \cap Pointed) = {e \in O : point[e] # None /\ r \in Broken[e]}
    BY <1>1 DEF Own, Breaking, Pointed
  <1>5. Sum(h, O) = Cardinality(O \cap (Breaking(r) \cap Pointed))
    BY <1>0, <1>1, <1>2 DEF TableHits, Matches
  <1>. QED BY <1>1, <1>3, <1>4, <1>5

LEMMA HitsNext ==
  ASSUME IInv, [Next]_vars, TableHits, \A w \in Worker : HitsOK(w)
  PROVE  TableHits' /\ \A w \in Worker : HitsOK(w)'
  <1>1. CASE \/ \E e \in Event : Accept(e) \/ MarkStale(e)
             \/ CommitTick \/ FailTick \/ Clock \/ UNCHANGED vars
    BY <1>1, OutsideHits
  <1>2. ASSUME NEW w \in Worker, Work(w) \/ Fail(w) \/ Abort(w)
        PROVE  TableHits' /\ \A u \in Worker : HitsOK(u)'
    BY <1>2, WorkerHits
  <1>. QED BY <1>1, <1>2 DEF Next

(* No hit is lost or counted twice: what a worker counts on the row it has *)
(* looked up is the committed count with its own hits, since the lock on   *)
(* vehicle and rule is its own until its transaction ends.                 *)
THEOREM HitsAddUp == Spec => []HitsCounted
  <1> DEFINE Hits == TableHits /\ \A w \in Worker : HitsOK(w)
  <1>1. Init => Hits
    BY InitHits
  <1>2. IInv /\ Hits /\ [Next]_vars => Hits'
    BY HitsNext
  <1>3. IInv /\ Hits => HitsCounted
    BY HitsImplied DEF IInv
  <1>. HIDE DEF Hits
  <1>. QED BY <1>1, <1>2, <1>3, Invariance, PTL DEF Spec

-----------------------------------------------------------------------------
(* Heads.  The head of a trip, as a worker sees it, tells of the points it *)
(* sees on the trip: HeadMatchesPoints, of each view.                      *)
Describes(row, P) ==
  /\ row.points \in 1..Cardinality(P)
  /\ ~row.raced => row.points = Cardinality(P)
  /\ \E e \in P : row.lastAt = Occurred[e]
  /\ ~row.late => \A e \in P : Occurred[e] <= row.lastAt
HeadOf(row, P) == IF row = NoRow THEN P = {} ELSE Describes(row, P)

PointKept(w, e) == IF mine[w].point[e] # None THEN mine[w].point[e] ELSE point[e]
PointsKept(w, t) == {e \in Event : PointKept(w, e) = t}
PointsSeen(w, t) ==
  PointsKept(w, t)
    \cup {e \in Event : e = job[w].event /\ job[w].step = "rules" /\ job[w].trip = t}

TableHeads == \A t \in Event : HeadOf(trip[t], PointsOf(t))
HeadsKept(w) == \A t \in Event : HeadOf(TripKept(w, t), PointsKept(w, t))
HeadsSeen(w) == \A t \in Event : HeadOf(TripSeen(w, t), PointsSeen(w, t))

(* A worker has written the head of every trip it has put a point on.  The *)
(* row it has read counts no more points than the trip has by now.         *)
HeadsWritten(w) ==
  /\ \A e \in Event : e \in batch[w].done => mine[w].trip[mine[w].point[e]] # NoRow
  /\ job[w].step = "rules" => save[w].trip[job[w].trip] # NoRow
BaseRead(w) ==
  job[w].step \in {"close", "head"} =>
    job[w].base.points \in 1..Cardinality(PointsKept(w, job[w].trip))

HeadsOK(w) == HeadsKept(w) /\ HeadsSeen(w) /\ HeadsWritten(w) /\ BaseRead(w)

LEMMA PointsFinite ==
  ASSUME NEW P \in SUBSET Event
  PROVE  IsFiniteSet(P) /\ Cardinality(P) \in Nat
  BY FS_Subset, FS_CardinalityType, PipelineAssumption

(* Only these columns of a head tell of the points.                        *)
LEMMA SameHead ==
  ASSUME NEW row, NEW new, NEW P, HeadOf(row, P), row # NoRow,
         new.points = row.points, new.raced = row.raced,
         new.lastAt = row.lastAt, new.late = row.late
  PROVE  Describes(new, P)
  BY DEF HeadOf, Describes

LEMMA NewHead ==
  ASSUME NEW e \in Event
  PROVE  Describes(NewTrip(e), {e})
  <1>1. /\ NewTrip(e).points = 1 /\ NewTrip(e).lastAt = Occurred[e]
        /\ Occurred[e] \in Nat
    BY PipelineAssumption DEF NewTrip, NoRow
  <1>2. Cardinality({e}) = 1
    BY FS_Singleton
  <1>. QED BY <1>1, <1>2 DEF Describes

(* A head is right about one point more if the row was right about those   *)
(* there were, and the row read counted no more.                           *)
LEMMA HeadMoves ==
  ASSUME NEW seen \in TripRow, NEW base \in TripRow, NEW P \in SUBSET Event,
         NEW e \in Event, e \notin P, Describes(seen, P),
         base.points \in 1..Cardinality(P),
         NEW Q, Q = P \cup {e}
  PROVE  Describes(HeadAfter(seen, base, e), Q)
  <1>1. PICK row : row = HeadAfter(seen, base, e)
    OBVIOUS
  <1>2. /\ row.points = base.points + 1 /\ row.lastAt = Occurred[e]
        /\ row.raced = (seen.raced \/ seen # base)
        /\ row.late = (seen.late \/ Occurred[e] < seen.lastAt)
    BY <1>1 DEF HeadAfter, TripRow
  <1>3. PICK n \in Nat : n = Cardinality(P) /\ Cardinality(Q) = n + 1
    BY PointsFinite, FS_AddElement
  <1>4. base.points \in Nat /\ seen.points \in Nat /\ seen.lastAt \in Nat
    BY DEF TripRow
  <1>5. \A d \in Event : Occurred[d] \in Nat
    BY PipelineAssumption
  <1>6. row.points \in 1..Cardinality(Q)
    BY <1>2, <1>3, <1>4
  <1>7. ASSUME ~row.raced PROVE row.points = Cardinality(Q)
    <2>1. seen = base /\ ~seen.raced
      BY <1>2, <1>7
    <2>2. base.points = Cardinality(P)
      BY <2>1 DEF Describes
    <2>. QED BY <1>2, <1>3, <2>2
  <1>8. \E d \in Q : row.lastAt = Occurred[d]
    BY <1>2
  <1>9. ASSUME ~row.late, NEW d \in Q PROVE Occurred[d] <= row.lastAt
    <2>1. ~seen.late /\ ~(Occurred[e] < seen.lastAt)
      BY <1>2, <1>9
    <2>2. CASE d = e
      BY <1>2, <1>5, <2>2
    <2>3. CASE d \in P
      <3>1. Occurred[d] <= seen.lastAt
        BY <2>1, <2>3 DEF Describes
      <3>. QED BY <1>2, <1>4, <1>5, <2>1, <2>3, <3>1
    <2>. QED BY <2>2, <2>3
  <1>. QED BY <1>1, <1>6, <1>7, <1>8, <1>9 DEF Describes

(* A worker sees no points where it sees no trip.                          *)
LEMMA FreshTrip ==
  ASSUME IInv, NEW w \in Worker, HeadsOK(w), NEW e \in Event, e \in batch[w].todo, point[e] = None
  PROVE  PointsKept(w, e) = {} /\ \A t \in Event : e \notin PointsKept(w, t)
  <1>1. TripKept(w, e) = NoRow
    BY FreshRow
  <1>2. PointKept(w, e) = None
    BY DEF IInv, Disjoint, WorkerOK, RowsOK, PointKept
  <1>. QED BY <1>1, <1>2, PipelineAssumption DEF HeadsOK, HeadsKept, HeadOf, PointsKept

(* When a savepoint ends, a worker sees what it keeps.                     *)
LEMMA HeadsAfter ==
  ASSUME NEW w \in Worker, HeadsKept(w)', save'[w] = NoChange, job'[w] = NoJob,
         \A e \in Event : e \in batch'[w].done => mine'[w].trip[mine'[w].point[e]] # NoRow
  PROVE  HeadsOK(w)'
  <1>1. \A t \in Event : TripSeen(w, t)' = TripKept(w, t)' /\ PointsSeen(w, t)' = PointsKept(w, t)'
    BY NothingSaved DEF PointsSeen, NoJob
  <1>. QED BY <1>1 DEF HeadsOK, HeadsKept, HeadsSeen, HeadsWritten, BaseRead, NoJob

(* A step that moves no trip and no point.                                 *)
LEMMA HeadsSame ==
  ASSUME NEW w \in Worker, HeadsOK(w), UNCHANGED <<trip, point>>,
         batch'[w].done = batch[w].done,
         mine'[w].trip = mine[w].trip, mine'[w].point = mine[w].point,
         save'[w].trip = save[w].trip, job'[w].event = job[w].event,
         job'[w].step = job[w].step, job'[w].trip = job[w].trip, job'[w].base = job[w].base
  PROVE  HeadsOK(w)'
  <1>1. \A t \in Event : /\ TripKept(w, t)' = TripKept(w, t) /\ TripSeen(w, t)' = TripSeen(w, t)
                         /\ PointsKept(w, t)' = PointsKept(w, t)
                         /\ PointsSeen(w, t)' = PointsSeen(w, t)
    BY DEF TripKept, TripSeen, PointsKept, PointsSeen, PointKept
  <1>2. HeadsKept(w)' /\ HeadsSeen(w)'
    BY <1>1 DEF HeadsOK, HeadsKept, HeadsSeen
  <1>3. PointsKept(w, job[w].trip)' = PointsKept(w, job[w].trip)
    BY DEF PointsKept, PointKept
  <1>4. HeadsWritten(w)' /\ BaseRead(w)'
    BY <1>3 DEF HeadsOK, HeadsWritten, BaseRead
  <1>. QED BY <1>2, <1>4 DEF HeadsOK

(* What the heads are after a worker has written the trips of its own.     *)
LEMMA HeadsMove ==
  ASSUME NEW w \in Worker, HeadsOK(w), UNCHANGED <<trip, point, mine, batch>>,
         job'[w].step = "rules", save'[w].trip[job'[w].trip] # NoRow,
         \A t \in Event : HeadOf(TripSeen(w, t)', PointsSeen(w, t)')
  PROVE  HeadsOK(w)'
  <1>1. \A t \in Event : TripKept(w, t)' = TripKept(w, t) /\ PointsKept(w, t)' = PointsKept(w, t)
    BY DEF TripKept, PointsKept, PointKept
  <1>2. HeadsKept(w)' /\ HeadsSeen(w)'
    BY <1>1 DEF HeadsOK, HeadsKept, HeadsSeen
  <1>3. HeadsWritten(w)' /\ BaseRead(w)'
    BY DEF HeadsOK, HeadsWritten, BaseRead
  <1>. QED BY <1>2, <1>3 DEF HeadsOK

LEMMA OpenTripHeads ==
  ASSUME IInv, NEW w \in Worker, OpenTrip(w), HeadsOK(w)
  PROVE  HeadsOK(w)'
  <1>1. PICK e \in Event : /\ Reading(w, e, None)
                           /\ save' = [save EXCEPT ![w].trip[e] = NewTrip(e)]
                           /\ job' = [job EXCEPT ![w] = Job(e, "rules", e, NoRow)]
    BY DEF OpenTrip
  <1>2. /\ TypeOK /\ UNCHANGED <<trip, point, batch, mine>>
        /\ job[w].event = None /\ save[w] = NoChange
        /\ e \in batch[w].todo /\ point[e] = None
    BY <1>1 DEF IInv, WorkerOK, JobOK, OpenTrip, committed, Reading, IsNext
  <1>3. PICK r \in TripRow : r = NewTrip(e) /\ r # NoRow
    BY RowTypes, NoChangeType
  <1>4. save'[w].trip[e] = r /\ \A u \in Event \ {e} : save'[w].trip[u] = NoRow
    <2>1. TypeOK /\ save' = [save EXCEPT ![w].trip[e] = r]
      BY <1>1, <1>2, <1>3
    <2>2. /\ save' \in [Worker -> Changes]
          /\ \A u \in Worker \ {w} : save'[u] = save[u]
          /\ save'[w].point = save[w].point /\ save'[w].count = save[w].count
          /\ save'[w].trip[e] = r
          /\ \A u \in Event \ {e} : save'[w].trip[u] = save[w].trip[u]
      <3>1. w \in Worker /\ e \in Event /\ r \in TripRow
        OBVIOUS
      <3>. QED BY ONLY <2>1, <3>1 DEF TypeOK, Changes
    <2>. QED BY <1>2, <2>2, NoChangeType
  <1>5. job'[w].event = e /\ job'[w].step = "rules" /\ job'[w].trip = e
    BY <1>1, <1>2 DEF TypeOK, Job
  <1>6. PointsKept(w, e) = {}
    BY <1>2, FreshTrip
  <1>7. ASSUME NEW t \in Event PROVE HeadOf(TripSeen(w, t)', PointsSeen(w, t)')
    <2>1. TripKept(w, t)' = TripKept(w, t) /\ PointsKept(w, t)' = PointsKept(w, t)
      BY <1>2 DEF TripKept, PointsKept, PointKept
    <2>2. CASE t = e
      <3>1. TripSeen(w, t)' = NewTrip(e) /\ PointsSeen(w, t)' = {e}
        BY <1>3, <1>4, <1>5, <1>6, <2>1, <2>2 DEF TripSeen, PointsSeen
      <3>. QED BY <1>3, <3>1, NewHead DEF HeadOf
    <2>3. CASE t # e
      <3>1. TripSeen(w, t)' = TripKept(w, t) /\ PointsSeen(w, t)' = PointsKept(w, t)
        BY <1>4, <1>5, <2>1, <2>3 DEF TripSeen, TripKept, PointsSeen
      <3>. QED BY <3>1 DEF HeadsOK, HeadsKept
    <2>. QED BY <2>2, <2>3
  <1>. QED BY <1>2, <1>3, <1>4, <1>5, <1>7, HeadsMove

(* The row read is right about the points there are.                       *)
LEMMA ReadTripHeads ==
  ASSUME IInv, NEW w \in Worker, ReadTrip(w), HeadsOK(w)
  PROVE  HeadsOK(w)'
  <1>1. PICK e \in Event, t \in Event, step \in {"close", "head"} :
          /\ Reading(w, e, t)
          /\ job' = [job EXCEPT ![w] = Job(e, step, t, TripSeen(w, t))]
    BY DEF ReadTrip
  <1>2. /\ TypeOK /\ UNCHANGED <<trip, point, batch, mine, save>>
        /\ job[w].event = None /\ save[w] = NoChange
    BY <1>1 DEF IInv, WorkerOK, JobOK, ReadTrip, committed, Reading
  <1>3. TripSeen(w, t) # NoRow
    BY <1>1, PipelineAssumption DEF Reading, IsActiveTrip, Open, NoRow
  <1>4. job'[w] = Job(e, step, t, TripSeen(w, t))
    BY <1>1, <1>2 DEF TypeOK
  <1>5. \A u \in Event : /\ TripKept(w, u)' = TripKept(w, u) /\ TripSeen(w, u)' = TripSeen(w, u)
                         /\ PointsKept(w, u)' = PointsKept(w, u)
                         /\ PointsSeen(w, u)' = PointsKept(w, u)
                         /\ PointsSeen(w, u) = PointsKept(w, u)
    BY <1>2, <1>4, PipelineAssumption
       DEF TripKept, TripSeen, PointsKept, PointsSeen, PointKept, Job
  <1>6. HeadsKept(w)' /\ HeadsSeen(w)'
    BY <1>5 DEF HeadsOK, HeadsKept, HeadsSeen
  <1>7. TripSeen(w, t).points \in 1..Cardinality(PointsKept(w, t))
    BY <1>3, <1>5 DEF HeadsOK, HeadsSeen, HeadOf, Describes
  <1>8. HeadsWritten(w)'
    BY <1>2, <1>4 DEF HeadsOK, HeadsWritten, Job
  <1>9. BaseRead(w)'
    BY <1>4, <1>5, <1>7 DEF BaseRead, Job
  <1>. QED BY <1>6, <1>8, <1>9 DEF HeadsOK

LEMMA CloseHeads ==
  ASSUME IInv, NEW w \in Worker, Close(w), HeadsOK(w)
  PROVE  HeadsOK(w)'
  <1>0. /\ job[w].step = "close" /\ TypeOK /\ save[w] = NoChange
        /\ job[w].trip \in Event /\ job[w].event \in Event
        /\ TripSeen(w, job[w].trip) # NoRow
        /\ job[w].event \in batch[w].todo /\ point[job[w].event] = None
    BY JobEvent DEF Close, IInv, WorkerOK, JobOK
  <1>1. PICK t \in Event, e \in Event : t = job[w].trip /\ e = job[w].event
    BY <1>0
  <1>2. UNCHANGED <<trip, point, batch, mine>>
    BY DEF Close, committed
  <1>3. PICK seen, old : /\ seen = TripSeen(w, t) /\ seen \in TripRow
                         /\ old = [seen EXCEPT !.status = "completed", !.endedAt = job[w].base.lastAt]
    BY <1>0, SeenType
  <1>4. /\ old \in TripRow /\ old # NoRow /\ old.points = seen.points /\ old.raced = seen.raced
        /\ old.lastAt = seen.lastAt /\ old.late = seen.late
        /\ NewTrip(e) \in TripRow /\ NewTrip(e) # NoRow
    <2>1. job[w].base \in TripRow
      BY <1>0 DEF TypeOK, Jobs
    <2>2. old \in TripRow /\ old # NoRow /\ NewTrip(e) \in TripRow /\ NewTrip(e) # NoRow
      BY <1>3, <2>1, RowTypes
    <2>. QED BY <1>3, <2>2 DEF TripRow
  <1>5. \A u \in Event : TripSeen(w, u) = TripKept(w, u)
    BY <1>0, NoChangeType DEF TripSeen, TripKept
  <1>6. PointsKept(w, e) = {} /\ TripKept(w, e) = NoRow /\ t # e
    BY <1>0, <1>1, <1>5, FreshTrip, FreshRow
  <1>7. /\ save'[w].trip[t] = old /\ save'[w].trip[e] = NewTrip(e)
        /\ \A u \in Event \ {t, e} : save'[w].trip[u] = NoRow
    <2>1. save[w].trip \in [Event -> TripRow] /\ \A u \in Event : save[w].trip[u] = NoRow
      BY <1>0, NoChangeType DEF TypeOK, Changes
    <2>2. PICK f : f = [save[w].trip EXCEPT ![t] = old, ![e] = NewTrip(e)]
      OBVIOUS
    <2>3. f[t] = old /\ f[e] = NewTrip(e) /\ \A u \in Event \ {t, e} : f[u] = NoRow
      BY <1>6, <2>1, <2>2
    <2>4. save' = [save EXCEPT ![w].trip = [@ EXCEPT ![t] = old, ![e] = NewTrip(e)]]
      BY <1>1, <1>3 DEF Close
    <2>5. save' = [save EXCEPT ![w].trip = f]
      BY <1>0, <2>2, <2>4 DEF TypeOK
    <2>6. save'[w].trip = f
      BY <1>0, <2>5 DEF TypeOK, Changes
    <2>. QED BY <2>3, <2>6
  <1>8. job'[w].event = e /\ job'[w].step = "rules" /\ job'[w].trip = e
    <2>1. job' = [job EXCEPT ![w].step = "rules", ![w].trip = e]
      BY <1>1 DEF Close
    <2>. QED BY <1>0, <1>1, <2>1 DEF TypeOK, Jobs
  <1>9. ASSUME NEW u \in Event PROVE HeadOf(TripSeen(w, u)', PointsSeen(w, u)')
    <2>1. TripKept(w, u)' = TripKept(w, u) /\ PointsKept(w, u)' = PointsKept(w, u)
      BY <1>2 DEF TripKept, PointsKept, PointKept
    <2>2. CASE u = e
      <3>1. TripSeen(w, u)' = NewTrip(e) /\ PointsSeen(w, u)' = {e}
        BY <1>4, <1>6, <1>7, <1>8, <2>1, <2>2 DEF TripSeen, PointsSeen
      <3>. QED BY <1>4, <3>1, NewHead DEF HeadOf
    <2>3. ASSUME u # e PROVE PointsSeen(w, u)' = PointsKept(w, u)
      BY <1>8, <2>1, <2>3 DEF PointsSeen
    <2>4. CASE u = t
      <3>1. TripSeen(w, u)' = old
        BY <1>4, <1>7, <2>4 DEF TripSeen
      <3>2. HeadOf(seen, PointsKept(w, t)) /\ seen # NoRow
        BY <1>0, <1>1, <1>3, <1>5 DEF HeadsOK, HeadsKept
      <3>3. Describes(old, PointsKept(w, t))
        BY <1>4, <3>2, SameHead
      <3>. QED BY <1>4, <1>6, <2>3, <2>4, <3>1, <3>3 DEF HeadOf
    <2>5. CASE u \notin {t, e}
      <3>1. TripSeen(w, u)' = TripKept(w, u)
        BY <1>7, <2>1, <2>5 DEF TripSeen, TripKept
      <3>. QED BY <2>3, <2>5, <3>1 DEF HeadsOK, HeadsKept
    <2>. QED BY <2>2, <2>4, <2>5
  <1>. QED BY <1>2, <1>4, <1>7, <1>8, <1>9, HeadsMove

LEMMA UpdateHeadHeads ==
  ASSUME IInv, NEW w \in Worker, UpdateHead(w), HeadsOK(w)
  PROVE  HeadsOK(w)'
  <1>0. /\ job[w].step = "head" /\ TypeOK /\ save[w] = NoChange
        /\ job[w].trip \in Event /\ job[w].event \in Event
        /\ TripSeen(w, job[w].trip) # NoRow
        /\ job[w].event \in batch[w].todo /\ point[job[w].event] = None
    BY JobEvent DEF UpdateHead, IInv, WorkerOK, JobOK
  <1>1. PICK t \in Event, e \in Event : t = job[w].trip /\ e = job[w].event
    BY <1>0
  <1>2. UNCHANGED <<trip, point, batch, mine>>
    BY DEF UpdateHead, committed
  <1>3. PICK seen \in TripRow, base \in TripRow : seen = TripSeen(w, t) /\ base = job[w].base
    BY <1>0, SeenType DEF TypeOK, Jobs
  <1>4. PICK row : row = HeadAfter(seen, base, e)
    OBVIOUS
  <1>5. row \in TripRow /\ row # NoRow
    BY <1>4, RowTypes
  <1>6. save'[w].trip[t] = row /\ \A u \in Event \ {t} : save'[w].trip[u] = NoRow
    <2>1. save' = [save EXCEPT ![w].trip[t] = row]
      BY <1>1, <1>3, <1>4 DEF UpdateHead
    <2>2. /\ save'[w].trip[t] = row
          /\ \A u \in Event \ {t} : save'[w].trip[u] = save[w].trip[u]
      <3>1. save \in [Worker -> Changes] /\ row \in TripRow
        BY <1>0, <1>5 DEF TypeOK
      <3>. QED BY <2>1, <3>1 DEF Changes
    <2>. QED BY <1>0, <2>2, NoChangeType
  <1>7. job'[w].event = e /\ job'[w].step = "rules" /\ job'[w].trip = t
    BY <1>0, <1>1 DEF UpdateHead, TypeOK, Jobs
  <1>8. \A u \in Event : TripSeen(w, u) = TripKept(w, u)
    BY <1>0, NoChangeType DEF TripSeen, TripKept
  <1>9. PICK P \in SUBSET Event : P = PointsKept(w, t) /\ e \notin P
    <2>1. e \notin PointsKept(w, t)
      BY <1>0, <1>1, FreshTrip
    <2>. QED BY <2>1 DEF PointsKept
  <1>10. Describes(seen, P)
    BY <1>0, <1>1, <1>3, <1>8, <1>9 DEF HeadsOK, HeadsKept, HeadOf
  <1>11. base.points \in 1..Cardinality(P)
    BY <1>0, <1>1, <1>3, <1>9 DEF HeadsOK, BaseRead
  <1>12. ASSUME NEW u \in Event PROVE HeadOf(TripSeen(w, u)', PointsSeen(w, u)')
    <2>1. TripKept(w, u)' = TripKept(w, u) /\ PointsKept(w, u)' = PointsKept(w, u)
      BY <1>2 DEF TripKept, PointsKept, PointKept
    <2>2. CASE u = t
      <3>1. TripSeen(w, u)' = row /\ PointsSeen(w, u)' = P \cup {e}
        BY <1>5, <1>6, <1>7, <1>9, <2>1, <2>2 DEF TripSeen, PointsSeen
      <3>2. Describes(row, P \cup {e})
        BY <1>4, <1>9, <1>10, <1>11, HeadMoves
      <3>. QED BY <1>5, <3>1, <3>2 DEF HeadOf
    <2>3. CASE u # t
      <3>1. TripSeen(w, u)' = TripKept(w, u) /\ PointsSeen(w, u)' = PointsKept(w, u)
        BY <1>6, <1>7, <2>1, <2>3 DEF TripSeen, TripKept, PointsSeen
      <3>. QED BY <3>1 DEF HeadsOK, HeadsKept
    <2>. QED BY <2>2, <2>3
  <1>. QED BY <1>1, <1>2, <1>5, <1>6, <1>7, <1>12, HeadsMove

(* What a worker has seen when it releases the savepoint it keeps.         *)
LEMMA ReleaseHeads ==
  ASSUME IInv, NEW w \in Worker, Release(w), HeadsOK(w)
  PROVE  HeadsOK(w)'
  <1>0. job[w].step = "rules"
    BY DEF Release
  <1>1. /\ TypeOK /\ job[w].event \in Event /\ UNCHANGED <<trip, point>>
        /\ job[w].trip \in Event /\ job[w].event \in batch[w].todo /\ point[job[w].event] = None
    BY <1>0, JobEvent DEF Release, committed, IInv, WorkerOK, JobOK
  <1>2. PICK e \in Event, s \in Event : e = job[w].event /\ s = job[w].trip
    BY <1>1
  <1>3. save'[w] = NoChange /\ job'[w] = NoJob
    BY <1>1 DEF Release, TypeOK
  <1>4. batch'[w].done = batch[w].done \cup {e}
    BY <1>1, <1>2 DEF Release, TypeOK, Batches
  <1>5. mine'[w] = Released(w)
    BY <1>1 DEF Release, TypeOK
  <1>6. /\ \A t \in Event : mine'[w].trip[t] =
             IF save[w].trip[t] # NoRow THEN save[w].trip[t] ELSE mine[w].trip[t]
        /\ mine'[w].point[e] = s
        /\ \A d \in Event \ {e} : mine'[w].point[d] = mine[w].point[d]
    <2>1. mine[w].point \in [Event -> Event \cup {None}]
      BY <1>1 DEF TypeOK, Changes
    <2>. QED BY <1>2, <1>5, <2>1 DEF Released
  <1>7. ASSUME NEW t \in Event
        PROVE  TripKept(w, t)' = TripSeen(w, t) /\ PointsKept(w, t)' = PointsSeen(w, t)
    <2>1. TripKept(w, t)' = TripSeen(w, t)
      BY <1>1, <1>6 DEF TripKept, TripSeen
    <2>2. e \notin PointsKept(w, t)
      BY <1>1, <1>2, FreshTrip
    <2>3. ASSUME NEW d \in Event
          PROVE  PointKept(w, d)' = IF d = e THEN s ELSE PointKept(w, d)
      BY <1>1, <1>6, <2>3, PipelineAssumption DEF PointKept
    <2>4. PointsKept(w, t)' = {d \in Event : d = e /\ s = t} \cup PointsKept(w, t)
      BY <2>2, <2>3 DEF PointsKept
    <2>. QED BY <1>0, <1>2, <2>1, <2>4 DEF PointsSeen
  <1>8. HeadsKept(w)'
    BY <1>7 DEF HeadsKept, HeadsOK, HeadsSeen
  <1>9. ASSUME NEW d \in Event, d \in batch'[w].done PROVE mine'[w].trip[mine'[w].point[d]] # NoRow
    <2>1. CASE d = e
      BY <1>0, <1>2, <1>6, <2>1 DEF HeadsOK, HeadsWritten
    <2>2. CASE d # e
      <3>1. d \in batch[w].done
        BY <1>4, <1>9, <2>2
      <3>2. mine[w].point[d] \in Event /\ mine[w].trip[mine[w].point[d]] # NoRow
        BY <1>1, <3>1 DEF TypeOK, Changes, IInv, WorkerOK, RowsOK, HeadsOK, HeadsWritten
      <3>. QED BY <1>6, <2>2, <3>2
    <2>. QED BY <2>1, <2>2
  <1>. QED BY <1>3, <1>8, <1>9, HeadsAfter

LEMMA RollBackHeads ==
  ASSUME IInv, NEW w \in Worker, RollBack(w), job[w].event # None \/ job[w].step # "idle", HeadsOK(w)
  PROVE  HeadsOK(w)'
  <1>1. TypeOK /\ UNCHANGED <<trip, point, mine>> /\ job[w].event \in batch[w].todo
    BY JobEvent DEF RollBack, committed, IInv
  <1>2. save'[w] = NoChange /\ job'[w] = NoJob /\ batch'[w].done = batch[w].done
    BY <1>1 DEF RollBack, TypeOK, Batches
  <1>3. HeadsKept(w)'
    <2>1. \A t \in Event : TripKept(w, t)' = TripKept(w, t) /\ PointsKept(w, t)' = PointsKept(w, t)
      BY <1>1 DEF TripKept, PointsKept, PointKept
    <2>. QED BY <2>1 DEF HeadsOK, HeadsKept
  <1>. QED BY <1>1, <1>2, <1>3, HeadsAfter DEF HeadsOK, HeadsWritten

(* A worker with nothing of its own sees the table.                        *)
LEMMA TableHeadsSeen ==
  ASSUME NEW w \in Worker, TableHeads', mine'[w] = NoChange, save'[w] = NoChange,
         job'[w] = NoJob, batch'[w].done = {}
  PROVE  HeadsOK(w)'
  <1>1. \A t \in Event : TripKept(w, t)' = trip'[t] /\ PointsKept(w, t)' = PointsOf(t)'
    BY NoChangeType DEF TripKept, PointsKept, PointKept, PointsOf
  <1>2. HeadsKept(w)'
    BY <1>1 DEF TableHeads, HeadsKept
  <1>. QED BY <1>2, HeadsAfter

(* A commit makes of the view of one worker the table.  The others have    *)
(* the lock on a trip, and it has put no point there, or see the table.    *)
LEMMA CommitHeads ==
  ASSUME IInv, Settled, NEW w \in Worker, Commit(w), TableHeads, \A u \in Worker : HeadsOK(u)
  PROVE  TableHeads' /\ \A u \in Worker : HeadsOK(u)'
  <1>1. /\ TypeOK /\ RowsOK(w) /\ batch[w].todo = {} /\ UNCHANGED <<job, save>>
        /\ \A t \in Event : trip'[t] = TripKept(w, t)
        /\ \A e \in Event : point'[e] = IF e \in batch[w].done THEN mine[w].point[e] ELSE point[e]
        /\ \A u \in Worker \ {w} : batch'[u] = batch[u] /\ mine'[u] = mine[u]
        /\ batch'[w] = NoBatch /\ mine'[w] = NoChange
    BY Committed DEF IInv, WorkerOK
  <1>2. /\ \A e \in Event : point'[e] = PointKept(w, e)
        /\ \A t \in Event : PointsOf(t)' = PointsKept(w, t)
    BY <1>1 DEF RowsOK, PointKept, PointsOf, PointsKept
  <1>3. TableHeads'
    BY <1>1, <1>2 DEF TableHeads, HeadsOK, HeadsKept
  <1>4. HeadsOK(w)'
    <2>1. save'[w] = NoChange /\ job'[w] = NoJob
      BY <1>1, BetweenEvents
    <2>. QED BY <1>1, <1>3, <2>1, TableHeadsSeen DEF NoBatch
  <1>5. \A u \in Worker : \A e \in Event : e \in batch[u].done => point[e] = None
    BY DEF Settled, Claimed
  <1>6. ASSUME NEW u \in Worker \ {w} PROVE HeadsOK(u)'
    <2>1. HeadsOK(u) /\ HeadsOK(w) /\ RowsOK(u) /\ JobOK(u)
      BY DEF IInv, WorkerOK
    <2>2. \A e \in Event : ~(e \in batch[u].done /\ e \in batch[w].done)
      BY DEF IInv, Disjoint, Claimed
    <2>3. \A e \in Event : PointKept(u, e)' = IF e \in batch[w].done THEN mine[w].point[e]
                                              ELSE PointKept(u, e)
      BY <1>1, <2>1, <2>2 DEF PointKept, RowsOK
    <2>4. ASSUME NEW t \in Event, HoldsTrip(u, t)
          PROVE  /\ TripKept(u, t)' = TripKept(u, t) /\ TripSeen(u, t)' = TripSeen(u, t)
                 /\ PointsKept(u, t)' = PointsKept(u, t)
      <3>1. ~HoldsTrip(w, t)
        BY <2>4 DEF IInv, TripLocks
      <3>2. trip'[t] = trip[t]
        BY <1>1, <3>1 DEF HoldsTrip, TripKept
      <3>3. \A e \in Event : e \in batch[w].done => mine[w].point[e] # t
        BY <2>1, <3>1 DEF HoldsTrip, HeadsOK, HeadsWritten
      <3>4. \A e \in Event : e \in batch[w].done => PointKept(u, e) # t
        BY <1>5, <2>1, <2>2, PipelineAssumption DEF PointKept, RowsOK
      <3>. QED BY <1>1, <2>3, <3>2, <3>3, <3>4 DEF TripKept, TripSeen, PointsKept
    <2>5. ASSUME NEW t \in Event, ~HoldsTrip(u, t)
          PROVE  /\ TripKept(u, t)' = trip'[t] /\ TripSeen(u, t)' = trip'[t]
                 /\ PointsKept(u, t)' = PointsOf(t)'
      <3>1. TripKept(u, t)' = trip'[t] /\ TripSeen(u, t)' = trip'[t]
        BY <1>1, <2>5 DEF HoldsTrip, TripKept, TripSeen
      <3>2. \A e \in Event : e \in batch[u].done => mine[u].point[e] # t
        BY <2>1, <2>5 DEF HoldsTrip, HeadsOK, HeadsWritten
      <3>3. \A e \in Event : e \in batch[u].done => point'[e] = None
        BY <1>1, <1>5, <2>2
      <3>4. \A e \in Event : mine'[u].point[e] # None <=> e \in batch[u].done
        BY <1>1, <2>1 DEF RowsOK
      <3>5. \A e \in Event : PointKept(u, e)' = t <=> point'[e] = t
        BY <1>1, <3>2, <3>3, <3>4, PipelineAssumption DEF PointKept
      <3>. QED BY <3>1, <3>5 DEF PointsKept, PointsOf
    <2>6. ASSUME NEW t \in Event
          PROVE  HeadOf(TripKept(u, t)', PointsKept(u, t)') /\ HeadOf(TripSeen(u, t)', PointsSeen(u, t)')
      <3>1. PointsSeen(u, t)' = PointsKept(u, t)'
              \cup {e \in Event : e = job[u].event /\ job[u].step = "rules" /\ job[u].trip = t}
        BY <1>1 DEF PointsSeen
      <3>2. CASE HoldsTrip(u, t)
        <4>1. PointsSeen(u, t)' = PointsSeen(u, t)
          BY <2>4, <3>1, <3>2 DEF PointsSeen
        <4>. QED BY <2>1, <2>4, <3>2, <4>1 DEF HeadsOK, HeadsKept, HeadsSeen
      <3>3. CASE ~HoldsTrip(u, t)
        <4>1. ~(job[u].step = "rules" /\ job[u].trip = t)
          BY <2>1, <3>3 DEF HoldsTrip, HeadsOK, HeadsWritten
        <4>2. PointsSeen(u, t)' = PointsOf(t)'
          BY <2>5, <3>1, <3>3, <4>1
        <4>3. HeadOf(trip'[t], PointsOf(t)')
          BY <1>3 DEF TableHeads, PointsOf
        <4>. QED BY <2>5, <3>3, <4>2, <4>3
      <3>. QED BY <3>2, <3>3
    <2>7. HeadsKept(u)' /\ HeadsSeen(u)'
      BY <2>6 DEF HeadsKept, HeadsSeen
    <2>8. HeadsWritten(u)'
      BY <1>1, <2>1 DEF HeadsOK, HeadsWritten
    <2>9. BaseRead(u)'
      <3>. SUFFICES ASSUME job[u].step \in {"close", "head"}
                    PROVE  BaseRead(u)'
        BY <1>1 DEF BaseRead
      <3>1. PICK t \in Event : t = job[u].trip
        BY <2>1 DEF JobOK
      <3>2. PICK P, Q : P = PointsKept(u, t) /\ Q = PointsKept(u, t)'
        OBVIOUS
      <3>3. P \subseteq Q
        <4>1. \A e \in Event : PointKept(u, e) = t => e \notin batch[w].done
          BY <1>5, <2>1, <2>2, PipelineAssumption DEF PointKept, RowsOK
        <4>. QED BY <2>3, <3>2, <4>1 DEF PointsKept
      <3>4. Q \in SUBSET Event /\ IsFiniteSet(Q)
        BY <3>2, PointsFinite DEF PointsKept
      <3>5. Cardinality(P) <= Cardinality(Q) /\ Cardinality(P) \in Nat /\ Cardinality(Q) \in Nat
        BY <3>3, <3>4, FS_Subset, FS_CardinalityType
      <3>6. job[u].base.points \in 1..Cardinality(P)
        BY <2>1, <3>1, <3>2 DEF HeadsOK, BaseRead
      <3>7. job[u].base.points \in 1..Cardinality(Q)
        BY <3>5, <3>6
      <3>8. PointsKept(u, job[u].trip)' = Q
        BY <1>1, <3>1, <3>2 DEF PointsKept, PointKept
      <3>. QED BY <1>1, <3>7, <3>8 DEF BaseRead
    <2>. QED BY <2>7, <2>8, <2>9 DEF HeadsOK
  <1>. QED BY <1>3, <1>4, <1>6

(* A tick of the scheduler writes the status of trips nobody else has.     *)
LEMMA TickHeads ==
  ASSUME IInv, CommitTick, TableHeads, \A u \in Worker : HeadsOK(u)
  PROVE  TableHeads' /\ \A u \in Worker : HeadsOK(u)'
  <1>1. TypeOK /\ UNCHANGED <<point, batch, job, mine, save>>
    BY DEF IInv, CommitTick
  <1>2. \A t \in Event : t \notin tick => trip'[t] = trip[t]
    BY DEF CommitTick
  <1>3. ASSUME NEW t \in Event, t \in tick
        PROVE  /\ trip[t] # NoRow /\ trip'[t] # NoRow
               /\ trip'[t].points = trip[t].points /\ trip'[t].raced = trip[t].raced
               /\ trip'[t].lastAt = trip[t].lastAt /\ trip'[t].late = trip[t].late
    <2>1. trip[t] \in TripRow /\ trip[t].status = "active" /\ trip'[t] = [trip[t] EXCEPT !.status = "stale"]
      BY <1>1, <1>3 DEF TypeOK, IInv, TablesOK, CommitTick
    <2>2. trip'[t].status = "stale"
      BY <2>1 DEF TripRow
    <2>. QED BY <2>1, <2>2 DEF TripRow, NoRow
  <1>4. ASSUME NEW t \in Event, NEW P, HeadOf(trip[t], P)
        PROVE  HeadOf(trip'[t], P)
    <2>1. CASE t \in tick
      BY <1>3, <1>4, <2>1, SameHead DEF HeadOf
    <2>2. CASE t \notin tick
      BY <1>2, <1>4, <2>2
    <2>. QED BY <2>1, <2>2
  <1>5. TableHeads'
    <2>1. \A t \in Event : PointsOf(t)' = PointsOf(t)
      BY <1>1 DEF PointsOf
    <2>. QED BY <1>4, <2>1 DEF TableHeads
  <1>6. ASSUME NEW u \in Worker PROVE HeadsOK(u)'
    <2>1. \A t \in Event : PointsKept(u, t)' = PointsKept(u, t) /\ PointsSeen(u, t)' = PointsSeen(u, t)
      BY <1>1 DEF PointsKept, PointsSeen, PointKept
    <2>2. ASSUME NEW t \in Event
          PROVE  /\ HeadOf(TripKept(u, t)', PointsKept(u, t))
                 /\ HeadOf(TripSeen(u, t)', PointsSeen(u, t))
      <3>1. HeadOf(TripKept(u, t), PointsKept(u, t)) /\ HeadOf(TripSeen(u, t), PointsSeen(u, t))
        BY DEF HeadsOK, HeadsKept, HeadsSeen
      <3>2. /\ TripKept(u, t)' = IF TripKept(u, t) = mine[u].trip[t] /\ mine[u].trip[t] # NoRow
                                 THEN TripKept(u, t) ELSE trip'[t]
            /\ mine[u].trip[t] = NoRow => TripKept(u, t) = trip[t]
        BY <1>1 DEF TripKept
      <3>3. /\ HoldsTrip(u, t) => TripSeen(u, t)' = TripSeen(u, t)
            /\ ~HoldsTrip(u, t) => TripSeen(u, t)' = trip'[t] /\ TripSeen(u, t) = trip[t]
        BY <1>1 DEF TripSeen, HoldsTrip
      <3>4. mine[u].trip[t] # NoRow => TripKept(u, t)' = TripKept(u, t)
        BY <1>1 DEF TripKept
      <3>5. HeadOf(TripKept(u, t)', PointsKept(u, t))
        BY <1>4, <3>1, <3>2, <3>4
      <3>6. HeadOf(TripSeen(u, t)', PointsSeen(u, t))
        BY <1>4, <3>1, <3>3
      <3>. QED BY <3>5, <3>6
    <2>3. HeadsKept(u)' /\ HeadsSeen(u)'
      BY <2>1, <2>2 DEF HeadsKept, HeadsSeen
    <2>4. PointsKept(u, job[u].trip)' = PointsKept(u, job[u].trip)
      BY <1>1 DEF PointsKept, PointKept
    <2>5. HeadsWritten(u)' /\ BaseRead(u)'
      BY <1>1, <2>4 DEF HeadsOK, HeadsWritten, BaseRead
    <2>. QED BY <2>3, <2>5 DEF HeadsOK
  <1>. QED BY <1>5, <1>6

(* A step of one worker that is no commit is nothing to the others.        *)
LEMMA OthersHeads ==
  ASSUME NEW w \in Worker, UNCHANGED <<trip, point>>, TableHeads,
         \A u \in Worker : HeadsOK(u), HeadsOK(w)',
         \A u \in Worker \ {w} : /\ batch'[u] = batch[u] /\ job'[u] = job[u]
                                 /\ mine'[u] = mine[u] /\ save'[u] = save[u]
  PROVE  TableHeads' /\ \A u \in Worker : HeadsOK(u)'
  <1>1. TableHeads'
    BY DEF TableHeads, PointsOf
  <1>2. ASSUME NEW u \in Worker \ {w} PROVE HeadsOK(u)'
    BY HeadsSame
  <1>. QED BY <1>1, <1>2

LEMMA WorkerHeads ==
  ASSUME IInv, Settled, NEW w \in Worker, Work(w) \/ Fail(w) \/ Abort(w),
         TableHeads, \A u \in Worker : HeadsOK(u)
  PROVE  TableHeads' /\ \A u \in Worker : HeadsOK(u)'
  <1>1. TypeOK
    BY DEF IInv
  <1>2. CASE Commit(w)
    BY <1>2, CommitHeads
  <1>3. ASSUME ~Commit(w)
        PROVE  /\ UNCHANGED <<trip, point>>
               /\ \A u \in Worker \ {w} : /\ batch'[u] = batch[u] /\ job'[u] = job[u]
                                          /\ mine'[u] = mine[u] /\ save'[u] = save[u]
    BY <1>1, <1>3 DEF Work, Claim, OpenTrip, ReadTrip, Close, UpdateHead, PersistRule, Release,
           BreakDeadlock, RollBack, Fail, Abort, committed, TypeOK
  <1>4. ASSUME HeadsOK(w)'
        PROVE  TableHeads' /\ \A u \in Worker : HeadsOK(u)'
    BY <1>2, <1>3, <1>4, OthersHeads
  <1>5. CASE Claim(w)
    <2>1. batch'[w].done = batch[w].done /\ UNCHANGED <<trip, point, mine, save, job>>
      BY <1>1, <1>5 DEF Claim, Claimed, TypeOK, NoBatch, committed
    <2>2. HeadsOK(w)'
      BY <2>1, HeadsSame
    <2>. QED BY <1>4, <2>2
  <1>6. CASE OpenTrip(w) \/ ReadTrip(w) \/ Close(w) \/ UpdateHead(w) \/ Release(w)
    BY <1>4, <1>6, OpenTripHeads, ReadTripHeads, CloseHeads, UpdateHeadHeads, ReleaseHeads
  <1>7. CASE PersistRule(w)
    <2>1. UNCHANGED <<trip, point, batch, mine>>
      BY <1>7 DEF PersistRule, committed
    <2>2. save'[w].trip = save[w].trip
      BY <1>1, <1>7 DEF PersistRule, TypeOK, Changes
    <2>3. /\ job'[w].event = job[w].event /\ job'[w].step = job[w].step
          /\ job'[w].trip = job[w].trip /\ job'[w].base = job[w].base
      <3>1. PICK r \in Rule : job' = [job EXCEPT ![w].rules = @ \ {r}]
        BY <1>7 DEF PersistRule
      <3>. QED BY <1>1, <3>1 DEF TypeOK, Jobs
    <2>4. HeadsOK(w)'
      BY <2>1, <2>2, <2>3, HeadsSame
    <2>. QED BY <1>4, <2>4
  <1>8. CASE RollBack(w) /\ (job[w].event # None \/ job[w].step # "idle")
    BY <1>4, <1>8, RollBackHeads
  <1>9. CASE Abort(w)
    <2>1. /\ mine'[w] = NoChange /\ save'[w] = NoChange /\ UNCHANGED <<trip, point>>
          /\ job'[w] = NoJob /\ batch'[w].done = {}
      BY <1>1, <1>9 DEF Abort, TypeOK, NoBatch, committed
    <2>2. TableHeads'
      BY <2>1 DEF TableHeads, PointsOf
    <2>3. HeadsOK(w)'
      BY <2>1, <2>2, TableHeadsSeen
    <2>. QED BY <1>4, <2>3
  <1>. QED BY <1>2, <1>5, <1>6, <1>7, <1>8, <1>9
         DEF Work, Fail, BreakDeadlock, InDeadlock, WaitsFor

LEMMA OutsideHeads ==
  ASSUME IInv, \/ \E e \in Event : Accept(e) \/ MarkStale(e)
               \/ FailTick \/ Clock \/ UNCHANGED vars,
         TableHeads, \A u \in Worker : HeadsOK(u)
  PROVE  TableHeads' /\ \A u \in Worker : HeadsOK(u)'
  <1>1. UNCHANGED <<trip, point, batch, job, mine, save>>
    BY DEF Accept, MarkStale, FailTick, Clock, vars, committed
  <1>2. TableHeads'
    BY <1>1 DEF TableHeads, PointsOf
  <1>3. ASSUME NEW u \in Worker PROVE HeadsOK(u)'
    BY <1>1, HeadsSame
  <1>. QED BY <1>2, <1>3

LEMMA InitHeads ==
  ASSUME Init
  PROVE  TableHeads /\ \A u \in Worker : HeadsOK(u)
  <1>1. \A t \in Event : trip[t] = NoRow /\ PointsOf(t) = {}
    BY PipelineAssumption DEF Init, PointsOf
  <1>2. ASSUME NEW w \in Worker PROVE HeadsOK(w)
    <2>1. mine[w] = NoChange /\ save[w] = NoChange /\ job[w] = NoJob /\ batch[w].done = {}
          /\ \A e \in Event : point[e] = None
      BY <1>2 DEF Init, NoBatch
    <2>2. \A t \in Event : /\ TripKept(w, t) = NoRow /\ TripSeen(w, t) = NoRow
                           /\ PointsKept(w, t) = {} /\ PointsSeen(w, t) = {}
      BY <1>1, <2>1, NoChangeType, PipelineAssumption
         DEF TripKept, TripSeen, PointsKept, PointsSeen, PointKept, NoJob
    <2>. QED BY <2>1, <2>2 DEF HeadsOK, HeadsKept, HeadsSeen, HeadsWritten, BaseRead, HeadOf, NoJob
  <1>. QED BY <1>1, <1>2 DEF TableHeads, HeadOf

LEMMA SettledNext ==
  /\ Init => Settled
  /\ IInv /\ Settled /\ [Next]_vars => Settled'
  <1>1. Init => Settled
    BY DEF Init, Settled, Claimed, NoBatch
  <1>. QED BY <1>1, CommitSettles, BatchSteps, OutsideSteps, AcceptPublishes DEF Next

(* The head of a trip tells of the points of the trip: no column counts a  *)
(* point that is not there, or a time no point has, although heads are     *)
(* computed from rows that others may have written since they were read;   *)
(* and points are missing only where that was so.                          *)
THEOREM HeadsMatchPoints == Spec => []HeadMatchesPoints
  <1> DEFINE Heads == Settled /\ TableHeads /\ \A w \in Worker : HeadsOK(w)
  <1>1. Init => Heads
    BY InitHeads, SettledNext
  <1>2. IInv /\ Heads /\ [Next]_vars => Heads'
    <2> SUFFICES ASSUME IInv, Heads, [Next]_vars PROVE Heads'
      OBVIOUS
    <2>1. Settled'
      BY SettledNext
    <2>2. CASE \/ \E e \in Event : Accept(e) \/ MarkStale(e)
               \/ FailTick \/ Clock \/ UNCHANGED vars
      BY <2>1, <2>2, OutsideHeads
    <2>3. CASE CommitTick
      BY <2>1, <2>3, TickHeads
    <2>4. ASSUME NEW w \in Worker, Work(w) \/ Fail(w) \/ Abort(w) PROVE Heads'
      BY <2>1, <2>4, WorkerHeads
    <2>. QED BY <2>2, <2>3, <2>4 DEF Next
  <1>3. Heads => HeadMatchesPoints
    BY DEF TableHeads, HeadOf, Describes, HeadMatchesPoints, NoRow
  <1>. HIDE DEF Heads
  <1>. QED BY <1>1, <1>2, <1>3, Invariance, PTL DEF Spec
=============================================================================
