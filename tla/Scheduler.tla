------------------------------ MODULE Scheduler ------------------------------
(***************************************************************************)
(* The scheduler (scheduler/runner.py): replicas that tick, the partitions *)
(* of telemetry_points they make, and the hourly maintenance: the purge of *)
(* telemetry past its retention and the daily usage records                *)
(* (application/saas/usage.py).                                            *)
(*                                                                         *)
(* A tick is one transaction that holds an advisory lock from its first    *)
(* statement to its end.  The maintenance runs in transactions of its own, *)
(* on other connections, while that one stays open: if its connection is   *)
(* lost the lock is free and the maintenance goes on.  CREATE TABLE ...    *)
(* PARTITION OF locks telemetry_points against everybody until the commit. *)
(*                                                                         *)
(* What a tick does to trips is in TripPipeline, the rest of the purge in  *)
(* Evidence and PrivacyRequests, the end of trials in Accounts.            *)
(***************************************************************************)
EXTENDS Requests

CONSTANTS
  Org,          (* Organizations. *)
  DaysPerMonth,
  PlanDays,     (* retention_days of the plan of each organization. *)
  MinRetention, (* MIN_RETENTION_DAYS, small. *)
  MaxDay,       (* Bound: days in a behaviour. *)
  MaxPoints     (* Bound: points of an organization in a day. *)

ASSUME SchedulerAssumption ==
  /\ DaysPerMonth \in Nat \ {0}
  /\ MinRetention \in Nat \ {0}
  /\ PlanDays \in [Org -> Nat]
  /\ \A o \in Org : PlanDays[o] >= MinRetention
  /\ MaxDay \in Nat \ {0} /\ MaxPoints \in Nat

VARIABLES
  day,        (* The UTC day; day 0 is the one before the start. *)
  partition,  (* Months with a partition of telemetry_points, committed. *)
  due,        (* Replicas for which an hour has passed since maintenance. *)
  telemetry,  (* Points of each organization, by the day they occurred. *)
  retention,  (* telemetry_days of each organization's settings; 0: not set. *)
  usage,      (* usage_records of telemetry_points; -1: no record. *)
  erased      (* History: days whose points were erased with a driver. *)

schedulerVars == <<day, partition, due, telemetry, retention, usage, erased>>

Day == 0..MaxDay

Month(d) == d \div DaysPerMonth

UsageRecord == Nat \cup {-1}

(* _PARTITION_MONTHS_AHEAD, the present month among them.                   *)
MonthsAhead == 3

(* The migration makes those of the month before it to two months ahead.    *)
FirstPartitions == -1..2

SchedulerInit ==
  /\ day = 1
  /\ partition = FirstPartitions
  /\ due = Process
  /\ telemetry = [o \in Org |-> [d \in Day |-> 0]]
  /\ retention = [o \in Org |-> 0]
  /\ usage = [o \in Org |-> [d \in Day |-> -1]]
  /\ erased = {}

Ticking(p) == call[p].op = "tick"

At(p, step) == Ticking(p) /\ call[p].step = step

(* The tick's own session is open.                                          *)
SessionOpen(p) == Ticking(p) /\ call[p].alive

(* telemetry_points is locked by a tick that has made a partition of it.    *)
TableLocked == \E p \in Process : SessionOpen(p) /\ call[p].made # {}

(* A transaction that has read the table has not ended.                     *)
TableInUse == \E p \in Process : At(p, "write")

-----------------------------------------------------------------------------
(* The tick *)

(* With every replica let in.                                               *)
TryLockNever(p) == TRUE

(* pg_try_advisory_xact_lock.                                               *)
TryLock(p) == \A q \in Process : ~SessionOpen(q)

(* beside: a tick that lost its session is still at work.  A replica that   *)
(* does not get the lock skips its tick.                                    *)
StartTick(p) ==
  /\ TryLock(p)
  /\ Begin(p, "tick", [op |-> "tick", step |-> "partitions", alive |-> TRUE,
                       made |-> {}, now |-> day, target |-> day, todo |-> {},
                       org |-> {}, read |-> 0,
                       beside |-> \E q \in Process : Ticking(q)])
  /\ UNCHANGED schedulerVars

Wanted == {Month(day) + n : n \in 0..(MonthsAhead - 1)}

(* The partitions that are missing, then either the maintenance, for the    *)
(* organizations there are, or the commit.                                  *)
EnsurePartitions(p) ==
  /\ At(p, "partitions") /\ SessionOpen(p)
  /\ Wanted \subseteq partition \/ ~(TableInUse \/ TableLocked)
  /\ Continue(p, [call[p] EXCEPT
              !.made = Wanted \ partition, !.now = day, !.todo = Org,
              !.step = IF p \in due THEN "purge" ELSE "commit"])
  /\ UNCHANGED schedulerVars

(* The first statement on a lost session is an error.                       *)
NoticeLoss(p) ==
  /\ At(p, "partitions") /\ ~SessionOpen(p)
  /\ Return(p)
  /\ UNCHANGED schedulerVars

FinishTick(p) ==
  /\ At(p, "commit")
  /\ partition' = IF SessionOpen(p) THEN partition \cup call[p].made ELSE partition
  /\ Return(p)
  /\ UNCHANGED <<day, due, telemetry, retention, usage, erased>>

-----------------------------------------------------------------------------
(* Maintenance *)

(* Within what the plan keeps, and not less than the minimum.               *)
ValidRetention(o) == MinRetention..PlanDays[o]

(* An organization sets how long its points are kept, or takes it back.     *)
UpdateRetention(o, n) ==
  /\ n = 0 \/ n \in ValidRetention(o)
  /\ retention' = [retention EXCEPT ![o] = n]
  /\ AtOnce("point")
  /\ UNCHANGED <<day, partition, due, telemetry, usage, erased>>

(* resolve_retention                                                        *)
TelemetryDays(o) == IF retention[o] = 0 THEN PlanDays[o] ELSE retention[o]

(* Days whose points are older than the policy keeps them.                  *)
Expired(o, now) == {d \in Day : d < now - TelemetryDays(o)}

(* purge_expired goes on to the next organization, or the snapshots begin.  *)
AfterPurge(c, left) ==
  IF left # {} THEN [c EXCEPT !.todo = left]
  ELSE [c EXCEPT !.step = "read", !.todo = Org, !.target = c.now - 1]

(* One organization after another, in transactions of a batch each; what    *)
(* the bound on batches leaves is there for the next purge.                 *)
Purge(p, o, gone) ==
  /\ At(p, "purge") /\ o \in call[p].todo
  /\ ~TableLocked
  /\ gone \subseteq Expired(o, call[p].now)
  /\ telemetry' = [telemetry EXCEPT ![o] =
                     [d \in Day |-> IF d \in gone THEN 0 ELSE @[d]]]
  /\ Continue(p, AfterPurge(call[p], call[p].todo \ {o}))
  /\ UNCHANGED <<day, partition, due, retention, usage, erased>>

Activity(o, d) == telemetry[o][d]

(* snapshot_day of yesterday and then of today, one transaction for each    *)
(* organization: count, then write.                                         *)
CountUsage(p, o) ==
  /\ At(p, "read") /\ o \in call[p].todo
  /\ ~TableLocked
  /\ Continue(p, [call[p] EXCEPT !.step = "write", !.org = {o},
                           !.read = Activity(o, call[p].target)])
  /\ UNCHANGED schedulerVars

AfterSnapshot(c) ==
  LET left == c.todo \ c.org
      next == [c EXCEPT !.step = "read", !.todo = left, !.org = {}, !.read = 0]
  IN IF left # {} THEN next
     ELSE IF c.target < c.now THEN [next EXCEPT !.target = c.now, !.todo = Org]
     ELSE [next EXCEPT !.step = "commit"]

(* The upsert.  After the last one the replica counts the hour from here,   *)
(* whether or not its tick will commit.                                     *)
WriteUsage(p) ==
  /\ At(p, "write")
  /\ usage' = [o \in Org |->
                 IF o \in call[p].org THEN [usage[o] EXCEPT ![call[p].target] = call[p].read]
                                      ELSE usage[o]]
  /\ LET next == AfterSnapshot(call[p])
     IN /\ Continue(p, next)
        /\ due' = IF next.step = "commit" THEN due \ {p} ELSE due
  /\ UNCHANGED <<day, partition, telemetry, retention, erased>>

-----------------------------------------------------------------------------
(* What goes wrong, and what goes on meanwhile *)

(* The tick's session is lost; the replica finds out when it uses it again. *)
LoseConnection(p) ==
  /\ SessionOpen(p)
  /\ Continue(p, [call[p] EXCEPT !.alive = FALSE, !.made = {}])
  /\ UNCHANGED schedulerVars

(* An exception in any step: all that is not committed is rolled back, and  *)
(* the loop goes on.                                                        *)
FailTick(p) ==
  /\ Ticking(p)
  /\ Return(p)
  /\ UNCHANGED schedulerVars

(* A new process does not know when maintenance last ran.                   *)
Restart(p) ==
  /\ Ticking(p)
  /\ due' = due \cup {p}
  /\ Return(p)
  /\ UNCHANGED <<day, partition, telemetry, retention, usage, erased>>

(* _MAINTENANCE_INTERVAL.                                                   *)
HourPasses(p) ==
  /\ p \notin due /\ ~Ticking(p)
  /\ due' = due \cup {p}
  /\ UNCHANGED <<requestVars, day, partition, telemetry, retention, usage, erased>>

Midnight ==
  /\ day < MaxDay
  /\ day' = day + 1
  /\ Spend("day")
  /\ UNCHANGED <<call, partition, due, telemetry, retention, usage, erased>>

(* A worker stores a point, of today or late.                               *)
StorePoint(o, d) ==
  /\ ~TableLocked
  /\ d \in {day - 1, day} /\ telemetry[o][d] < MaxPoints
  /\ telemetry' = [telemetry EXCEPT ![o][d] = @ + 1]
  /\ AtOnce("point")
  /\ UNCHANGED <<day, partition, due, retention, usage, erased>>

(* A driver is erased with the points recorded of them.                     *)
EraseDriver(o, d) ==
  /\ ~TableLocked
  /\ telemetry[o][d] > 0
  /\ telemetry' = [telemetry EXCEPT ![o][d] = @ - 1]
  /\ erased' = erased \cup {<<o, d>>}
  /\ AtOnce("point")
  /\ UNCHANGED <<day, partition, due, retention, usage>>

(* What a tick does next by itself.                                         *)
TickStep(p) ==
  \/ EnsurePartitions(p) \/ NoticeLoss(p) \/ FinishTick(p) \/ WriteUsage(p)
  \/ \E o \in Org : CountUsage(p, o) \/ \E gone \in SUBSET Day : Purge(p, o, gone)

SchedulerStep ==
  \/ \E p \in Process : \/ StartTick(p) \/ TickStep(p) \/ HourPasses(p)
                        \/ LoseConnection(p) \/ FailTick(p) \/ Restart(p)
  \/ \E o \in Org, d \in Day : StorePoint(o, d) \/ EraseDriver(o, d)
  \/ \E o \in Org : \E n \in 0..PlanDays[o] : UpdateRetention(o, n)
  \/ Midnight

SchedulerSpec == /\ RequestsInit /\ SchedulerInit
                 /\ [][SchedulerStep]_<<requestVars, schedulerVars>>
                 /\ \A p \in Process : WF_<<requestVars, schedulerVars>>(TickStep(p))

-----------------------------------------------------------------------------
SchedulerTypeOK ==
  /\ day \in Day
  /\ partition \subseteq Int
  /\ due \subseteq Process
  /\ telemetry \in [Org -> [Day -> Nat]]
  /\ retention \in [Org -> Nat]
  /\ usage \in [Org -> [Day -> UsageRecord]]
  /\ erased \subseteq Org \X Day

(* Snapshots are recomputed every hour and the last one wins (saas/usage.py)*)
(* whichever replica takes it: the activity recorded for a day does not     *)
(* shrink, though a snapshot counts first and writes later and a purge runs *)
(* before each.  Only an erasure makes it smaller, or a tick that is at     *)
(* work beside another because one of the two has lost its session and the  *)
(* lock with it.                                                            *)
ActivityNeverShrinks ==
  [][\A o \in Org, d \in Day :
       usage'[o][d] < usage[o][d] =>
         \/ <<o, d>> \in erased
         \/ \E p \in Process : /\ At(p, "write")
                               /\ ~call[p].alive \/ call[p].beside]_<<call, usage>>

(* A tick that fails is followed by the next one ("A failed tick must not   *)
(* kill the loop; the next tick retries.", scheduler/runner.py:67), and a   *)
(* replica that works and keeps its session ends the tick it has begun.     *)
TicksEnd == \A p \in Process : Ticking(p) ~> ~Ticking(p)
=============================================================================
