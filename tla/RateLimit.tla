------------------------------ MODULE RateLimit ------------------------------
(***************************************************************************)
(* The rate limiter (domain/ratelimit.py, infrastructure/ratelimit.py):    *)
(* counters of fixed windows, and a decision that weighs the window before *)
(* by the share of it that the sliding interval still covers.              *)
(*                                                                         *)
(* A hit on Redis reads the clock, and so its window, before it waits for  *)
(* the transaction that counts it: others go first, and the window may end *)
(* meanwhile.  The in-memory limiter never waits, as nothing does while it *)
(* holds its lock.  Time is in whole units here and the fractions of the   *)
(* estimate are multiplied out.                                            *)
(***************************************************************************)
EXTENDS Requests, FiniteSetsExt

CONSTANTS
  Scope,       (* Keys: what is limited, and for whom. *)
  Window,      (* window_seconds of each. *)
  Limit,
  MaxTracked,  (* _MAX_TRACKED_KEYS, small. *)
  MaxTime      (* Bound: instants in a behaviour. *)

ASSUME RateLimitAssumption ==
  /\ Window \in [Scope -> Nat \ {0}]
  /\ Limit \in [Scope -> Nat]
  /\ MaxTracked \in Nat /\ MaxTime \in Nat

VARIABLES
  now,
  backend,   (* Which limiter is built: "redis" or "memory". *)
  up,        (* Redis can be reached. *)
  counter,   (* Hits of each key and window; 0 is no counter. *)
  expiry,    (* When Redis forgets a counter. *)
  passed,    (* History: the hits allowed, by key and the instant they read. *)
  crossed,   (* History: hits counted when the window they read had ended. *)
  excused    (* History: keys that an outage or a prune has let through, or *)
             (* of which a hit came a whole window late. *)

rateVars == <<now, backend, up, counter, expiry, passed, crossed, excused>>

Instant == 0..MaxTime

WindowIndex(s, t) == t \div Window[s]

(* Counters of every key and window index, window 0 being that of time 0.   *)
Slot == Scope \X (-1..MaxTime)

RateInit ==
  /\ now = 0
  /\ backend \in {"redis", "memory"}
  /\ up = TRUE
  /\ counter = [k \in Slot |-> 0]
  /\ expiry = [k \in Slot |-> 0]
  /\ passed = [s \in Scope |-> [t \in Instant |-> 0]]
  /\ crossed = [k \in Slot |-> 0]
  /\ excused = {}

(* The counters that a hit of instant t looks at.                           *)
Current(s, t) == <<s, WindowIndex(s, t)>>
Previous(s, t) == <<s, WindowIndex(s, t) - 1>>

(* sliding_estimate, times the length of the window.                        *)
SlidingEstimate(s, t, current, previous) ==
  current * Window[s] + previous * (Window[s] - (t % Window[s]))

(* A plain fixed window.                                                    *)
DecideFixed(s, t, current, previous) == current <= Limit[s]

Decide(s, t, current, previous) ==
  SlidingEstimate(s, t, current, previous) <= Limit[s] * Window[s]

(* The hit is counted whether or not it is allowed.                         *)
WithHit(tracked, s, t) == [tracked EXCEPT ![Current(s, t)] = @ + 1]

Answer(s, t, tracked) ==
  passed' = IF Decide(s, t, tracked[Current(s, t)], tracked[Previous(s, t)])
              THEN [passed EXCEPT ![s][t] = @ + 1] ELSE passed

HitRedis(p, s) ==
  /\ backend = "redis"
  /\ Begin(p, "hit", [op |-> "hit", key |-> s, time |-> now])
  /\ UNCHANGED rateVars

(* Windows that have ended since a hit of instant t read the clock.         *)
Behind(s, t) == WindowIndex(s, now) - WindowIndex(s, t)

(* The transaction.  The counter is kept for two windows and a unit from    *)
(* its first hit on.                                                        *)
CountInRedis(s, t) ==
  /\ counter' = WithHit(counter, s, t)
  /\ Answer(s, t, WithHit(counter, s, t))
  /\ expiry' = IF counter[Current(s, t)] = 0
                 THEN [expiry EXCEPT ![Current(s, t)] = now + 2 * Window[s] + 1]
                 ELSE expiry
  /\ crossed' = IF Behind(s, t) = 0 THEN crossed
                  ELSE [crossed EXCEPT ![Current(s, t)] = @ + 1]
  /\ excused' = IF Behind(s, t) > 1 THEN excused \cup {s} ELSE excused

CountHit(p) ==
  /\ call[p].op = "hit"
  /\ up
  /\ CountInRedis(call[p].key, call[p].time)
  /\ Return(p)
  /\ UNCHANGED <<now, backend, up>>

(* The limiter fails open.                                                  *)
HitUnavailable(p) ==
  /\ call[p].op = "hit"
  /\ ~up
  /\ passed' = [passed EXCEPT ![call[p].key][call[p].time] = @ + 1]
  /\ excused' = excused \cup {call[p].key}
  /\ Return(p)
  /\ UNCHANGED <<now, backend, up, counter, expiry, crossed>>

Tracked == {k \in Slot : counter[k] > 0}

(* Counters of windows before the last one of the key that is hit; those of *)
(* other keys are compared with the same index, whatever their windows.     *)
Pruned(s) ==
  IF Cardinality(Tracked) > MaxTracked
    THEN {k \in Tracked : k[2] < WindowIndex(s, now) - 1} ELSE {}

(* A counter that a decision to come will still look at.                    *)
Counts(k) == k[2] >= WindowIndex(k[1], now) - 1

HitMemory(s) ==
  /\ backend = "memory"
  /\ LET gone == Pruned(s)
         tracked == WithHit([k \in Slot |-> IF k \in gone THEN 0 ELSE counter[k]], s, now)
     IN /\ counter' = tracked /\ Answer(s, now, tracked)
        /\ excused' = excused \cup {k[1] : k \in {x \in gone : Counts(x)}}
  /\ AtOnce("hit")
  /\ UNCHANGED <<now, backend, up, expiry, crossed>>

(* Redis cannot be reached, and may have lost what it held.                 *)
Outage(forgets) ==
  /\ backend = "redis" /\ up
  /\ up' = FALSE
  /\ counter' = IF forgets THEN [k \in Slot |-> 0] ELSE counter
  /\ excused' = IF forgets THEN Scope ELSE excused
  /\ AtOnce("outage")
  /\ UNCHANGED <<now, backend, expiry, passed, crossed>>

Recovery ==
  /\ ~up
  /\ up' = TRUE
  /\ UNCHANGED <<requestVars, now, backend, counter, expiry, passed, crossed, excused>>

TimePasses ==
  /\ now < MaxTime
  /\ now' = now + 1
  /\ counter' = [k \in Slot |-> IF backend = "redis" /\ expiry[k] <= now + 1
                                  THEN 0 ELSE counter[k]]
  /\ AtOnce("time")
  /\ UNCHANGED <<backend, up, expiry, passed, crossed, excused>>

RateStep ==
  \/ \E p \in Process : \/ \E s \in Scope : HitRedis(p, s)
                        \/ CountHit(p) \/ HitUnavailable(p)
  \/ \E s \in Scope : HitMemory(s)
  \/ \E forgets \in BOOLEAN : Outage(forgets)
  \/ Recovery \/ TimePasses

-----------------------------------------------------------------------------
RateTypeOK ==
  /\ now \in Instant
  /\ backend \in {"redis", "memory"} /\ up \in BOOLEAN
  /\ counter \in [Slot -> Nat] /\ expiry \in [Slot -> Nat]
  /\ passed \in [Scope -> [Instant -> Nat]]
  /\ crossed \in [Slot -> Nat]
  /\ \A p \in Doing("hit") : call[p].key \in Scope /\ call[p].time \in 0..now
  /\ excused \subseteq Scope

PassedIn(s, first, last) ==
  MapThenSumSet(LAMBDA t : passed[s][t], first..last)

(* How far a burst at the boundary of two windows can go, which a plain     *)
(* fixed window would let reach twice the limit at once                     *)
(* (domain/ratelimit.py:7): in an interval shorter than the window, however *)
(* the hits are spread, overtake one another and whichever were refused, no *)
(* more pass than the limit, the share of it that the new window has run    *)
(* for, and the hits that were counted when their window had ended.         *)
BurstBounded ==
  \A s \in Scope \ excused : \A last \in 0..now :
    \A first \in {t \in 0..last : last - t < Window[s]} :
      PassedIn(s, first, last) <=
        IF WindowIndex(s, first) = WindowIndex(s, last) THEN Limit[s]
        ELSE Limit[s] + (Limit[s] * (last % Window[s])) \div Window[s]
               + crossed[Previous(s, last)] + crossed[Current(s, last)]
=============================================================================
