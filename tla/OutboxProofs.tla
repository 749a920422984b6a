---------------------------- MODULE OutboxProofs ----------------------------
(***************************************************************************)
(* Proofs about the transactional outbox, for any events, workers, limits  *)
(* and number of aborts.  The inductive invariant IInv adds to the         *)
(* invariants of Outbox what an open transaction may have published: new   *)
(* events only, each of them caused by an event the same transaction has   *)
(* handled.  That two workers never publish the same event then follows    *)
(* from the disjointness of their claims.                                  *)
(***************************************************************************)
EXTENDS Outbox, TLAPS

(* What an open transaction has published exists nowhere else yet, and its *)
(* cause was handled by the same transaction.                              *)
BornIsNew ==
  \A w \in Worker : \A f \in txn[w].born :
    /\ f \in Event \ Source
    /\ row[f].status = "none"
    /\ Cause[f] \in txn[w].done

IInv ==
  /\ TypeOK
  /\ ClaimsDisjoint
  /\ EffectsExactlyOnce
  /\ FollowUpsHaveCause
  /\ GivenUpInTime
  /\ BornIsNew

-----------------------------------------------------------------------------
(* The backoff is a number of ticks.                                       *)
LEMMA BackoffType == ASSUME NEW n \in Nat PROVE BackoffFor(n) \in Nat
  <1> DEFINE raw == 2 ^ n
  <1>1. CASE raw \in 0..BackoffCap
    BY <1>1 DEF BackoffFor
  <1>2. CASE raw \notin 0..BackoffCap
    BY <1>2, OutboxAssumption DEF BackoffFor
  <1>. QED BY <1>1, <1>2

(* _mark_retry counts one attempt and gives up exactly at the limit.       *)
LEMMA RetriedEffect ==
  ASSUME TypeOK, GivenUpInTime, NEW e \in Event, row[e].status = "pending"
  PROVE  /\ Retried(row[e]) \in [status : Status, attempts : Nat, wait : Nat]
         /\ Retried(row[e]).status \in {"pending", "dead_letter"}
         /\ Retried(row[e]).attempts = row[e].attempts + 1
         /\ Retried(row[e]).attempts <= MaxAttempts
         /\ Retried(row[e]).status = "dead_letter" <=> Retried(row[e]).attempts = MaxAttempts
  <1> DEFINE n == row[e].attempts + 1
  <1>1. row[e].attempts \in Nat /\ row[e].wait \in Nat /\ MaxAttempts \in Nat
    BY OutboxAssumption DEF TypeOK
  <1>2. row[e].attempts < MaxAttempts
    BY <1>1 DEF GivenUpInTime
  <1>3. n \in Nat /\ n <= MaxAttempts /\ BackoffFor(n) \in Nat
    BY <1>1, <1>2, BackoffType
  <1>4. CASE n >= MaxAttempts
    <2>1. Retried(row[e]) = [status |-> "dead_letter", attempts |-> n, wait |-> row[e].wait]
      BY <1>4 DEF Retried
    <2>. QED BY <1>1, <1>3, <1>4, <2>1 DEF Status
  <1>5. CASE ~(n >= MaxAttempts)
    <2>1. Retried(row[e]) = [status |-> "pending", attempts |-> n, wait |-> BackoffFor(n)]
      BY <1>5 DEF Retried
    <2>. QED BY <1>1, <1>3, <1>5, <2>1 DEF Status
  <1>. QED BY <1>4, <1>5

(* A new event has its type.                                               *)
LEMMA NewType ==
  /\ New \in [status : Status, attempts : Nat, wait : Nat]
  /\ New.status = "pending" /\ New.attempts = 0 /\ New.wait = 0
  BY DEF New, Status

(* The row of every event once worker w has committed.                     *)
LEMMA CommittedEffect ==
  ASSUME IInv, NEW w \in Worker, NEW e \in Event
  PROVE  /\ Committed(w, e) \in [status : Status, attempts : Nat, wait : Nat]
         /\ e \in txn[w].done =>
              /\ Committed(w, e).status = "done"
              /\ Committed(w, e).attempts = row[e].attempts
         /\ e \in txn[w].failed => Committed(w, e) = Retried(row[e])
         /\ e \in txn[w].born => Committed(w, e) = New
         /\ e \notin txn[w].done \cup txn[w].failed \cup txn[w].born => Committed(w, e) = row[e]
  <1>1. row[e] \in [status : Status, attempts : Nat, wait : Nat]
    BY DEF IInv, TypeOK
  <1>2. /\ e \in txn[w].done => e \notin txn[w].failed /\ e \notin txn[w].born
        /\ e \in txn[w].failed => e \notin txn[w].born
        /\ e \in txn[w].failed => row[e].status = "pending"
    BY DEF IInv, ClaimsDisjoint, BornIsNew, Claimed
  <1>3. CASE e \in txn[w].done
    <2>1. Committed(w, e) = [row[e] EXCEPT !.status = "done"]
      BY <1>3 DEF Committed
    <2>. QED BY <1>1, <1>2, <1>3, <2>1 DEF Status
  <1>4. CASE e \in txn[w].failed
    <2>1. Committed(w, e) = Retried(row[e])
      BY <1>2, <1>4 DEF Committed
    <2>. QED BY <1>2, <1>4, <2>1, RetriedEffect DEF IInv
  <1>5. CASE e \in txn[w].born
    <2>1. Committed(w, e) = New
      BY <1>2, <1>5 DEF Committed
    <2>. QED BY <1>2, <1>5, <2>1, NewType
  <1>6. CASE e \notin txn[w].done \cup txn[w].failed \cup txn[w].born
    <2>1. Committed(w, e) = row[e]
      BY <1>6 DEF Committed
    <2>. QED BY <1>1, <1>6, <2>1
  <1>. QED BY <1>3, <1>4, <1>5, <1>6

-----------------------------------------------------------------------------
LEMMA PublishKeeps ==
  ASSUME IInv, NEW e \in Event, Publish(e)
  PROVE  IInv'
  <1>1. /\ e \in Source /\ row[e].status = "none"
        /\ row' = [row EXCEPT ![e] = New]
        /\ UNCHANGED <<txn, applied, aborts, requeues>>
    BY DEF Publish
  <1>2. TypeOK'
    BY <1>1, NewType DEF IInv, TypeOK
  <1>3. \A d \in Event : row'[d] = IF d = e THEN New ELSE row[d]
    BY <1>1 DEF IInv, TypeOK
  <1>4. ClaimsDisjoint'
    BY <1>1, <1>3, NewType DEF IInv, TypeOK, Txn, ClaimsDisjoint, Claimed
  <1>5. EffectsExactlyOnce'
    BY <1>1, <1>3, NewType DEF IInv, EffectsExactlyOnce
  <1>6. FollowUpsHaveCause'
    BY <1>1, <1>3, NewType, OutboxAssumption DEF IInv, FollowUpsHaveCause
  <1>7. GivenUpInTime'
    BY <1>1, <1>3, NewType, OutboxAssumption DEF IInv, GivenUpInTime
  <1>8. BornIsNew'
    BY <1>1, <1>3 DEF IInv, BornIsNew
  <1>. QED BY <1>2, <1>4, <1>5, <1>6, <1>7, <1>8 DEF IInv

LEMMA RequeueKeeps ==
  ASSUME IInv, NEW e \in Event, Requeue(e)
  PROVE  IInv'
  <1>1. /\ row[e].status = "dead_letter"
        /\ row' = [row EXCEPT ![e] = New]
        /\ requeues' = requeues + 1
        /\ UNCHANGED <<txn, applied, aborts>>
    BY DEF Requeue
  <1>2. TypeOK'
    BY <1>1, NewType DEF IInv, TypeOK
  <1>3. \A d \in Event : row'[d] = IF d = e THEN New ELSE row[d]
    BY <1>1 DEF IInv, TypeOK
  <1>4. ClaimsDisjoint'
    BY <1>1, <1>3, NewType DEF IInv, TypeOK, Txn, ClaimsDisjoint, Claimed
  <1>5. EffectsExactlyOnce'
    BY <1>1, <1>3, NewType DEF IInv, EffectsExactlyOnce
  <1>6. FollowUpsHaveCause'
    BY <1>1, <1>3, NewType, OutboxAssumption DEF IInv, FollowUpsHaveCause
  <1>7. GivenUpInTime'
    BY <1>1, <1>3, NewType, OutboxAssumption DEF IInv, GivenUpInTime
  <1>8. BornIsNew'
    BY <1>1, <1>3 DEF IInv, BornIsNew
  <1>. QED BY <1>2, <1>4, <1>5, <1>6, <1>7, <1>8 DEF IInv

(* Opening or abandoning a transaction leaves the table alone.             *)
LEMMA ClaimKeeps ==
  ASSUME IInv, NEW w \in Worker, Claim(w)
  PROVE  IInv'
  <1>1. PICK S \in SUBSET {e \in Event : Claimable(e)} : txn' = [txn EXCEPT ![w] = Begun(S)]
    BY DEF Claim
  <1>2. /\ UNCHANGED <<row, applied, aborts, requeues>>
        /\ Begun(S) = [todo |-> S, done |-> {}, failed |-> {}, born |-> {}]
        /\ S \subseteq Event
        /\ \A e \in S : row[e].status = "pending" /\ \A v \in Worker : e \notin Claimed(v)
    BY <1>1 DEF Claim, Begun, Claimable
  <1>3. \A v \in Worker : txn'[v] = IF v = w THEN Begun(S) ELSE txn[v]
    BY <1>1 DEF IInv, TypeOK
  <1>4. TypeOK'
    <2>1. Begun(S) \in Txn
      BY <1>2 DEF Txn
    <2>. QED BY <1>1, <1>2, <2>1 DEF IInv, TypeOK
  <1>5. \A v \in Worker : Claimed(v)' = IF v = w THEN S ELSE Claimed(v)
    BY <1>2, <1>3 DEF Claimed
  <1>6. ClaimsDisjoint'
    BY <1>2, <1>3, <1>5 DEF IInv, ClaimsDisjoint
  <1>7. BornIsNew'
    BY <1>2, <1>3 DEF IInv, BornIsNew
  <1>8. EffectsExactlyOnce' /\ FollowUpsHaveCause' /\ GivenUpInTime'
    BY <1>2 DEF IInv, EffectsExactlyOnce, FollowUpsHaveCause, GivenUpInTime
  <1>. QED BY <1>4, <1>6, <1>7, <1>8 DEF IInv

LEMMA AbortKeeps ==
  ASSUME IInv, NEW w \in Worker, Abort(w)
  PROVE  IInv'
  <1>1. /\ UNCHANGED <<row, applied, requeues>>
        /\ txn' = [txn EXCEPT ![w] = NoTxn]
        /\ aborts' = aborts + 1
        /\ NoTxn = [todo |-> {}, done |-> {}, failed |-> {}, born |-> {}]
    BY DEF Abort, NoTxn, Begun
  <1>2. \A v \in Worker : txn'[v] = IF v = w THEN NoTxn ELSE txn[v]
    BY <1>1 DEF IInv, TypeOK
  <1>3. TypeOK'
    BY <1>1 DEF IInv, TypeOK, Txn
  <1>4. \A v \in Worker : Claimed(v)' = IF v = w THEN {} ELSE Claimed(v)
    BY <1>1, <1>2 DEF Claimed
  <1>5. ClaimsDisjoint'
    BY <1>1, <1>2, <1>4 DEF IInv, ClaimsDisjoint
  <1>6. BornIsNew'
    BY <1>1, <1>2 DEF IInv, BornIsNew
  <1>7. EffectsExactlyOnce' /\ FollowUpsHaveCause' /\ GivenUpInTime'
    BY <1>1 DEF IInv, EffectsExactlyOnce, FollowUpsHaveCause, GivenUpInTime
  <1>. QED BY <1>3, <1>5, <1>6, <1>7 DEF IInv

(* One event of the batch is handled or fails: it stays claimed, and what  *)
(* a handled event published is new and caused by it.                      *)
LEMMA HandleKeeps ==
  ASSUME IInv, NEW w \in Worker, Handle(w)
  PROVE  IInv'
  <1>1. PICK e \in txn[w].todo : \E F \in SUBSET Publishable(e) :
          \/ txn' = [txn EXCEPT ![w] = Handled(txn[w], e, F)]
          \/ txn' = [txn EXCEPT ![w] = Failed(txn[w], e, F)]
    BY DEF Handle
  <1>2. PICK F \in SUBSET Publishable(e) :
          \/ txn' = [txn EXCEPT ![w] = Handled(txn[w], e, F)]
          \/ txn' = [txn EXCEPT ![w] = Failed(txn[w], e, F)]
    BY <1>1
  <1>3. /\ UNCHANGED <<row, applied, aborts, requeues>>
        /\ txn[w] \in Txn
        /\ e \in Event
        /\ \A f \in F : f \in Event \ Source /\ Cause[f] = e /\ row[f].status = "none"
    BY <1>2 DEF Handle, Publishable, IInv, TypeOK, Txn
  <1>4. PICK t : /\ t \in Txn
                 /\ txn' = [txn EXCEPT ![w] = t]
                 /\ t.todo = txn[w].todo \ {e}
                 /\ \/ /\ t.done = txn[w].done \cup {e}
                       /\ t.failed = txn[w].failed
                       /\ t.born = txn[w].born \cup F
                    \/ /\ t.done = txn[w].done
                       /\ t.failed = txn[w].failed \cup {e}
                       /\ t.born = txn[w].born
    <2>1. CASE txn' = [txn EXCEPT ![w] = Handled(txn[w], e, F)]
      <3> DEFINE u == [todo |-> txn[w].todo \ {e}, done |-> txn[w].done \cup {e},
                       failed |-> txn[w].failed, born |-> txn[w].born \cup F]
      <3>1. u \in Txn
        BY <1>3 DEF Txn
      <3>2. txn' = [txn EXCEPT ![w] = u]
        BY <2>1 DEF Handled
      <3>3. u.todo = txn[w].todo \ {e} /\ u.done = txn[w].done \cup {e} /\ u.failed = txn[w].failed /\ u.born = txn[w].born \cup F
        OBVIOUS
      <3> HIDE DEF u
      <3>. QED BY <3>1, <3>2, <3>3
    <2>2. CASE txn' = [txn EXCEPT ![w] = Failed(txn[w], e, F)]
      <3> DEFINE u == [todo |-> txn[w].todo \ {e}, done |-> txn[w].done,
                       failed |-> txn[w].failed \cup {e}, born |-> txn[w].born]
      <3>1. u \in Txn
        BY <1>3 DEF Txn
      <3>2. txn' = [txn EXCEPT ![w] = u]
        BY <2>2 DEF Failed
      <3>3. u.todo = txn[w].todo \ {e} /\ u.done = txn[w].done /\ u.failed = txn[w].failed \cup {e} /\ u.born = txn[w].born
        OBVIOUS
      <3> HIDE DEF u
      <3>. QED BY <3>1, <3>2, <3>3
    <2>. QED BY <1>2, <2>1, <2>2
  <1>5. \A v \in Worker : txn'[v] = IF v = w THEN t ELSE txn[v]
    BY <1>4 DEF IInv, TypeOK
  <1>6. TypeOK'
    BY <1>3, <1>4 DEF IInv, TypeOK
  <1>7. \A v \in Worker : Claimed(v)' = Claimed(v)
    BY <1>1, <1>4, <1>5 DEF Claimed
  <1>8. ClaimsDisjoint'
    BY <1>1, <1>3, <1>4, <1>5, <1>7 DEF IInv, ClaimsDisjoint
  <1>9. BornIsNew'
    BY <1>3, <1>4, <1>5 DEF IInv, BornIsNew
  <1>10. EffectsExactlyOnce' /\ FollowUpsHaveCause' /\ GivenUpInTime'
    BY <1>3 DEF IInv, EffectsExactlyOnce, FollowUpsHaveCause, GivenUpInTime
  <1>. QED BY <1>6, <1>8, <1>9, <1>10 DEF IInv

(* The commit of worker w, seen by every event and every other worker.     *)
LEMMA CommitEffect ==
  ASSUME IInv, NEW w \in Worker, Commit(w)
  PROVE  /\ txn[w].todo = {}
         /\ \A e \in Event : row'[e] = Committed(w, e)
         /\ \A e \in Event : applied'[e] = IF e \in txn[w].done THEN applied[e] + 1 ELSE applied[e]
         /\ \A v \in Worker : txn'[v] = IF v = w THEN NoTxn ELSE txn[v]
         /\ NoTxn = [todo |-> {}, done |-> {}, failed |-> {}, born |-> {}]
         /\ UNCHANGED <<aborts, requeues>>
         /\ TypeOK'
  <1>1. /\ txn[w].todo = {}
        /\ row' = [e \in Event |-> Committed(w, e)]
        /\ applied' = [e \in Event |-> IF e \in txn[w].done THEN applied[e] + 1 ELSE applied[e]]
        /\ txn' = [txn EXCEPT ![w] = NoTxn]
        /\ UNCHANGED <<aborts, requeues>>
    BY DEF Commit
  <1>2. NoTxn = [todo |-> {}, done |-> {}, failed |-> {}, born |-> {}]
    BY DEF NoTxn, Begun
  <1>3. NoTxn \in Txn
    BY <1>2 DEF Txn
  <1>4. \A e \in Event : Committed(w, e) \in [status : Status, attempts : Nat, wait : Nat]
    BY CommittedEffect
  <1>5. TypeOK'
    BY <1>1, <1>3, <1>4 DEF IInv, TypeOK
  <1>. QED BY <1>1, <1>2, <1>5 DEF IInv, TypeOK

LEMMA CommitKeeps ==
  ASSUME IInv, NEW w \in Worker, Commit(w)
  PROVE  IInv'
  <1>1. /\ TypeOK'
        /\ \A e \in Event : row'[e] = Committed(w, e)
        /\ \A e \in Event : applied'[e] = IF e \in txn[w].done THEN applied[e] + 1 ELSE applied[e]
        /\ \A v \in Worker : txn'[v] = IF v = w THEN NoTxn ELSE txn[v]
        /\ NoTxn = [todo |-> {}, done |-> {}, failed |-> {}, born |-> {}]
    BY CommitEffect
  <1>2. /\ \A v \in Worker : txn[v] \in Txn
        /\ \A e \in Event : applied[e] \in Nat
    BY DEF IInv, TypeOK
  <1>3. \A e \in txn[w].done \cup txn[w].failed : row[e].status = "pending"
    BY DEF IInv, ClaimsDisjoint, Claimed
  <1>4. \A v \in Worker : Claimed(v)' = IF v = w THEN {} ELSE Claimed(v)
    BY <1>1 DEF Claimed
  <1>5. \A v \in Worker \ {w} : \A e \in Claimed(v) :
          e \in Event /\ row'[e] = row[e] /\ row[e].status = "pending"
    <2> SUFFICES ASSUME NEW v \in Worker \ {w}, NEW e \in Claimed(v)
                 PROVE  e \in Event /\ row'[e] = row[e] /\ row[e].status = "pending"
      OBVIOUS
    <2>1. e \in Event /\ row[e].status = "pending" /\ e \notin Claimed(w)
      BY <1>2 DEF IInv, ClaimsDisjoint, Claimed, Txn
    <2>2. e \notin txn[w].done \cup txn[w].failed \cup txn[w].born
      BY <2>1 DEF Claimed, IInv, BornIsNew
    <2>. QED BY <1>1, <2>1, <2>2, CommittedEffect
  <1>6. ClaimsDisjoint'
    BY <1>1, <1>4, <1>5 DEF IInv, ClaimsDisjoint
  <1>7. \A e \in Event : /\ e \in txn[w].done => row'[e].status = "done"
                         /\ row'[e].status = "done" =>
                              e \in txn[w].done \/ row[e].status = "done"
                         /\ row[e].status = "done" => row'[e].status = "done" /\ e \notin txn[w].done
    <2> SUFFICES ASSUME NEW e \in Event
                 PROVE  /\ e \in txn[w].done => row'[e].status = "done"
                        /\ row'[e].status = "done" =>
                             e \in txn[w].done \/ row[e].status = "done"
                        /\ row[e].status = "done" =>
                             row'[e].status = "done" /\ e \notin txn[w].done
      OBVIOUS
    <2>1. CASE e \in txn[w].done
      BY <1>1, <1>3, <2>1, CommittedEffect
    <2>2. CASE e \in txn[w].failed
      BY <1>1, <1>3, <2>2, CommittedEffect, RetriedEffect DEF IInv
    <2>3. CASE e \in txn[w].born
      BY <1>1, <2>3, CommittedEffect, NewType DEF IInv, BornIsNew
    <2>4. CASE e \notin txn[w].done \cup txn[w].failed \cup txn[w].born
      BY <1>1, <2>4, CommittedEffect
    <2>. QED BY <2>1, <2>2, <2>3, <2>4
  <1>8. EffectsExactlyOnce'
    BY <1>1, <1>2, <1>3, <1>7 DEF IInv, EffectsExactlyOnce
  <1>9. FollowUpsHaveCause'
    <2> SUFFICES ASSUME NEW f \in Event \ Source, row'[f].status # "none"
                 PROVE  row'[Cause[f]].status = "done"
      BY DEF FollowUpsHaveCause
    <2>1. Cause[f] \in Event
      BY OutboxAssumption
    <2>2. CASE f \in txn[w].born
      BY <1>7, <2>1, <2>2 DEF IInv, BornIsNew
    <2>3. CASE f \notin txn[w].born
      <3>1. row[f].status # "none"
        BY <1>1, <1>3, <2>3, CommittedEffect
      <3>. QED BY <1>7, <2>1, <3>1 DEF IInv, FollowUpsHaveCause
    <2>. QED BY <2>2, <2>3
  <1>10. GivenUpInTime'
    <2> SUFFICES ASSUME NEW e \in Event
                 PROVE  /\ row'[e].attempts <= MaxAttempts
                        /\ row'[e].status = "dead_letter" <=> row'[e].attempts = MaxAttempts
      BY DEF GivenUpInTime
    <2>1. CASE e \in txn[w].done
      BY <1>1, <1>3, <2>1, CommittedEffect DEF IInv, GivenUpInTime
    <2>2. CASE e \in txn[w].failed
      BY <1>1, <1>3, <2>2, CommittedEffect, RetriedEffect DEF IInv
    <2>3. CASE e \in txn[w].born
      BY <1>1, <2>3, CommittedEffect, NewType, OutboxAssumption DEF IInv
    <2>4. CASE e \notin txn[w].done \cup txn[w].failed \cup txn[w].born
      BY <1>1, <2>4, CommittedEffect DEF IInv, GivenUpInTime
    <2>. QED BY <2>1, <2>2, <2>3, <2>4
  <1>11. BornIsNew'
    <2> SUFFICES ASSUME NEW v \in Worker, NEW f \in txn'[v].born
                 PROVE  /\ f \in Event \ Source
                        /\ row'[f].status = "none"
                        /\ Cause[f] \in txn'[v].done
      BY DEF BornIsNew
    <2>1. v # w /\ txn'[v] = txn[v]
      BY <1>1
    <2>2. f \in Event \ Source /\ row[f].status = "none" /\ Cause[f] \in txn[v].done
      BY <2>1 DEF IInv, BornIsNew
    <2>3. f \notin txn[w].done \cup txn[w].failed \cup txn[w].born
      BY <1>3, <2>1, <2>2 DEF IInv, BornIsNew, ClaimsDisjoint, Claimed
    <2>. QED BY <1>1, <2>1, <2>2, <2>3, CommittedEffect
  <1>. QED BY <1>1, <1>6, <1>8, <1>9, <1>10, <1>11 DEF IInv

LEMMA TickKeeps ==
  ASSUME IInv, Tick
  PROVE  IInv'
  <1>1. UNCHANGED <<txn, applied, aborts, requeues>>
    BY DEF Tick
  <1>2. /\ row' \in [Event -> [status : Status, attempts : Nat, wait : Nat]]
        /\ \A e \in Event : /\ row'[e].status = row[e].status
                            /\ row'[e].attempts = row[e].attempts
    BY DEF Tick, IInv, TypeOK
  <1>3. TypeOK'
    BY <1>1, <1>2 DEF IInv, TypeOK
  <1>4. ClaimsDisjoint'
    BY <1>1, <1>2 DEF IInv, TypeOK, Txn, ClaimsDisjoint, Claimed
  <1>5. EffectsExactlyOnce' /\ GivenUpInTime' /\ BornIsNew'
    BY <1>1, <1>2 DEF IInv, EffectsExactlyOnce, GivenUpInTime, BornIsNew
  <1>6. FollowUpsHaveCause'
    BY <1>2, OutboxAssumption DEF IInv, FollowUpsHaveCause
  <1>. QED BY <1>3, <1>4, <1>5, <1>6 DEF IInv

-----------------------------------------------------------------------------
LEMMA Invariance == Spec => []IInv
  <1>1. Init => IInv
    <2> SUFFICES ASSUME Init PROVE IInv
      OBVIOUS
    <2>1. /\ \A w \in Worker : txn[w] = [todo |-> {}, done |-> {}, failed |-> {}, born |-> {}]
          /\ \A e \in Event : row[e] = [status |-> "none", attempts |-> 0, wait |-> 0]
      BY DEF Init, NoTxn, Begun
    <2>2. TypeOK
      BY <2>1 DEF Init, TypeOK, Txn, Status, NoTxn, Begun
    <2>3. ClaimsDisjoint /\ BornIsNew
      BY <2>1 DEF ClaimsDisjoint, BornIsNew, Claimed
    <2>4. EffectsExactlyOnce /\ FollowUpsHaveCause /\ GivenUpInTime
      BY <2>1, OutboxAssumption DEF Init, EffectsExactlyOnce, FollowUpsHaveCause, GivenUpInTime
    <2>. QED BY <2>2, <2>3, <2>4 DEF IInv
  <1>2. IInv /\ [Next]_vars => IInv'
    <2> SUFFICES ASSUME IInv, [Next]_vars PROVE IInv'
      OBVIOUS
    <2>1. CASE UNCHANGED vars
      BY <2>1 DEF vars, IInv, TypeOK, ClaimsDisjoint, EffectsExactlyOnce, FollowUpsHaveCause,
                  GivenUpInTime, BornIsNew, Claimed
    <2>. QED
      BY <2>1, PublishKeeps, RequeueKeeps, ClaimKeeps, HandleKeeps, CommitKeeps, AbortKeeps,
         TickKeeps DEF Next
  <1>. QED BY <1>1, <1>2, PTL DEF Spec

(* Every reachable state has its types; processing never shows in the table. *)
THEOREM TypeCorrect == Spec => []TypeOK
  <1>1. IInv => TypeOK
    BY DEF IInv
  <1>. QED BY <1>1, Invariance, PTL

(* No event is in two open transactions.                                   *)
THEOREM ClaimsExclude == Spec => []ClaimsDisjoint
  <1>1. IInv => ClaimsDisjoint
    BY DEF IInv
  <1>. QED BY <1>1, Invariance, PTL

(* The effects of an event are committed once if it is done, else never.   *)
THEOREM ExactlyOnce == Spec => []EffectsExactlyOnce
  <1>1. IInv => EffectsExactlyOnce
    BY DEF IInv
  <1>. QED BY <1>1, Invariance, PTL

(* A follow-up event exists only if the event that caused it is done.      *)
THEOREM Causality == Spec => []FollowUpsHaveCause
  <1>1. IInv => FollowUpsHaveCause
    BY DEF IInv
  <1>. QED BY <1>1, Invariance, PTL

(* A dead letter has failed exactly MaxAttempts times.                     *)
THEOREM RetryLimit == Spec => []GivenUpInTime
  <1>1. IInv => GivenUpInTime
    BY DEF IInv
  <1>. QED BY <1>1, Invariance, PTL

-----------------------------------------------------------------------------
(* The commit of a batch settles its events in one step of the promise.    *)
LEMMA CommitSettles ==
  ASSUME IInv, NEW w \in Worker, Commit(w)
  PROVE  Promise!Next
  <1> DEFINE D == txn[w].done
             X == {e \in txn[w].failed : Retried(row[e]).status = "dead_letter"}
             B == txn[w].born
  <1>1. /\ \A e \in Event : row'[e] = Committed(w, e)
        /\ applied' = [e \in Event |-> IF e \in D THEN applied[e] + 1 ELSE applied[e]]
    BY CommitEffect DEF Commit
  <1>2. /\ D \subseteq Event /\ B \subseteq Event /\ X \subseteq Event
        /\ txn[w].failed \subseteq Event
    BY DEF IInv, TypeOK, Txn, BornIsNew
  <1>3. /\ \A e \in D \cup txn[w].failed : row[e].status = "pending"
        /\ D \cap txn[w].failed = {}
    BY DEF IInv, ClaimsDisjoint, Claimed
  <1>4. \A e \in D \cup X : State[e] = "queued"
    BY <1>2, <1>3 DEF State
  <1>5. \A e \in B : State[e] = "none" /\ e \notin Source /\ Cause[e] \in D
    BY <1>2 DEF State, IInv, BornIsNew
  <1>6. \A e \in Event : State'[e] = IF e \in D THEN "done"
                                     ELSE IF e \in X THEN "dead_letter"
                                     ELSE IF e \in B THEN "queued"
                                     ELSE State[e]
    <2> SUFFICES ASSUME NEW e \in Event
                 PROVE  State'[e] = IF e \in D THEN "done"
                                    ELSE IF e \in X THEN "dead_letter"
                                    ELSE IF e \in B THEN "queued"
                                    ELSE State[e]
      OBVIOUS
    <2>0. /\ State'[e] = IF Committed(w, e).status = "pending" THEN "queued"
                         ELSE Committed(w, e).status
          /\ State[e] = IF row[e].status = "pending" THEN "queued" ELSE row[e].status
      BY <1>1 DEF State
    <2>1. CASE e \in D
      BY <2>0, <2>1, CommittedEffect
    <2>2. CASE e \in txn[w].failed
      <3>1. e \notin D /\ e \notin B /\ row[e].status = "pending"
        BY <1>3, <2>2 DEF IInv, BornIsNew
      <3>2. Committed(w, e) = Retried(row[e])
        BY <2>2, CommittedEffect
      <3>3. Retried(row[e]).status \in {"pending", "dead_letter"}
        BY <3>1, RetriedEffect DEF IInv
      <3>. QED BY <2>0, <2>2, <3>1, <3>2, <3>3
    <2>3. CASE e \in B
      BY <1>3, <2>0, <2>3, CommittedEffect, NewType DEF IInv, BornIsNew
    <2>4. CASE e \notin D \cup txn[w].failed \cup B
      BY <2>0, <2>4, CommittedEffect
    <2>. QED BY <2>1, <2>2, <2>3, <2>4
  <1>7. State' = [e \in Event |-> IF e \in D THEN "done"
                                  ELSE IF e \in X THEN "dead_letter"
                                  ELSE IF e \in B THEN "queued"
                                  ELSE State[e]]
    BY <1>6 DEF State
  <1>8. Promise!Settle(D, X, B)
    BY <1>1, <1>3, <1>4, <1>5, <1>7 DEF Promise!Settle
  <1>. QED BY <1>2, <1>8 DEF Promise!Next

(* The outbox implements its promise: each step is one of OutboxPromise or *)
(* shows neither in the events' states nor in their effects.               *)
THEOREM PromiseKept == Spec => ImplementsPromise
  <1>1. Init => Promise!Init
    BY DEF Init, Promise!Init, State
  <1>2. ASSUME IInv, [Next]_vars
        PROVE  Promise!Next \/ UNCHANGED <<State, applied>>
    <2>1. ASSUME NEW e \in Event, Publish(e)
          PROVE  Promise!Next
      <3>1. State[e] = "none" /\ State' = [State EXCEPT ![e] = "queued"]
        BY <1>2, <2>1 DEF Publish, New, State, IInv, TypeOK
      <3>. QED BY <2>1, <3>1 DEF Promise!Next, Promise!Publish, Publish
    <2>2. ASSUME NEW e \in Event, Requeue(e)
          PROVE  Promise!Next
      <3>1. State[e] = "dead_letter" /\ State' = [State EXCEPT ![e] = "queued"]
        BY <1>2, <2>2 DEF Requeue, New, State, IInv, TypeOK
      <3>. QED BY <2>2, <3>1 DEF Promise!Next, Promise!Requeue, Requeue
    <2>3. ASSUME NEW w \in Worker, Claim(w) \/ Handle(w) \/ Abort(w)
          PROVE  UNCHANGED <<State, applied>>
      BY <2>3 DEF Claim, Handle, Abort, State
    <2>4. ASSUME Tick
          PROVE  UNCHANGED <<State, applied>>
      <3>1. \A e \in Event : row'[e].status = row[e].status
        BY <1>2, <2>4 DEF Tick, IInv, TypeOK
      <3>. QED BY <2>4, <3>1 DEF Tick, State
    <2>5. CASE UNCHANGED vars
      BY <2>5 DEF vars, State
    <2>. QED
      BY <1>2, <2>1, <2>2, <2>3, <2>4, <2>5, CommitSettles DEF Next
  <1>. QED BY <1>1, <1>2, Invariance, PTL DEF Spec, ImplementsPromise
=============================================================================
