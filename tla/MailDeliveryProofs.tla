------------------------- MODULE MailDeliveryProofs -------------------------
(***************************************************************************)
(* Proofs about the e-mail outbox, for every set of messages and workers,  *)
(* every batch limit, lease, backoff and attempt limit.                    *)
(***************************************************************************)
EXTENDS MailDelivery, TLAPS

(* The outcome a worker has not recorded yet is that of a claim it holds,  *)
(* and it is "sent" only when the server accepted a copy.                  *)
OutcomeOfHeldClaim ==
  \A w \in Worker : \A o \in outcome[w] :
    /\ o.claim \in batch[w]
    /\ o.status = "sent" => <<o.claim.id, o.claim.n>> \in copies
    /\ \A x \in outcome[w] : x = o

(* A row not queued yet has never been claimed.                            *)
NewIsUntouched == \A m \in Message : row[m].status = "new" => row[m].attempts = 0

(* The lease of an undisturbed message is still running.                   *)
LeaseRuns ==
  \A m \in Message \ disturbed : row[m].status = "sending" => row[m].wait > 0

(* A copy of an undisturbed message is about to be recorded, or was.       *)
CopyIsRecorded ==
  \A p \in copies :
    \/ p[1] \in disturbed
    \/ row[p[1]].status \in {"sent", "gone"}
    \/ \E w \in Worker : \E o \in outcome[w] : o.claim.id = p[1] /\ o.status = "sent"

IInv ==
  /\ TypeOK
  /\ ClaimsNumbered
  /\ CopiesArePaidFor
  /\ SecretWhileQueued
  /\ LeaseExcludes
  /\ OutcomeOfHeldClaim
  /\ NewIsUntouched
  /\ LeaseRuns
  /\ CopyIsRecorded

-----------------------------------------------------------------------------
(* The rows _claim leases and the claims it returns are well formed.       *)
LEMMA LeasedType ==
  ASSUME TypeOK, NEW m \in Message
  PROVE  /\ Leased(m) \in [status : Status, attempts : Nat, wait : Nat, secret : BOOLEAN]
         /\ Leased(m).status = "sending"
         /\ Leased(m).attempts = row[m].attempts + 1
         /\ Leased(m).wait = Lease
         /\ Leased(m).secret = row[m].secret
         /\ Snapshot(m, Leased(m)) =
              [id |-> m, n |-> row[m].attempts + 1, secret |-> row[m].secret]
         /\ Snapshot(m, Leased(m)) \in Claim
  <1>1. row[m] \in [status : Status, attempts : Nat, wait : Nat, secret : BOOLEAN]
    BY DEF TypeOK
  <1>2. "sending" \in Status
    BY DEF Status, Queued
  <1>3. /\ Leased(m) \in [status : Status, attempts : Nat, wait : Nat, secret : BOOLEAN]
        /\ Leased(m).status = "sending"
        /\ Leased(m).attempts = row[m].attempts + 1
        /\ Leased(m).wait = Lease
        /\ Leased(m).secret = row[m].secret
    BY <1>1, <1>2, MailAssumption DEF Leased
  <1>. QED
    BY <1>1, <1>3 DEF Snapshot, Claim

LEMMA BackoffType == ASSUME NEW n PROVE BackoffFor(n) \in Nat
  BY MailAssumption DEF BackoffFor

(* What recording an outcome makes of a row.                               *)
LEMMA RecordedType ==
  ASSUME TypeOK, NEW m \in Message, NEW o \in Outcome
  PROVE  /\ Recorded(row[m], o) \in
              [status : Status, attempts : Nat, wait : Nat, secret : BOOLEAN]
         /\ Recorded(row[m], o).attempts = row[m].attempts
         /\ o.status = "retry" =>
              /\ Recorded(row[m], o).status = "pending"
              /\ Recorded(row[m], o).secret = row[m].secret
         /\ o.status # "retry" =>
              /\ Recorded(row[m], o).status = o.status
              /\ Recorded(row[m], o).secret = FALSE
  <1>1. PICK r \in [status : Status, attempts : Nat, wait : Nat, secret : BOOLEAN] : r = row[m]
    BY DEF TypeOK
  <1>2. PICK b \in Nat : b = BackoffFor(o.claim.n)
    BY BackoffType
  <1>3. CASE o.status = "sent"
    <2>1. Recorded(row[m], o) = [r EXCEPT !.status = "sent", !.secret = FALSE]
      BY <1>1, <1>3 DEF Recorded
    <2>. QED BY <1>1, <1>3, <2>1 DEF Status, Final
  <1>4. CASE o.status = "retry"
    <2>1. Recorded(row[m], o) = [r EXCEPT !.status = "pending", !.wait = b]
      BY <1>1, <1>2, <1>4 DEF Recorded
    <2>. QED BY <1>1, <1>2, <1>4, <2>1 DEF Status, Queued
  <1>5. CASE o.status = "dead_letter"
    <2>1. Recorded(row[m], o) = [r EXCEPT !.status = "dead_letter", !.secret = FALSE]
      BY <1>1, <1>5 DEF Recorded
    <2>. QED BY <1>1, <1>5, <2>1 DEF Status, Final
  <1>. QED BY <1>3, <1>4, <1>5 DEF Outcome

(* The four ways an attempt can end, as far as types and proofs care.      *)
LEMMA AttemptEffect ==
  ASSUME TypeOK, NEW w \in Worker, Attempt(w)
  PROVE  \E c \in batch[w] : \E s \in {"sent", "retry", "dead_letter"} :
           /\ outcome[w] = {}
           /\ outcome' = [outcome EXCEPT ![w] = {[claim |-> c, status |-> s]}]
           /\ \/ copies' = copies /\ s # "sent" /\ disturbed' = disturbed
              \/ /\ copies' = copies \cup {<<c.id, c.n>>}
                 /\ \/ s = "sent" /\ disturbed' = disturbed
                    \/ disturbed' = disturbed \cup {c.id}
           /\ UNCHANGED <<row, batch, crashes>>
  <1>1. PICK c \in batch[w] : \/ AttemptUndecryptable(w, c)
                              \/ AttemptUnrenderable(w, c)
                              \/ AttemptAccepted(w, c)
                              \/ AttemptFails(w, c)
    BY DEF Attempt
  <1>2. outcome[w] = {} /\ UNCHANGED <<row, batch, crashes>>
    BY DEF Attempt
  <1>3. RetryOrDead(c) \in {"retry", "dead_letter"}
    BY DEF RetryOrDead
  <1>. QED
    BY <1>1, <1>2, <1>3 DEF AttemptUndecryptable, AttemptUnrenderable, AttemptAccepted,
                            AttemptFails, Finished

LEMMA TypeStep == TypeOK /\ [Next]_vars => TypeOK'
  <1> SUFFICES ASSUME TypeOK, [Next]_vars PROVE TypeOK'
    OBVIOUS
  <1> USE DEF TypeOK
  <1>1. ASSUME NEW m \in Message, Enqueue(m) PROVE TypeOK'
    <2>1. PICK s \in BOOLEAN : s = IF m \in OneTime THEN TRUE ELSE FALSE
      OBVIOUS
    <2>2. row' = [row EXCEPT ![m] = [status |-> "pending", attempts |-> 0, wait |-> 0,
                                     secret |-> s]]
      BY <1>1, <2>1 DEF Enqueue
    <2>3. [status |-> "pending", attempts |-> 0, wait |-> 0, secret |-> s]
            \in [status : Status, attempts : Nat, wait : Nat, secret : BOOLEAN]
      BY DEF Status, Queued
    <2>4. row' \in [Message -> [status : Status, attempts : Nat, wait : Nat, secret : BOOLEAN]]
      BY <2>2, <2>3
    <2>. QED BY <1>1, <2>4 DEF Enqueue
  <1>2. ASSUME NEW m \in Message, Erase(m) PROVE TypeOK'
    <2>1. PICK r : r = [row[m] EXCEPT !.status = "gone", !.secret = FALSE]
      OBVIOUS
    <2>2. row' = [row EXCEPT ![m] = r]
      BY <1>2, <2>1 DEF Erase
    <2>3. r \in [status : Status, attempts : Nat, wait : Nat, secret : BOOLEAN]
      BY <2>1 DEF Status
    <2>. QED BY <1>2, <2>2, <2>3 DEF Erase
  <1>3. ASSUME NEW w \in Worker, ClaimBatch(w) PROVE TypeOK'
    <2>1. PICK S \in SUBSET Message :
            /\ row' = [m \in Message |-> IF m \in S THEN Leased(m) ELSE row[m]]
            /\ batch' = [batch EXCEPT ![w] = {Snapshot(m, Leased(m)) : m \in S}]
      BY <1>3 DEF ClaimBatch
    <2>2. {Snapshot(m, Leased(m)) : m \in S} \subseteq Claim
      BY LeasedType
    <2>3. row' \in [Message -> [status : Status, attempts : Nat, wait : Nat, secret : BOOLEAN]]
      BY <2>1, LeasedType
    <2>. QED BY <1>3, <2>1, <2>2, <2>3 DEF ClaimBatch
  <1>4. ASSUME NEW w \in Worker, Attempt(w) PROVE TypeOK'
    <2>1. PICK c \in batch[w], s \in {"sent", "retry", "dead_letter"} :
            /\ outcome' = [outcome EXCEPT ![w] = {[claim |-> c, status |-> s]}]
            /\ \/ copies' = copies /\ disturbed' = disturbed
               \/ /\ copies' = copies \cup {<<c.id, c.n>>}
                  /\ \/ disturbed' = disturbed
                     \/ disturbed' = disturbed \cup {c.id}
            /\ UNCHANGED <<row, batch, crashes>>
      BY <1>4, AttemptEffect
    <2>2. c \in Claim /\ c.id \in Message /\ <<c.id, c.n>> \in Message \X Nat
      BY DEF Claim
    <2>3. [claim |-> c, status |-> s] \in Outcome
      BY <2>2 DEF Outcome
    <2>. QED BY <2>1, <2>2, <2>3
  <1>5. ASSUME NEW w \in Worker, Record(w) PROVE TypeOK'
    <2>1. PICK o \in outcome[w] :
            /\ row' = IF Recordable(row[o.claim.id])
                      THEN [row EXCEPT ![o.claim.id] = Recorded(@, o)]
                      ELSE row
            /\ batch' = [batch EXCEPT ![w] = @ \ {o.claim}]
      BY <1>5 DEF Record
    <2>2. o \in Outcome /\ o.claim.id \in Message
      BY DEF Outcome, Claim
    <2>3. row' \in [Message -> [status : Status, attempts : Nat, wait : Nat, secret : BOOLEAN]]
      BY <2>1, <2>2, RecordedType
    <2>. QED BY <1>5, <2>1, <2>3 DEF Record
  <1>6. ASSUME NEW w \in Worker, Crash(w) PROVE TypeOK'
    BY <1>6 DEF Crash, Claim
  <1>7. CASE Tick
    <2>1. Held \subseteq Message
      BY DEF Held, Claim
    <2>2. row' \in [Message -> [status : Status, attempts : Nat, wait : Nat, secret : BOOLEAN]]
      BY <1>7 DEF Tick
    <2>. QED BY <1>7, <2>1, <2>2 DEF Tick
  <1>8. CASE UNCHANGED vars
    BY <1>8 DEF vars
  <1>. QED
    BY <1>1, <1>2, <1>3, <1>4, <1>5, <1>6, <1>7, <1>8 DEF Next

(* Every reachable state has the declared shape.                           *)
THEOREM TypeCorrect == Spec => []TypeOK
  <1>1. Init => TypeOK
    BY DEF Init, TypeOK, Status
  <1>. QED
    BY <1>1, TypeStep, PTL DEF Spec

-----------------------------------------------------------------------------
(* The invariant is inductive: one lemma per action, one step per conjunct. *)

LEMMA EnqueueKeeps ==
  ASSUME IInv, TypeOK', NEW m \in Message, Enqueue(m)
  PROVE  IInv'
  <1>1. /\ row[m].status = "new"
        /\ row[m].attempts = 0
        /\ \A x \in Message \ {m} : row'[x] = row[x]
        /\ row'[m].status = "pending" /\ row'[m].attempts = 0
        /\ row'[m].secret <=> m \in OneTime
        /\ UNCHANGED <<batch, outcome, copies, disturbed>>
    BY DEF Enqueue, IInv, TypeOK, NewIsUntouched
  <1>2. /\ \A w \in Worker : \A c \in batch[w] : c \in Claim /\ c.id \in Message /\ c.id # m
        /\ \A p \in copies : p[1] \in Message /\ p[1] # m
    BY <1>1 DEF IInv, TypeOK, Claim, ClaimsNumbered, CopiesArePaidFor
  <1>3. ClaimsNumbered'
    BY <1>1, <1>2 DEF IInv, ClaimsNumbered
  <1>4. CopiesArePaidFor'
    BY <1>1, <1>2 DEF IInv, CopiesArePaidFor
  <1>5. SecretWhileQueued'
    <2>. row'[m].status \in Queued
      BY <1>1 DEF Queued
    <2>. QED BY <1>1 DEF IInv, SecretWhileQueued
  <1>6. LeaseExcludes'
    BY <1>1, <1>2 DEF IInv, LeaseExcludes, Held
  <1>7. OutcomeOfHeldClaim'
    BY <1>1 DEF IInv, OutcomeOfHeldClaim
  <1>8. NewIsUntouched' /\ LeaseRuns'
    BY <1>1 DEF IInv, NewIsUntouched, LeaseRuns
  <1>9. CopyIsRecorded'
    BY <1>1, <1>2 DEF IInv, CopyIsRecorded
  <1>. QED
    BY <1>3, <1>4, <1>5, <1>6, <1>7, <1>8, <1>9 DEF IInv

LEMMA EraseKeeps ==
  ASSUME IInv, TypeOK', NEW m \in Message, Erase(m)
  PROVE  IInv'
  <1>1. /\ row[m].status \in {"pending", "sent", "dead_letter"}
        /\ \A x \in Message \ {m} : row'[x] = row[x]
        /\ row'[m].status = "gone"
        /\ row'[m].secret = FALSE
        /\ row'[m].attempts = row[m].attempts
        /\ UNCHANGED <<batch, outcome, copies, disturbed>>
    BY DEF Erase, Final, IInv, TypeOK
  <1>2. /\ \A w \in Worker : \A c \in batch[w] : c \in Claim /\ c.id \in Message
        /\ \A p \in copies : p[1] \in Message
    BY DEF IInv, TypeOK, Claim
  <1>3. ClaimsNumbered'
    BY <1>1, <1>2 DEF IInv, ClaimsNumbered
  <1>4. CopiesArePaidFor'
    BY <1>1, <1>2 DEF IInv, CopiesArePaidFor
  <1>5. SecretWhileQueued'
    BY <1>1, <1>2 DEF IInv, SecretWhileQueued, Queued
  <1>6. LeaseExcludes'
    BY <1>1, <1>2 DEF IInv, LeaseExcludes, Held
  <1>7. OutcomeOfHeldClaim'
    BY <1>1 DEF IInv, OutcomeOfHeldClaim
  <1>8. NewIsUntouched' /\ LeaseRuns'
    BY <1>1 DEF IInv, NewIsUntouched, LeaseRuns
  <1>9. CopyIsRecorded'
    BY <1>1, <1>2 DEF IInv, CopyIsRecorded
  <1>. QED
    BY <1>3, <1>4, <1>5, <1>6, <1>7, <1>8, <1>9 DEF IInv

LEMMA CrashKeeps ==
  ASSUME IInv, TypeOK', NEW w \in Worker, Crash(w)
  PROVE  IInv'
  <1>1. /\ batch' = [batch EXCEPT ![w] = {}]
        /\ outcome' = [outcome EXCEPT ![w] = {}]
        /\ disturbed' = disturbed \cup {c.id : c \in batch[w]}
        /\ UNCHANGED <<row, copies>>
    BY DEF Crash
  <1>2. /\ batch'[w] = {} /\ outcome'[w] = {}
        /\ \A v \in Worker \ {w} : batch'[v] = batch[v] /\ outcome'[v] = outcome[v]
        /\ \A c \in batch[w] : c.id \in disturbed'
        /\ disturbed \subseteq disturbed'
    BY <1>1 DEF IInv, TypeOK
  <1>3. ClaimsNumbered'
    BY <1>1, <1>2 DEF IInv, ClaimsNumbered
  <1>4. CopiesArePaidFor'
    BY <1>1, <1>2 DEF IInv, CopiesArePaidFor
  <1>5. SecretWhileQueued'
    BY <1>1, <1>2 DEF IInv, SecretWhileQueued
  <1>6. \A m \in Message \ disturbed' : m \in Held' <=> m \in Held
    BY <1>2 DEF Held
  <1>7. LeaseExcludes'
    BY <1>1, <1>2, <1>6 DEF IInv, LeaseExcludes
  <1>8. OutcomeOfHeldClaim'
    BY <1>1, <1>2 DEF IInv, OutcomeOfHeldClaim
  <1>9. NewIsUntouched' /\ LeaseRuns'
    BY <1>1, <1>2 DEF IInv, NewIsUntouched, LeaseRuns
  <1>10. CopyIsRecorded'
    <2> SUFFICES ASSUME NEW p \in copies, p[1] \notin disturbed',
                        row[p[1]].status \notin {"sent", "gone"}
                 PROVE  \E v \in Worker : \E o \in outcome'[v] :
                          o.claim.id = p[1] /\ o.status = "sent"
      BY <1>1 DEF CopyIsRecorded
    <2>1. PICK v \in Worker : \E o \in outcome[v] : o.claim.id = p[1] /\ o.status = "sent"
      BY <1>2 DEF IInv, CopyIsRecorded
    <2>2. v # w
      BY <1>2, <2>1 DEF IInv, OutcomeOfHeldClaim
    <2>. QED BY <1>2, <2>1, <2>2
  <1>. QED
    BY <1>3, <1>4, <1>5, <1>7, <1>8, <1>9, <1>10 DEF IInv

LEMMA TickKeeps ==
  ASSUME IInv, TypeOK', Tick
  PROVE  IInv'
  <1>1. /\ \A m \in Message : /\ row'[m].status = row[m].status
                              /\ row'[m].attempts = row[m].attempts
                              /\ row'[m].secret = row[m].secret
                              /\ row[m].wait > 1 => row'[m].wait > 0
        /\ disturbed' = disturbed \cup {m \in Held : row[m].wait = 1}
        /\ UNCHANGED <<batch, outcome, copies>>
    BY DEF Tick, IInv, TypeOK
  <1>2. /\ \A w \in Worker : \A c \in batch[w] : c \in Claim /\ c.id \in Message
        /\ \A p \in copies : p[1] \in Message
        /\ \A m \in Message : row[m].wait \in Nat
    BY DEF IInv, TypeOK, Claim
  <1>3. ClaimsNumbered'
    BY <1>1, <1>2 DEF IInv, ClaimsNumbered
  <1>4. CopiesArePaidFor'
    BY <1>1, <1>2 DEF IInv, CopiesArePaidFor
  <1>5. SecretWhileQueued'
    BY <1>1, <1>2 DEF IInv, SecretWhileQueued
  <1>6. Held' = Held /\ disturbed \subseteq disturbed'
    BY <1>1 DEF Held
  <1>7. LeaseExcludes'
    BY <1>1, <1>6 DEF IInv, LeaseExcludes
  <1>8. OutcomeOfHeldClaim'
    BY <1>1 DEF IInv, OutcomeOfHeldClaim
  <1>9. NewIsUntouched'
    BY <1>1 DEF IInv, NewIsUntouched
  <1>10. LeaseRuns'
    <2> SUFFICES ASSUME NEW m \in Message, m \notin disturbed', row[m].status = "sending"
                 PROVE  row'[m].wait > 0
      BY <1>1 DEF LeaseRuns
    <2>1. m \in Held /\ row[m].wait > 0
      BY <1>6 DEF IInv, LeaseExcludes, LeaseRuns
    <2>2. row[m].wait # 1
      BY <1>1, <2>1
    <2>. QED BY <1>1, <1>2, <2>1, <2>2
  <1>11. CopyIsRecorded'
    BY <1>1, <1>2, <1>6 DEF IInv, CopyIsRecorded
  <1>. QED
    BY <1>3, <1>4, <1>5, <1>7, <1>8, <1>9, <1>10, <1>11 DEF IInv

LEMMA ClaimKeeps ==
  ASSUME IInv, TypeOK', NEW w \in Worker, ClaimBatch(w)
  PROVE  IInv'
  <1> DEFINE Fresh(m) == [id |-> m, n |-> row[m].attempts + 1, secret |-> row[m].secret]
  <1>1. PICK S \in SUBSET {m \in Message : Due(m)} :
          /\ row' = [m \in Message |-> IF m \in S THEN Leased(m) ELSE row[m]]
          /\ batch' = [batch EXCEPT ![w] = {Snapshot(m, Leased(m)) : m \in S}]
    BY DEF ClaimBatch
  <1>2. batch[w] = {} /\ UNCHANGED <<outcome, copies, disturbed>>
    BY DEF ClaimBatch
  <1>3. \A m \in S : /\ m \in Message
                     /\ row[m].status \in Queued
                     /\ row[m].wait = 0
                     /\ row'[m].status = "sending"
                     /\ row'[m].attempts = row[m].attempts + 1
                     /\ row'[m].wait = Lease
                     /\ row'[m].secret = row[m].secret
    BY <1>1, LeasedType DEF IInv, Due
  <1>4. \A m \in Message : /\ m \notin S => row'[m] = row[m]
                           /\ row[m].attempts \in Nat
    BY <1>1 DEF IInv, TypeOK
  <1>5. \A c \in batch'[w] : /\ c.id \in S
                             /\ c.n = row[c.id].attempts + 1
                             /\ c.secret = row[c.id].secret
                             /\ c = Fresh(c.id)
    BY <1>1, LeasedType DEF IInv, TypeOK
  <1>6. \A m \in S : \E c \in batch'[w] : c.id = m
    <2> SUFFICES ASSUME NEW m \in S PROVE \E c \in batch'[w] : c.id = m
      OBVIOUS
    <2>1. Snapshot(m, Leased(m)) \in batch'[w]
      BY <1>1 DEF IInv, TypeOK
    <2>2. Snapshot(m, Leased(m)).id = m
      BY DEF Snapshot
    <2>. QED BY <2>1, <2>2
  <1>7. \A v \in Worker \ {w} : batch'[v] = batch[v]
    BY <1>1 DEF IInv, TypeOK
  <1>8. \A v \in Worker : \A c \in batch[v] :
          /\ c \in Claim /\ c.id \in Message /\ c.n \in 1..row[c.id].attempts
          /\ v # w
    BY <1>2 DEF IInv, TypeOK, Claim, ClaimsNumbered
  <1>9. S \cap Held \subseteq disturbed
    BY <1>3 DEF IInv, LeaseExcludes, LeaseRuns
  <1>10. ClaimsNumbered'
    <2>1. ASSUME NEW v \in Worker, NEW c \in batch'[v]
          PROVE  c.n \in 1..row'[c.id].attempts
      BY <1>3, <1>4, <1>5, <1>7, <1>8
    <2>2. ASSUME NEW v \in Worker, NEW u \in Worker, NEW c \in batch'[v], NEW d \in batch'[u],
                 c.id = d.id, v # u \/ c # d
          PROVE  c.n # d.n
      <3>1. CASE v # w /\ u # w
        BY <1>7, <2>2, <3>1 DEF IInv, ClaimsNumbered
      <3>2. CASE v = w /\ u # w
        BY <1>4, <1>5, <1>7, <1>8, <2>2, <3>2
      <3>3. CASE v # w /\ u = w
        BY <1>4, <1>5, <1>7, <1>8, <2>2, <3>3
      <3>4. CASE v = w /\ u = w
        BY <1>5, <2>2, <3>4
      <3>. QED BY <3>1, <3>2, <3>3, <3>4
    <2>. QED BY <2>1, <2>2 DEF ClaimsNumbered
  <1>11. CopiesArePaidFor'
    <2>1. ASSUME NEW p \in copies PROVE p[2] \in 1..row'[p[1]].attempts
      BY <1>3, <1>4 DEF IInv, TypeOK, CopiesArePaidFor
    <2>2. ASSUME NEW v \in Worker, NEW c \in batch'[v], \A o \in outcome[v] : o.claim # c
          PROVE  <<c.id, c.n>> \notin copies
      <3>1. CASE v # w
        BY <1>7, <2>2, <3>1 DEF IInv, CopiesArePaidFor
      <3>2. CASE v = w
        BY <1>3, <1>4, <1>5, <3>2 DEF IInv, CopiesArePaidFor
      <3>. QED BY <3>1, <3>2
    <2>. QED BY <1>2, <2>1, <2>2 DEF CopiesArePaidFor
  <1>12. SecretWhileQueued'
    <2>1. ASSUME NEW m \in Message
          PROVE  row'[m].secret <=> (m \in OneTime /\ row'[m].status \in Queued)
      BY <1>3, <1>4 DEF IInv, SecretWhileQueued, Queued
    <2>2. ASSUME NEW v \in Worker, NEW c \in batch'[v]
          PROVE  c.secret <=> c.id \in OneTime
      BY <1>3, <1>5, <1>7 DEF IInv, SecretWhileQueued
    <2>. QED BY <2>1, <2>2 DEF SecretWhileQueued
  <1>13. LeaseExcludes'
    <2> SUFFICES ASSUME NEW m \in Message, m \notin disturbed
                 PROVE  /\ \A v, u \in Worker : \A c \in batch'[v], d \in batch'[u] :
                             c.id = m /\ d.id = m => v = u /\ c = d
                        /\ m \in Held' <=> row'[m].status = "sending"
                        /\ \A p, q \in copies : p[1] = m /\ q[1] = m => p = q
      BY <1>2 DEF LeaseExcludes
    <2>1. CASE m \in S
      <3>1. \A v \in Worker : \A c \in batch[v] : c.id # m
        BY <1>9, <2>1 DEF Held
      <3>2. m \in Held'
        BY <1>6, <2>1 DEF Held
      <3>. QED
        BY <1>3, <1>5, <1>7, <2>1, <3>1, <3>2 DEF IInv, LeaseExcludes
    <2>2. CASE m \notin S
      <3>1. \A v \in Worker : \A c \in batch'[v] : c.id = m => v # w /\ c \in batch[v]
        BY <1>5, <1>7, <2>2
      <3>2. m \in Held' <=> m \in Held
        BY <1>2, <1>7, <3>1 DEF Held
      <3>. QED
        BY <1>4, <2>2, <3>1, <3>2 DEF IInv, LeaseExcludes
    <2>. QED BY <2>1, <2>2
  <1>14. OutcomeOfHeldClaim'
    BY <1>2, <1>7 DEF IInv, OutcomeOfHeldClaim
  <1>15. NewIsUntouched'
    BY <1>3, <1>4 DEF IInv, NewIsUntouched
  <1>16. LeaseRuns'
    BY <1>2, <1>3, <1>4, MailAssumption DEF IInv, LeaseRuns
  <1>17. CopyIsRecorded'
    BY <1>2, <1>3, <1>4 DEF IInv, TypeOK, CopyIsRecorded, Queued
  <1>. QED
    BY <1>10, <1>11, <1>12, <1>13, <1>14, <1>15, <1>16, <1>17 DEF IInv

LEMMA AttemptKeeps ==
  ASSUME IInv, TypeOK', NEW w \in Worker, Attempt(w)
  PROVE  IInv'
  <1>1. PICK c \in batch[w] : \E s \in {"sent", "retry", "dead_letter"} :
          /\ outcome[w] = {}
          /\ outcome' = [outcome EXCEPT ![w] = {[claim |-> c, status |-> s]}]
          /\ \/ copies' = copies /\ s # "sent" /\ disturbed' = disturbed
             \/ /\ copies' = copies \cup {<<c.id, c.n>>}
                /\ \/ s = "sent" /\ disturbed' = disturbed
                   \/ disturbed' = disturbed \cup {c.id}
          /\ UNCHANGED <<row, batch, crashes>>
    BY AttemptEffect DEF IInv
  <1>2. PICK s \in {"sent", "retry", "dead_letter"} :
          /\ outcome[w] = {}
          /\ outcome' = [outcome EXCEPT ![w] = {[claim |-> c, status |-> s]}]
          /\ \/ copies' = copies /\ s # "sent" /\ disturbed' = disturbed
             \/ /\ copies' = copies \cup {<<c.id, c.n>>}
                /\ \/ s = "sent" /\ disturbed' = disturbed
                   \/ disturbed' = disturbed \cup {c.id}
          /\ UNCHANGED <<row, batch, crashes>>
    BY <1>1
  <1>3. /\ c \in Claim /\ c.id \in Message /\ c.n \in 1..row[c.id].attempts
        /\ outcome'[w] = {[claim |-> c, status |-> s]}
        /\ \A v \in Worker \ {w} : outcome'[v] = outcome[v]
        /\ copies \subseteq copies'
        /\ disturbed \subseteq disturbed'
    BY <1>2 DEF IInv, TypeOK, Claim, ClaimsNumbered
  <1>4. ClaimsNumbered'
    BY <1>2 DEF IInv, ClaimsNumbered
  <1>5. CopiesArePaidFor'
    <2>1. ASSUME NEW p \in copies' PROVE p[2] \in 1..row[p[1]].attempts
      BY <1>2, <1>3 DEF IInv, CopiesArePaidFor
    <2>2. ASSUME NEW v \in Worker, NEW d \in batch[v], \A o \in outcome'[v] : o.claim # d
          PROVE  <<d.id, d.n>> \notin copies'
      <3>1. v # w \/ d # c
        <4>1. [claim |-> c, status |-> s] \in outcome'[w]
          BY <1>3
        <4>. QED BY <2>2, <4>1
      <3>2. \A o \in outcome[v] : o.claim # d
        BY <1>2, <1>3, <2>2
      <3>. <<d.id, d.n>> \notin copies
        BY <3>2 DEF IInv, CopiesArePaidFor
      <3>3. <<d.id, d.n>> # <<c.id, c.n>>
        BY <3>1 DEF IInv, ClaimsNumbered
      <3>. QED BY <1>2, <3>3
    <2>. QED BY <1>2, <2>1, <2>2 DEF CopiesArePaidFor
  <1>6. SecretWhileQueued'
    BY <1>2 DEF IInv, SecretWhileQueued
  <1>7. ASSUME NEW p \in copies, p[1] = c.id
        PROVE  c.id \in disturbed
    <2> SUFFICES ASSUME c.id \notin disturbed PROVE FALSE
      OBVIOUS
    <2>1. c.id \in Held /\ row[c.id].status = "sending"
      BY <1>3 DEF IInv, LeaseExcludes, Held
    <2>2. PICK v \in Worker : \E o \in outcome[v] : o.claim.id = c.id
      BY <1>7, <2>1 DEF IInv, CopyIsRecorded
    <2>3. PICK o \in outcome[v] : o.claim.id = c.id
      BY <2>2
    <2>4. o.claim \in batch[v]
      BY DEF IInv, OutcomeOfHeldClaim
    <2>5. v = w
      BY <1>3, <2>3, <2>4 DEF IInv, LeaseExcludes
    <2>. QED BY <1>2, <2>3, <2>5
  <1>8. LeaseExcludes'
    <2> SUFFICES ASSUME NEW m \in Message, m \notin disturbed'
                 PROVE  /\ \A v, u \in Worker : \A a \in batch[v], b \in batch[u] :
                             a.id = m /\ b.id = m => v = u /\ a = b
                        /\ m \in Held <=> row[m].status = "sending"
                        /\ \A p, q \in copies' : p[1] = m /\ q[1] = m => p = q
      BY <1>2 DEF LeaseExcludes, Held
    <2>1. \A p, q \in copies' : p[1] = m /\ q[1] = m => p = q
      BY <1>2, <1>3, <1>7 DEF IInv, LeaseExcludes
    <2>. QED BY <1>3, <2>1 DEF IInv, LeaseExcludes
  <1>9. OutcomeOfHeldClaim'
    <2>1. s = "sent" => <<c.id, c.n>> \in copies'
      BY <1>2
    <2>2. ASSUME NEW o \in outcome'[w]
          PROVE  /\ o.claim \in batch'[w] /\ (o.status = "sent" => <<o.claim.id, o.claim.n>> \in copies')
                 /\ \A x \in outcome'[w] : x = o
      BY <1>2, <1>3, <2>1
    <2>3. ASSUME NEW v \in Worker, v # w, NEW o \in outcome'[v]
          PROVE  /\ o.claim \in batch'[v] /\ (o.status = "sent" => <<o.claim.id, o.claim.n>> \in copies')
                 /\ \A x \in outcome'[v] : x = o
      BY <1>2, <1>3, <2>3 DEF IInv, OutcomeOfHeldClaim
    <2>. QED BY <2>2, <2>3 DEF OutcomeOfHeldClaim
  <1>10. NewIsUntouched' /\ LeaseRuns'
    BY <1>2, <1>3 DEF IInv, NewIsUntouched, LeaseRuns
  <1>11. CopyIsRecorded'
    <2> SUFFICES ASSUME NEW p \in copies', p[1] \notin disturbed',
                        row[p[1]].status \notin {"sent", "gone"}
                 PROVE  \E v \in Worker : \E o \in outcome'[v] :
                          o.claim.id = p[1] /\ o.status = "sent"
      BY <1>2 DEF CopyIsRecorded
    <2>1. CASE p \in copies
      <3>1. PICK v \in Worker : \E o \in outcome[v] : o.claim.id = p[1] /\ o.status = "sent"
        BY <1>3, <2>1 DEF IInv, CopyIsRecorded
      <3>. QED BY <1>2, <1>3, <3>1
    <2>2. CASE p \notin copies
      <3>1. p = <<c.id, c.n>> /\ p[1] = c.id /\ s = "sent"
        BY <1>2, <2>2
      <3>2. [claim |-> c, status |-> s] \in outcome'[w]
        BY <1>3
      <3>. QED BY <3>1, <3>2
    <2>. QED BY <2>1, <2>2
  <1>. QED
    BY <1>4, <1>5, <1>6, <1>8, <1>9, <1>10, <1>11 DEF IInv

LEMMA RecordKeeps ==
  ASSUME IInv, TypeOK', NEW w \in Worker, Record(w)
  PROVE  IInv'
  <1>1. PICK o \in outcome[w] :
          /\ row' = IF Recordable(row[o.claim.id])
                    THEN [row EXCEPT ![o.claim.id] = Recorded(@, o)]
                    ELSE row
          /\ batch' = [batch EXCEPT ![w] = @ \ {o.claim}]
    BY DEF Record
  <1>2. outcome' = [outcome EXCEPT ![w] = {}] /\ UNCHANGED <<copies, disturbed>>
    BY DEF Record
  <1> DEFINE t == o.claim.id
  <1>3. /\ o \in Outcome /\ t \in Message /\ o.claim \in batch[w]
        /\ o.status = "sent" => <<t, o.claim.n>> \in copies
    BY DEF IInv, TypeOK, Outcome, Claim, OutcomeOfHeldClaim
  <1>4. /\ \A m \in Message : row'[m].attempts = row[m].attempts
        /\ \A m \in Message \ {t} : row'[m] = row[m]
        /\ row[t].status # "sending" => row' = row
    <2>1. CASE Recordable(row[t])
      <3>1. row' = [row EXCEPT ![t] = Recorded(row[t], o)]
        BY <1>1, <2>1
      <3>2. Recorded(row[t], o).attempts = row[t].attempts
        BY <1>3, RecordedType DEF IInv
      <3>3. row \in [Message -> [status : Status, attempts : Nat, wait : Nat, secret : BOOLEAN]]
        BY DEF IInv, TypeOK
      <3>. QED BY <1>3, <2>1, <3>1, <3>2, <3>3 DEF Recordable
    <2>2. CASE ~Recordable(row[t])
      BY <1>1, <2>2 DEF Recordable
    <2>. QED BY <2>1, <2>2 DEF Recordable
  <1>5. row[t].status = "sending" =>
          /\ o.status = "retry" => row'[t].status = "pending" /\ row'[t].secret = row[t].secret
          /\ o.status # "retry" => row'[t].status = o.status /\ row'[t].secret = FALSE
          /\ o.status \in {"sent", "retry", "dead_letter"}
    <2> SUFFICES ASSUME row[t].status = "sending"
                 PROVE  /\ o.status = "retry" => row'[t].status = "pending" /\ row'[t].secret = row[t].secret
                        /\ o.status # "retry" => row'[t].status = o.status /\ row'[t].secret = FALSE
                        /\ o.status \in {"sent", "retry", "dead_letter"}
      OBVIOUS
    <2>1. TypeOK /\ t \in Message /\ o \in Outcome
      BY <1>3 DEF IInv
    <2>2. row' = [row EXCEPT ![t] = Recorded(row[t], o)]
      BY <1>1 DEF Recordable
    <2>3. row'[t] = Recorded(row[t], o)
      BY <2>1, <2>2 DEF TypeOK
    <2>4. o.status \in {"sent", "retry", "dead_letter"}
      BY <2>1 DEF Outcome
    <2>5. PICK u \in Message : u = t
      BY <2>1
    <2>6. /\ o.status = "retry" => /\ Recorded(row[u], o).status = "pending"
                                  /\ Recorded(row[u], o).secret = row[u].secret
          /\ o.status # "retry" => /\ Recorded(row[u], o).status = o.status
                                  /\ Recorded(row[u], o).secret = FALSE
      BY <2>1, RecordedType
    <2>. QED BY <2>3, <2>4, <2>5, <2>6
  <1>6. /\ batch'[w] = batch[w] \ {o.claim} /\ outcome'[w] = {}
        /\ \A v \in Worker \ {w} : batch'[v] = batch[v] /\ outcome'[v] = outcome[v]
    BY <1>1, <1>2 DEF IInv, TypeOK
  <1>7. /\ \A v \in Worker : batch'[v] \subseteq batch[v]
        /\ \A v \in Worker : \A c \in batch[v] : c \in Claim /\ c.id \in Message
        /\ \A p \in copies : p[1] \in Message
        /\ \A x \in outcome[w] : x = o
    <2>1. \A v \in Worker : batch'[v] \subseteq batch[v]
      BY <1>6
    <2>2. \A v \in Worker : \A c \in batch[v] : c \in Claim /\ c.id \in Message
      BY DEF IInv, TypeOK, Claim
    <2>3. \A p \in copies : p[1] \in Message
      BY DEF IInv, TypeOK
    <2>. QED BY <2>1, <2>2, <2>3 DEF IInv, OutcomeOfHeldClaim
  <1>8. ClaimsNumbered'
    <2>1. ASSUME NEW v \in Worker, NEW u \in Worker, NEW c \in batch'[v], NEW d \in batch'[u]
          PROVE  /\ c.n \in 1..row'[c.id].attempts
                 /\ c.id = d.id /\ (v # u \/ c # d) => c.n # d.n
      <3>1. c \in batch[v] /\ d \in batch[u] /\ c.id \in Message
        BY <1>7
      <3>. QED BY <1>4, <3>1 DEF IInv, ClaimsNumbered
    <2>. QED BY <2>1 DEF ClaimsNumbered
  <1>9. CopiesArePaidFor'
    <2>1. ASSUME NEW p \in copies PROVE p[2] \in 1..row'[p[1]].attempts
      BY <1>4, <1>7 DEF IInv, CopiesArePaidFor
    <2>2. ASSUME NEW v \in Worker, NEW c \in batch'[v], \A x \in outcome'[v] : x.claim # c
          PROVE  <<c.id, c.n>> \notin copies
      <3>1. c \in batch[v] /\ \A x \in outcome[v] : x.claim # c
        BY <1>6, <1>7, <2>2
      <3>. QED BY <3>1 DEF IInv, CopiesArePaidFor
    <2>. QED BY <1>2, <2>1, <2>2 DEF CopiesArePaidFor
  <1>10. SecretWhileQueued'
    <2>1. ASSUME NEW m \in Message
          PROVE  row'[m].secret <=> (m \in OneTime /\ row'[m].status \in Queued)
      <3>1. CASE m # t \/ row[t].status # "sending"
        BY <1>4, <3>1 DEF IInv, SecretWhileQueued
      <3>2. CASE m = t /\ row[t].status = "sending" /\ o.status = "retry"
        BY <1>5, <3>2 DEF IInv, SecretWhileQueued, Queued
      <3>3. CASE m = t /\ row[t].status = "sending" /\ o.status # "retry"
        BY <1>5, <3>3 DEF Queued
      <3>. QED BY <3>1, <3>2, <3>3
    <2>. QED BY <1>7, <2>1 DEF IInv, SecretWhileQueued
  <1>11. ASSUME t \notin disturbed
         PROVE  /\ row[t].status = "sending" /\ row'[t].status # "sending"
                /\ t \notin Held'
    <2>1. row[t].status = "sending"
      BY <1>3, <1>11 DEF IInv, LeaseExcludes, Held
    <2>2. row'[t].status # "sending"
      BY <1>5, <2>1
    <2>3. ASSUME NEW v \in Worker, NEW c \in batch'[v], c.id = t
          PROVE  FALSE
      <3>1. v = w /\ c = o.claim
        BY <1>3, <1>7, <1>11, <2>3 DEF IInv, LeaseExcludes
      <3>. QED BY <1>6, <3>1
    <2>4. t \notin Held'
      BY <2>3 DEF Held
    <2>. QED BY <2>1, <2>2, <2>4
  <1>12. LeaseExcludes'
    <2> SUFFICES ASSUME NEW m \in Message, m \notin disturbed
                 PROVE  /\ \A v, u \in Worker : \A c \in batch'[v], d \in batch'[u] :
                             c.id = m /\ d.id = m => v = u /\ c = d
                        /\ m \in Held' <=> row'[m].status = "sending"
                        /\ \A p, q \in copies : p[1] = m /\ q[1] = m => p = q
      BY <1>2 DEF LeaseExcludes
    <2>1. /\ \A v, u \in Worker : \A c \in batch'[v], d \in batch'[u] :
               c.id = m /\ d.id = m => v = u /\ c = d
          /\ \A p, q \in copies : p[1] = m /\ q[1] = m => p = q
      BY <1>7 DEF IInv, LeaseExcludes
    <2>2. CASE m = t
      BY <1>11, <2>1, <2>2
    <2>3. CASE m # t
      <3>1. m \in Held' <=> m \in Held
        <4>1. ASSUME NEW v \in Worker, NEW c \in batch[v], c.id = m
              PROVE  c \in batch'[v]
          BY <1>6, <2>3, <4>1
        <4>. QED BY <1>7, <4>1 DEF Held
      <3>. QED BY <1>4, <2>1, <2>3, <3>1 DEF IInv, LeaseExcludes
    <2>. QED BY <2>2, <2>3
  <1>13. OutcomeOfHeldClaim'
    BY <1>2, <1>6 DEF IInv, OutcomeOfHeldClaim
  <1>14. NewIsUntouched'
    <2>1. row'[t].status = "new" => row[t].status = "new"
      BY <1>4, <1>5
    <2>. QED BY <1>3, <1>4, <2>1 DEF IInv, NewIsUntouched
  <1>15. LeaseRuns'
    BY <1>2, <1>4, <1>11 DEF IInv, LeaseRuns
  <1>16. CopyIsRecorded'
    <2> SUFFICES ASSUME NEW p \in copies, p[1] \notin disturbed,
                        row'[p[1]].status \notin {"sent", "gone"}
                 PROVE  \E v \in Worker : \E x \in outcome'[v] :
                          x.claim.id = p[1] /\ x.status = "sent"
      BY <1>2 DEF CopyIsRecorded
    <2>1. p[1] # t \/ o.status # "sent"
      BY <1>5, <1>11
    <2>2. row[p[1]].status \notin {"sent", "gone"}
      BY <1>4, <1>5, <1>7
    <2>3. PICK v \in Worker : \E x \in outcome[v] : x.claim.id = p[1] /\ x.status = "sent"
      BY <2>2 DEF IInv, CopyIsRecorded
    <2>4. v # w
      BY <1>7, <2>1, <2>3
    <2>. QED BY <1>6, <2>3, <2>4
  <1>. QED
    BY <1>8, <1>9, <1>10, <1>12, <1>13, <1>14, <1>15, <1>16 DEF IInv

LEMMA InductiveStep == IInv /\ [Next]_vars => IInv'
  <1> SUFFICES ASSUME IInv, [Next]_vars PROVE IInv'
    OBVIOUS
  <1>1. TypeOK'
    BY TypeStep DEF IInv
  <1>2. CASE UNCHANGED vars
    BY <1>1, <1>2 DEF vars, IInv, ClaimsNumbered, CopiesArePaidFor, SecretWhileQueued,
                      LeaseExcludes, Held, OutcomeOfHeldClaim, NewIsUntouched, LeaseRuns,
                      CopyIsRecorded
  <1>. QED
    BY <1>1, <1>2, EnqueueKeeps, EraseKeeps, ClaimKeeps, AttemptKeeps, RecordKeeps,
       CrashKeeps, TickKeeps DEF Next

LEMMA Invariance == Spec => []IInv
  <1>1. Init => IInv
    BY DEF Init, IInv, TypeOK, Status, Queued, Final, ClaimsNumbered, CopiesArePaidFor,
           SecretWhileQueued, LeaseExcludes, Held, OutcomeOfHeldClaim, NewIsUntouched,
           LeaseRuns, CopyIsRecorded
  <1>. QED
    BY <1>1, InductiveStep, PTL DEF Spec

(* No two claims on a message that workers hold share an attempt number,   *)
(* and none is ahead of the row.                                           *)
THEOREM ClaimsAreNumbered == Spec => []ClaimsNumbered
  <1>1. IInv => ClaimsNumbered
    BY DEF IInv
  <1>. QED
    BY <1>1, Invariance, PTL

(* Every copy at the mail server is paid for by an attempt of its own.     *)
THEOREM CopiesPaidFor == Spec => []CopiesArePaidFor
  <1>1. IInv => CopiesArePaidFor
    BY DEF IInv
  <1>. QED
    BY <1>1, Invariance, PTL

(* A one-time secret lives exactly as long as its message is queued.       *)
THEOREM SecretsKept == Spec => []SecretWhileQueued
  <1>1. IInv => SecretWhileQueued
    BY DEF IInv
  <1>. QED
    BY <1>1, Invariance, PTL

(* The lease is mutual exclusion for every message that no crash, overrun  *)
(* or lost answer has touched.                                             *)
THEOREM LeaseExclusion == Spec => []LeaseExcludes
  <1>1. IInv => LeaseExcludes
    BY DEF IInv
  <1>. QED
    BY <1>1, Invariance, PTL

-----------------------------------------------------------------------------
(* What a step does to the statuses of the table and the copies sent.      *)
LEMMA StepEffect ==
  ASSUME IInv, [Next]_vars
  PROVE  \/ /\ \A m \in Message : row'[m].status = row[m].status
            /\ \/ copies' = copies
               \/ \E t \in Message : \E n \in Nat :
                    row[t].status # "new" /\ copies' = copies \cup {<<t, n>>}
         \/ \E t \in Message : /\ \A m \in Message \ {t} : row'[m] = row[m]
                               /\ \/ row[t].status = "new" /\ row'[t].status = "pending"
                                  \/ /\ row[t].status \in {"pending"} \cup Final
                                     /\ row'[t].status = "gone"
                                  \/ /\ row[t].status = "sending"
                                     /\ row'[t].status \in {"pending", "dead_letter"}
                                  \/ /\ row[t].status = "sending"
                                     /\ row'[t].status = "sent"
                                     /\ \E p \in copies : p[1] = t
                               /\ copies' = copies
         \/ /\ \A m \in Message : \/ row'[m] = row[m]
                                  \/ row[m].status \in Queued /\ row'[m].status = "sending"
            /\ copies' = copies
  <1>1. ASSUME NEW m \in Message, Enqueue(m)
        PROVE  /\ \A x \in Message \ {m} : row'[x] = row[x]
               /\ row[m].status = "new" /\ row'[m].status = "pending" /\ copies' = copies
    BY <1>1 DEF Enqueue, IInv, TypeOK
  <1>2. ASSUME NEW m \in Message, Erase(m)
        PROVE  /\ \A x \in Message \ {m} : row'[x] = row[x]
               /\ row[m].status \in {"pending"} \cup Final /\ row'[m].status = "gone"
               /\ copies' = copies
    BY <1>2 DEF Erase, IInv, TypeOK
  <1>3. ASSUME NEW w \in Worker, ClaimBatch(w)
        PROVE  /\ \A m \in Message : \/ row'[m] = row[m]
                                     \/ row[m].status \in Queued /\ row'[m].status = "sending"
               /\ copies' = copies
    BY <1>3, LeasedType DEF ClaimBatch, Due, IInv
  <1>4. ASSUME NEW w \in Worker, Attempt(w)
        PROVE  /\ row' = row
               /\ \/ copies' = copies
                  \/ \E t \in Message : \E n \in Nat :
                       row[t].status # "new" /\ copies' = copies \cup {<<t, n>>}
    <2>1. PICK c \in batch[w] : copies' = copies \/ copies' = copies \cup {<<c.id, c.n>>}
      BY <1>4, AttemptEffect DEF IInv
    <2>2. c.id \in Message /\ c.n \in Nat /\ row[c.id].attempts # 0
      BY DEF IInv, TypeOK, Claim, ClaimsNumbered
    <2>. QED BY <1>4, <2>1, <2>2 DEF Attempt, IInv, NewIsUntouched
  <1>5. ASSUME NEW w \in Worker, Record(w)
        PROVE  \/ row' = row /\ copies' = copies
               \/ \E t \in Message : /\ \A m \in Message \ {t} : row'[m] = row[m]
                                     /\ row[t].status = "sending"
                                     /\ \/ row'[t].status \in {"pending", "dead_letter"}
                                        \/ /\ row'[t].status = "sent"
                                           /\ \E p \in copies : p[1] = t
                                     /\ copies' = copies
    <2>1. PICK o \in outcome[w] : row' = IF Recordable(row[o.claim.id])
                                         THEN [row EXCEPT ![o.claim.id] = Recorded(@, o)]
                                         ELSE row
      BY <1>5 DEF Record
    <2>2. /\ o \in Outcome /\ o.claim.id \in Message
          /\ o.status = "sent" => <<o.claim.id, o.claim.n>> \in copies
      BY DEF IInv, TypeOK, Outcome, Claim, OutcomeOfHeldClaim
    <2>3. CASE ~Recordable(row[o.claim.id])
      BY <1>5, <2>1, <2>3 DEF Record
    <2>4. CASE Recordable(row[o.claim.id])
      <3>1. /\ row' = [row EXCEPT ![o.claim.id] = Recorded(row[o.claim.id], o)]
            /\ row[o.claim.id].status = "sending"
            /\ copies' = copies
        BY <1>5, <2>1, <2>4 DEF Recordable, Record
      <3>2. \A m \in Message \ {o.claim.id} : row'[m] = row[m]
        BY <3>1 DEF IInv, TypeOK
      <3>3. row'[o.claim.id] = Recorded(row[o.claim.id], o)
        BY <2>2, <3>1 DEF IInv, TypeOK
      <3>4. \/ o.status = "retry" /\ row'[o.claim.id].status = "pending"
            \/ o.status = "dead_letter" /\ row'[o.claim.id].status = "dead_letter"
            \/ o.status = "sent" /\ row'[o.claim.id].status = "sent"
        <4>1. o.status \in {"sent", "retry", "dead_letter"}
          BY <2>2 DEF Outcome
        <4>2. /\ o.status = "retry" => Recorded(row[o.claim.id], o).status = "pending"
              /\ o.status # "retry" => Recorded(row[o.claim.id], o).status = o.status
          BY <2>2, RecordedType DEF IInv
        <4>. QED BY <3>3, <4>1, <4>2
      <3>5. o.status = "sent" => \E p \in copies : p[1] = o.claim.id
        <4>1. o.status = "sent" => <<o.claim.id, o.claim.n>> \in copies
          BY <2>2
        <4>2. <<o.claim.id, o.claim.n>>[1] = o.claim.id
          OBVIOUS
        <4>. QED BY <4>1, <4>2
      <3>. QED BY <2>2, <3>1, <3>2, <3>4, <3>5
    <2>. QED BY <2>3, <2>4
  <1>6. ASSUME NEW w \in Worker, Crash(w) PROVE row' = row /\ copies' = copies
    BY <1>6 DEF Crash
  <1>7. ASSUME Tick
        PROVE  (\A m \in Message : row'[m].status = row[m].status) /\ copies' = copies
    BY <1>7 DEF Tick, IInv, TypeOK
  <1>. QED
    BY <1>1, <1>2, <1>3, <1>4, <1>5, <1>6, <1>7 DEF Next, vars

(* Once sent or dead-lettered a message is never claimed, reopened or      *)
(* overwritten, however late a slower worker records its own outcome.      *)
THEOREM FinalityHolds == Spec => FinalIsFinal
  <1>1. ASSUME IInv, [Next]_vars
        PROVE  \A m \in Message :
                 row[m].status \in Final => row'[m].status \in {row[m].status, "gone"}
    BY <1>1, StepEffect DEF Queued, Final
  <1>. QED
    BY <1>1, Invariance, PTL DEF Spec, FinalIsFinal

(* The table and its workers implement the promise made to the application. *)
THEOREM PromiseKept == Spec => ImplementsPromise
  <1>1. Init => Promise!Init
    BY DEF Init, Promise!Init, Ledger, Queued
  <1>2. ASSUME IInv, [Next]_vars
        PROVE  Promise!Next \/ UNCHANGED <<Ledger, copies>>
    <2>1. CASE /\ \A m \in Message : row'[m].status = row[m].status
               /\ \/ copies' = copies
                  \/ \E t \in Message : \E n \in Nat :
                       row[t].status # "new" /\ copies' = copies \cup {<<t, n>>}
      <3>1. Ledger' = Ledger
        BY <2>1 DEF Ledger
      <3>2. ASSUME NEW t \in Message, NEW n \in Nat, row[t].status # "new",
                   copies' = copies \cup {<<t, n>>}, copies' # copies
            PROVE  Promise!Deliver(t)
        <4>1. Ledger[t] # "new"
          BY <3>2 DEF Ledger, Queued
        <4>2. <<t, n>> \in copies' \ copies /\ <<t, n>>[1] = t
          BY <3>2
        <4>. QED BY <3>1, <3>2, <4>1, <4>2 DEF Promise!Deliver
      <3>. QED BY <2>1, <3>1, <3>2 DEF Promise!Next
    <2>2. CASE /\ \A m \in Message : \/ row'[m] = row[m]
                                     \/ row[m].status \in Queued /\ row'[m].status = "sending"
               /\ copies' = copies
      <3>1. Ledger' = Ledger
        BY <2>2 DEF Ledger, Queued
      <3>. QED BY <2>2, <3>1
    <2>3. ASSUME NEW t \in Message, \A m \in Message \ {t} : row'[m] = row[m],
                 copies' = copies
          PROVE  /\ Ledger' = [Ledger EXCEPT ![t] = Ledger'[t]]
                 /\ Ledger[t] = IF row[t].status \in Queued THEN "queued" ELSE row[t].status
                 /\ Ledger'[t] = IF row'[t].status \in Queued THEN "queued" ELSE row'[t].status
      BY <2>3 DEF Ledger
    <2>4. ASSUME NEW t \in Message, \A m \in Message \ {t} : row'[m] = row[m],
                 row[t].status = "new", row'[t].status = "pending", copies' = copies
          PROVE  Promise!Queue(t)
      BY <2>3, <2>4 DEF Promise!Queue, Queued
    <2>5. ASSUME NEW t \in Message, \A m \in Message \ {t} : row'[m] = row[m],
                 row[t].status \in {"pending"} \cup Final, row'[t].status = "gone",
                 copies' = copies
          PROVE  Promise!Erase(t)
      BY <2>3, <2>5 DEF Promise!Erase, Queued, Final
    <2>6. ASSUME NEW t \in Message, \A m \in Message \ {t} : row'[m] = row[m],
                 row[t].status = "sending", row'[t].status \in {"pending", "dead_letter"},
                 copies' = copies
          PROVE  Promise!GiveUp(t) \/ UNCHANGED <<Ledger, copies>>
      <3>1. CASE row'[t].status = "dead_letter"
        BY <2>3, <2>6, <3>1 DEF Promise!GiveUp, Queued
      <3>2. CASE row'[t].status = "pending"
        <4>1. Ledger' = Ledger
          BY <2>6, <3>2 DEF Ledger, Queued
        <4>. QED BY <2>6, <4>1
      <3>. QED BY <2>6, <3>1, <3>2
    <2>7. ASSUME NEW t \in Message, \A m \in Message \ {t} : row'[m] = row[m],
                 row[t].status = "sending", row'[t].status = "sent",
                 \E p \in copies : p[1] = t, copies' = copies
          PROVE  Promise!Send(t)
      BY <2>3, <2>7 DEF Promise!Send, Queued
    <2>. QED
      BY <1>2, <2>1, <2>2, <2>4, <2>5, <2>6, <2>7, StepEffect DEF Promise!Next
  <1>. QED
    BY <1>1, <1>2, Invariance, PTL DEF Spec, ImplementsPromise
=============================================================================
