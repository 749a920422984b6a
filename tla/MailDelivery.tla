---------------------------- MODULE MailDelivery ----------------------------
(***************************************************************************)
(* The e-mail outbox: rows of email_messages, and the worker processes     *)
(* that deliver them (application/mail/delivery.py).  A worker claims a    *)
(* batch under a lease in one transaction, sends its messages one after    *)
(* the other outside any transaction, and records each outcome in a short  *)
(* transaction of its own.                                                 *)
(*                                                                         *)
(* Time is the number of ticks until a row's next_attempt_at: the code     *)
(* only ever compares that column with the current time, so row[m].wait    *)
(* counts down to 0, the moment the row is due.                            *)
(***************************************************************************)
EXTENDS Integers, FiniteSets

CONSTANTS
  Message,       (* Rows of email_messages, each with its own id.            *)
  Worker,        (* Worker processes of the deployment.                      *)
  OneTime,       (* The messages queued with a secret context: a token link. *)
  MaxAttempts,   (* email_messages.max_attempts, 8 in the code.              *)
  BatchLimit,    (* Messages claimed at once, 20 in the code.                *)
  Lease,         (* SENDING_LEASE, 5 minutes in the code.                    *)
  BackoffBase,   (* First retry delay, 60 seconds in the code.               *)
  BackoffCap,    (* _MAX_BACKOFF_SECONDS, one hour in the code.              *)
  MaxCrashes     (* Bound: worker deaths in a behaviour.                     *)

ASSUME MailAssumption ==
  /\ OneTime \subseteq Message
  /\ MaxAttempts \in Nat \ {0}
  /\ BatchLimit \in Nat \ {0}
  /\ Lease \in Nat \ {0}
  /\ BackoffBase \in Nat \ {0}
  /\ BackoffCap \in Nat \ {0}
  /\ MaxCrashes \in Nat

VARIABLES
  row,        (* The table: status, attempts, wait and whether the secret is there. *)
  batch,      (* Claims a live worker holds, in its memory.                 *)
  outcome,    (* The result of the attempt a worker has not recorded yet.   *)
  copies,     (* History: <<m, n>> when the server accepted attempt n of m. *)
  disturbed,  (* History: messages whose lease ran out under a live holder, *)
              (* whose holder died, or whose server accepted it and failed. *)
  crashes     (* History: number of worker deaths so far.                   *)

vars == <<row, batch, outcome, copies, disturbed, crashes>>

Queued == {"pending", "sending"}
Final  == {"sent", "dead_letter"}
Status == {"new", "gone"} \cup Queued \cup Final

Claim   == [id : Message, n : Nat, secret : BOOLEAN]
Outcome == [claim : Claim, status : {"sent", "retry", "dead_letter"}]

(* min(60 * 2 ** (attempts - 1), 3600); the membership test is the minimum. *)
BackoffFor(n) ==
  LET raw == BackoffBase * 2 ^ (n - 1)
  IN  IF raw \in 0..BackoffCap THEN raw ELSE BackoffCap

-----------------------------------------------------------------------------
Init ==
  /\ row = [m \in Message |->
              [status |-> "new", attempts |-> 0, wait |-> 0, secret |-> FALSE]]
  /\ batch = [w \in Worker |-> {}]
  /\ outcome = [w \in Worker |-> {}]
  /\ copies = {}
  /\ disturbed = {}
  /\ crashes = 0

(* MailService.enqueue, in the transaction of the business change: the row  *)
(* appears when that transaction commits, due at once.  (The IF makes the   *)
(* Boolean plain to the provers.)                                           *)
Enqueue(m) ==
  /\ row[m].status = "new"
  /\ row' = [row EXCEPT ![m] = [status   |-> "pending",
                                attempts |-> 0,
                                wait     |-> 0,
                                secret   |-> IF m \in OneTime THEN TRUE ELSE FALSE]]
  /\ UNCHANGED <<batch, outcome, copies, disturbed, crashes>>

(* The WHERE clause of _claim. *)
DueWithoutLease(m) == row[m].status \in Queued
DueOncePending(m) == row[m].status = "pending" /\ row[m].wait = 0
Due(m) == row[m].status \in Queued /\ row[m].wait = 0

(* What _claim writes to a row, and the snapshot of it the worker keeps. *)
Leased(m) == [status   |-> "sending",
              attempts |-> row[m].attempts + 1,
              wait     |-> Lease,
              secret   |-> row[m].secret]
Snapshot(m, leased) ==
  [id |-> m, n |-> leased.attempts, secret |-> leased.secret]

(* SKIP LOCKED passes over rows other transactions hold, so the batch is    *)
(* any non-empty part of the due rows within the limit.                     *)
ClaimBatch(w) ==
  /\ batch[w] = {}
  /\ \E S \in SUBSET {m \in Message : Due(m)} :
       /\ S # {}
       /\ Cardinality(S) <= BatchLimit
       /\ row' = [m \in Message |-> IF m \in S THEN Leased(m) ELSE row[m]]
       /\ batch' = [batch EXCEPT ![w] = {Snapshot(m, Leased(m)) : m \in S}]
  /\ UNCHANGED <<outcome, copies, disturbed, crashes>>

(* _retry_or_dead judges by the attempt number of the claim.                *)
RetryOrDead(c) == IF c.n >= MaxAttempts THEN "dead_letter" ELSE "retry"

Finished(w, c, status) ==
  outcome' = [outcome EXCEPT ![w] = {[claim |-> c, status |-> status]}]

(* The field cipher is missing or cannot decrypt the secret context.        *)
AttemptUndecryptable(w, c) ==
  /\ c.secret
  /\ Finished(w, c, RetryOrDead(c))
  /\ UNCHANGED <<copies, disturbed>>

(* TemplateRenderError: a variable or the template itself is missing.  A    *)
(* template with a one-time link cannot be rendered without its secret.     *)
Renderable(c) == c.id \in OneTime => c.secret

AttemptUnrenderable(w, c) ==
  /\ Finished(w, c, "dead_letter")
  /\ UNCHANGED <<copies, disturbed>>

AttemptAccepted(w, c) ==
  /\ Renderable(c)
  /\ Finished(w, c, "sent")
  /\ copies' = copies \cup {<<c.id, c.n>>}
  /\ UNCHANGED disturbed

(* MailDeliveryError, permanent (5xx) or transient.  The server may have    *)
(* accepted the message all the same: its answer was lost, or QUIT failed.  *)
AttemptFails(w, c) ==
  /\ Renderable(c)
  /\ \E status \in {"dead_letter", RetryOrDead(c)} : Finished(w, c, status)
  /\ \/ UNCHANGED <<copies, disturbed>>
     \/ /\ copies' = copies \cup {<<c.id, c.n>>}
        /\ disturbed' = disturbed \cup {c.id}

(* _attempt on the next message of the batch.                               *)
Attempt(w) ==
  /\ outcome[w] = {}
  /\ \E c \in batch[w] :
       \/ AttemptUndecryptable(w, c)
       \/ AttemptUnrenderable(w, c)
       \/ AttemptAccepted(w, c)
       \/ AttemptFails(w, c)
  /\ UNCHANGED <<row, batch, crashes>>

(* _record leaves alone a row that is gone or no longer being sent.         *)
Recordable(r) == r.status = "sending"

RecordedWiping(r, o) ==
  IF o.status = "retry"
  THEN [r EXCEPT !.status = "pending", !.wait = BackoffFor(o.claim.n), !.secret = FALSE]
  ELSE [r EXCEPT !.status = o.status, !.secret = FALSE]

RecordedAgain(r, o) ==
  IF o.status = "retry" THEN [r EXCEPT !.status = "pending", !.attempts = @ - 1]
  ELSE [r EXCEPT !.status = o.status, !.secret = FALSE]

RecordedAsSent(r, o) ==
  IF o.status = "retry" THEN [r EXCEPT !.status = "pending"]
  ELSE [r EXCEPT !.status = "sent", !.secret = FALSE]

Recorded(r, o) ==
  CASE o.status = "sent" ->
         [r EXCEPT !.status = "sent", !.secret = FALSE]
    [] o.status = "retry" ->
         [r EXCEPT !.status = "pending", !.wait = BackoffFor(o.claim.n)]
    [] o.status = "dead_letter" ->
         [r EXCEPT !.status = "dead_letter", !.secret = FALSE]

Record(w) ==
  /\ \E o \in outcome[w] :
       /\ row' = IF Recordable(row[o.claim.id])
                 THEN [row EXCEPT ![o.claim.id] = Recorded(@, o)]
                 ELSE row
       /\ batch' = [batch EXCEPT ![w] = @ \ {o.claim}]
  /\ outcome' = [outcome EXCEPT ![w] = {}]
  /\ UNCHANGED <<copies, disturbed, crashes>>

(* The process dies, or an exception other than MailDeliveryError leaves    *)
(* deliver_due: the rest of its batch stays in sending until the lease ends. *)
Crash(w) ==
  /\ crashes < MaxCrashes
  /\ batch[w] # {}
  /\ batch' = [batch EXCEPT ![w] = {}]
  /\ outcome' = [outcome EXCEPT ![w] = {}]
  /\ disturbed' = disturbed \cup {c.id : c \in batch[w]}
  /\ crashes' = crashes + 1
  /\ UNCHANGED <<row, copies>>

(* Erasing a user deletes its messages, save one that is being sent; the    *)
(* retention purge deletes finished ones.                                   *)
Erase(m) ==
  /\ row[m].status \in {"pending"} \cup Final
  /\ row' = [row EXCEPT ![m].status = "gone", ![m].secret = FALSE]
  /\ UNCHANGED <<batch, outcome, copies, disturbed, crashes>>

Held == {c.id : c \in UNION {batch[w] : w \in Worker}}

(* Time passes: a lease that runs out under a live holder is noted.         *)
Tick ==
  /\ \E m \in Message : row[m].wait > 0
  /\ row' = [m \in Message |->
               [row[m] EXCEPT !.wait = IF @ > 0 THEN @ - 1 ELSE 0]]
  /\ disturbed' = disturbed \cup {m \in Held : row[m].wait = 1}
  /\ UNCHANGED <<batch, outcome, copies, crashes>>

Next ==
  \/ \E m \in Message : Enqueue(m) \/ Erase(m)
  \/ \E w \in Worker : ClaimBatch(w) \/ Attempt(w) \/ Record(w) \/ Crash(w)
  \/ Tick

Spec == Init /\ [][Next]_vars

(* run_forever polls again at once or after a second, every SMTP operation  *)
(* has a timeout, and time passes.                                          *)
Fairness ==
  /\ WF_vars(Tick)
  /\ \A w \in Worker :
       WF_vars(ClaimBatch(w)) /\ WF_vars(Attempt(w)) /\ WF_vars(Record(w))

FairSpec == Spec /\ Fairness

-----------------------------------------------------------------------------
TypeOK ==
  /\ row \in [Message -> [status : Status, attempts : Nat, wait : Nat, secret : BOOLEAN]]
  /\ batch \in [Worker -> SUBSET Claim]
  /\ outcome \in [Worker -> SUBSET Outcome]
  /\ copies \subseteq Message \X Nat
  /\ disturbed \subseteq Message
  /\ crashes \in Nat

(* An attempt number is a name for one claim: no two claims on a message    *)
(* that workers hold, at once or one after the other, have the same number, *)
(* and none is ahead of the row.  delivery.py has no other token that tells *)
(* a stale claim from the current one.                                      *)
ClaimsNumbered ==
  \A w, v \in Worker : \A c \in batch[w], d \in batch[v] :
    /\ c.n \in 1..row[c.id].attempts
    /\ c.id = d.id /\ (w # v \/ c # d) => c.n # d.n

(* A claim whose attempt is still to come has never reached the mail        *)
(* server: every copy the recipient gets is paid for by an attempt of its   *)
(* own, so copies never outnumber attempts.                                 *)
CopiesArePaidFor ==
  /\ \A p \in copies : p[2] \in 1..row[p[1]].attempts
  /\ \A w \in Worker : \A c \in batch[w] :
       (\A o \in outcome[w] : o.claim # c) => <<c.id, c.n>> \notin copies

(* The secret of a one-time link is in the row, and in every claim on it,   *)
(* exactly as long as the message may still be sent: a retry can always     *)
(* render, and a finished row keeps no token.                               *)
SecretWhileQueued ==
  /\ \A m \in Message : row[m].secret <=> (m \in OneTime /\ row[m].status \in Queued)
  /\ \A w \in Worker : \A c \in batch[w] : c.secret <=> c.id \in OneTime

(* The lease is mutual exclusion as long as nothing went wrong: a message   *)
(* no crash, lost answer or overrun lease has touched is held by one worker *)
(* exactly while its row is in sending, and reached the server at most once.*)
LeaseExcludes ==
  \A m \in Message \ disturbed :
    /\ \A w, v \in Worker : \A c \in batch[w], d \in batch[v] :
         c.id = m /\ d.id = m => w = v /\ c = d
    /\ m \in Held <=> row[m].status = "sending"
    /\ \A p, q \in copies : p[1] = m /\ q[1] = m => p = q

(* The status is final: what one worker recorded as sent or dead-lettered   *)
(* no slower worker and no lease expiry reopens or overwrites.              *)
FinalIsFinal ==
  [][\A m \in Message :
       row[m].status \in Final => row'[m].status \in {row[m].status, "gone"}]_vars

(* The outbox implements its promise: pending and sending are one state for *)
(* the application, which sees no more of the table than that.              *)
Ledger == [m \in Message |-> IF row[m].status \in Queued THEN "queued" ELSE row[m].status]
Promise == INSTANCE MailPromise WITH ledger <- Ledger

ImplementsPromise == Promise!Init /\ [][Promise!Next]_<<Ledger, copies>>

(* Every queued message is in the end sent, given up or erased, if workers  *)
(* die finitely often.                                                      *)
EventuallySettled == Promise!Settles
=============================================================================
