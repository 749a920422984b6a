------------------------------- MODULE Webhooks ------------------------------
(***************************************************************************)
(* Notification rules, in-app notices and webhook deliveries               *)
(* (application/notifications/service.py and the router).                  *)
(*                                                                         *)
(* A worker claims a batch of due deliveries FOR UPDATE SKIP LOCKED, posts *)
(* each and commits what came of all of them at the end: what an aborted   *)
(* batch has posted is posted again and is not counted anywhere.           *)
(***************************************************************************)
EXTENDS Requests

CONSTANTS
  Endpoint,     (* Webhook endpoints. *)
  Severity,     (* Ranks of severity. *)
  MaxAttempts,  (* _MAX_DELIVERY_ATTEMPTS *)
  BatchLimit    (* The most deliveries of a batch. *)

ASSUME WebhooksAssumption ==
  /\ Severity \subseteq Nat
  /\ MaxAttempts \in Nat \ {0}
  /\ BatchLimit \in Nat \ {0}

VARIABLES
  rules,     (* Notification rules, in order. *)
  hook,      (* The row of each endpoint. *)
  notices,   (* In-app notifications, in order: whether each was read. *)
  delivery,  (* Webhook deliveries, in order. *)
  posts      (* History, per delivery: requests that reached the receiver,
                those of them that an aborted batch has forgotten, and the
                attempts counted before it was last queued again. *)

webhookVars == <<rules, hook, notices, delivery, posts>>

RuleRow == [min : Severity, channels : SUBSET {"in_app", "webhook"}]

(* due: next_attempt_at has come.  A row that is deleted is "gone".         *)
DeliveryRow == [endpoint : Endpoint, attempts : 0..MaxAttempts, due : BOOLEAN,
                status : {"pending", "delivered", "dead_letter", "gone"}]

WebhooksInit ==
  /\ rules = <<>>
  /\ hook = [h \in Endpoint |-> "none"]
  /\ notices = <<>>
  /\ delivery = <<>>
  /\ posts = <<>>

(* Endpoints someone is deleting: their rows are locked.                    *)
Deleting == {call[p].row : p \in Doing("delete_webhook")}

(* Deliveries a batch has claimed.                                          *)
Claimed == UNION {DOMAIN call[p].result : p \in Doing("deliver")}

-----------------------------------------------------------------------------
(* Rules, endpoints and notices *)

CreateRule(min, channels) ==
  /\ AtOnce("webhooks")
  /\ rules' = Append(rules, [min |-> min, channels |-> channels])
  /\ UNCHANGED <<hook, notices, delivery, posts>>

CreateWebhook(h) ==
  /\ hook[h] = "none"
  /\ AtOnce("webhooks")
  /\ hook' = [hook EXCEPT ![h] = "active"]
  /\ UNCHANGED <<rules, notices, delivery, posts>>

UpdateWebhook(h, status) ==
  /\ hook[h] \in {"active", "inactive"} \ {status}
  /\ h \notin Deleting
  /\ AtOnce("webhooks")
  /\ hook' = [hook EXCEPT ![h] = status]
  /\ UNCHANGED <<rules, notices, delivery, posts>>

(* The delete cascades to the deliveries and waits for claimed ones.        *)
DeleteWebhook(p, h) ==
  /\ hook[h] \in {"active", "inactive"}
  /\ h \notin Deleting
  /\ Begin(p, "webhooks", [op |-> "delete_webhook", row |-> h])
  /\ UNCHANGED webhookVars

CommitDeleteWebhook(p) ==
  LET h == call[p].row
  IN /\ call[p].op = "delete_webhook"
     /\ \A d \in Claimed : delivery[d].endpoint # h
     /\ hook' = [hook EXCEPT ![h] = "gone"]
     /\ delivery' = [d \in DOMAIN delivery |->
                       IF delivery[d].endpoint = h
                         THEN [delivery[d] EXCEPT !.status = "gone"]
                         ELSE delivery[d]]
     /\ Return(p)
     /\ UNCHANGED <<rules, notices, posts>>

MarkRead(n) ==
  /\ ~notices[n]
  /\ AtOnce("webhooks")
  /\ notices' = [notices EXCEPT ![n] = TRUE]
  /\ UNCHANGED <<rules, hook, delivery, posts>>

-----------------------------------------------------------------------------
(* Queueing *)

(* One new delivery for each endpoint of the sequence hs.                   *)
Queue(hs) ==
  /\ delivery' = delivery \o [i \in DOMAIN hs |->
       [endpoint |-> hs[i], attempts |-> 0, due |-> TRUE, status |-> "pending"]]
  /\ posts' = posts \o [i \in DOMAIN hs |-> [received |-> 0, forgotten |-> 0, earlier |-> 0]]

(* Whether the endpoint is active does not matter to a test.                *)
SendTest(h) ==
  /\ hook[h] \in {"active", "inactive"}
  /\ h \notin Deleting
  /\ AtOnce("webhooks")
  /\ Queue(<<h>>)
  /\ UNCHANGED <<rules, hook, notices>>

(* In the order of hs, once for each of n rules.                            *)
Times(n, hs) == [i \in 1..(n * Len(hs)) |-> hs[((i - 1) % Len(hs)) + 1]]

(* A new safety event: a notice for each rule that it reaches with in_app   *)
(* among its channels, and for each with webhook a delivery to each active  *)
(* endpoint.                                                                *)
OnSafetyEvent(severity, hs) ==
  LET reached(c) == {r \in DOMAIN rules : /\ severity >= rules[r].min
                                          /\ c \in rules[r].channels}
      active == {h \in Endpoint : hook[h] = "active"}
  IN /\ {hs[i] : i \in DOMAIN hs} = active /\ Len(hs) = Cardinality(active)
     /\ active \cap Deleting = {} \/ reached("webhook") = {}
     /\ AtOnce("webhooks")
     /\ notices' = notices \o [i \in 1..Cardinality(reached("in_app")) |-> FALSE]
     /\ Queue(Times(Cardinality(reached("webhook")), hs))
     /\ UNCHANGED <<rules, hook>>

-----------------------------------------------------------------------------
(* Delivering *)

Due == {d \in DOMAIN delivery : delivery[d].status = "pending" /\ delivery[d].due}

(* Without SKIP LOCKED.                                                     *)
AnyDue == Due

(* Due deliveries that no other batch has locked.                           *)
Unclaimed == Due \ Claimed

(* At most BatchLimit of them, and all when there are no more; whether an   *)
(* endpoint is still active is not looked at.                               *)
DeliverPending(p, batch) ==
  /\ batch \subseteq Unclaimed /\ batch # {}
  /\ Cardinality(batch) <= BatchLimit
  /\ Cardinality(batch) < BatchLimit => batch = Unclaimed
  /\ Begin(p, "webhooks", [op |-> "deliver", result |-> [d \in batch |-> "unsent"]])
  /\ UNCHANGED webhookVars

(* ok is any 2xx; refused another answer; unanswered a timeout after the    *)
(* request has arrived; failed an error before it: of the URL, the key, the *)
(* name or the connection.                                                  *)
Outcome == {"ok", "refused", "unanswered", "failed"}

Arrived == Outcome \ {"failed"}

SendOne(p, d, outcome) ==
  /\ call[p].op = "deliver" /\ d \in DOMAIN call[p].result
  /\ call[p].result[d] = "unsent"
  /\ Continue(p, [call[p] EXCEPT !.result[d] = outcome])
  /\ posts' = IF outcome \in Arrived
                THEN [posts EXCEPT ![d].received = @ + 1] ELSE posts
  /\ UNCHANGED <<rules, hook, notices, delivery>>

(* With an attempt counted only when the receiver has answered.             *)
SentAnswered(row, outcome) ==
  IF outcome = "ok" THEN [row EXCEPT !.status = "delivered"]
  ELSE IF outcome = "refused" /\ row.attempts + 1 >= MaxAttempts
    THEN [row EXCEPT !.attempts = @ + 1, !.status = "dead_letter"]
  ELSE [row EXCEPT !.attempts = IF outcome = "refused" THEN @ + 1 ELSE @,
                   !.due = FALSE]

Sent(row, outcome) ==
  IF outcome = "ok" THEN [row EXCEPT !.status = "delivered"]
  ELSE IF row.attempts + 1 >= MaxAttempts
    THEN [row EXCEPT !.attempts = @ + 1, !.status = "dead_letter"]
  ELSE [row EXCEPT !.attempts = @ + 1, !.due = FALSE]

(* The endpoints' rows are written too: a batch waits for one being deleted.*)
CommitDeliveries(p) ==
  /\ call[p].op = "deliver"
  /\ \A d \in DOMAIN call[p].result : /\ call[p].result[d] # "unsent"
                                      /\ delivery[d].endpoint \notin Deleting
  /\ delivery' = [d \in DOMAIN delivery |->
       IF d \in DOMAIN call[p].result THEN Sent(delivery[d], call[p].result[d])
                                      ELSE delivery[d]]
  /\ Return(p)
  /\ UNCHANGED <<rules, hook, notices, posts>>

(* Posts of p's batch that arrived and are not committed.                   *)
ArrivedIn(p, d) ==
  IF call[p].op # "deliver" \/ d \notin DOMAIN call[p].result THEN 0
  ELSE IF call[p].result[d] \in Arrived THEN 1 ELSE 0

(* The worker dies, an error that _send_one does not catch, or a deadlock   *)
(* of a batch and a delete of its endpoint, which takes one of the two.     *)
AbortWebhooks(p) ==
  /\ call[p].op \in {"deliver", "delete_webhook"}
  /\ posts' = [d \in DOMAIN posts |->
                 [posts[d] EXCEPT !.forgotten = @ + ArrivedIn(p, d)]]
  /\ Return(p)
  /\ UNCHANGED <<rules, hook, notices, delivery>>

BackoffEnds(d) ==
  /\ delivery[d].status = "pending" /\ ~delivery[d].due
  /\ delivery' = [delivery EXCEPT ![d].due = TRUE]
  /\ UNCHANGED <<rules, hook, notices, posts, requestVars>>

(* An operator queues a dead letter again, as the runbook says              *)
(* (docs/operations/runbook.md:69), and its attempts start over.            *)
Requeue(d) ==
  /\ delivery[d].status = "dead_letter"
  /\ AtOnce("runbook")
  /\ delivery' = [delivery EXCEPT ![d].status = "pending", ![d].attempts = 0]
  /\ posts' = [posts EXCEPT ![d].earlier = @ + delivery[d].attempts]
  /\ UNCHANGED <<rules, hook, notices>>

WebhooksStep ==
  \/ \E min \in Severity, channels \in SUBSET {"in_app", "webhook"} :
       CreateRule(min, channels)
  \/ \E h \in Endpoint : \/ CreateWebhook(h) \/ SendTest(h)
                         \/ \E status \in {"active", "inactive"} : UpdateWebhook(h, status)
  \/ \E p \in Process, h \in Endpoint : DeleteWebhook(p, h)
  \/ \E n \in DOMAIN notices : MarkRead(n)
  \/ \E severity \in Severity, n \in 0..Cardinality(Endpoint) :
       \E hs \in [1..n -> Endpoint] : OnSafetyEvent(severity, hs)
  \/ \E p \in Process, batch \in SUBSET Unclaimed : DeliverPending(p, batch)
  \/ \E p \in Process, d \in DOMAIN delivery, outcome \in Outcome : SendOne(p, d, outcome)
  \/ \E d \in DOMAIN delivery : BackoffEnds(d) \/ Requeue(d)
  \/ \E p \in Process : \/ CommitDeliveries(p) \/ CommitDeleteWebhook(p)
                        \/ AbortWebhooks(p)

-----------------------------------------------------------------------------
WebhooksTypeOK ==
  /\ rules \in Seq(RuleRow)
  /\ hook \in [Endpoint -> {"none", "active", "inactive", "gone"}]
  /\ notices \in Seq(BOOLEAN)
  /\ delivery \in Seq(DeliveryRow)
  /\ posts \in Seq([received : Nat, forgotten : Nat, earlier : Nat])

(* What a receiver has seen of a delivery is in its row: as many posts as   *)
(* the row counts attempts, one more when it is delivered, apart from those *)
(* of batches that died or that are not committed yet, and from those that  *)
(* were counted before an operator queued it again.  No two workers post    *)
(* one delivery at a time, a delivered one has arrived, and one that is     *)
(* given up was given up on its last attempt.                               *)
PostsAccountedFor ==
  \A d \in DOMAIN delivery :
    LET row == delivery[d]
        holders == {p \in Doing("deliver") : d \in DOMAIN call[p].result}
        open == {p \in holders : ArrivedIn(p, d) = 1}
    IN /\ Cardinality(holders) <= 1
       /\ row.status # "gone" =>
            /\ posts[d].received <= row.attempts
                 + (IF row.status = "delivered" THEN 1 ELSE 0)
                 + posts[d].earlier + posts[d].forgotten + Cardinality(open)
            /\ row.status = "delivered" => posts[d].received > 0
            /\ row.status = "dead_letter" <=> row.attempts = MaxAttempts

(* A delivery as its receiver and the application see it.                   *)
Ledger ==
  [d \in DOMAIN delivery |->
     [state |-> IF delivery[d].status # "pending" THEN delivery[d].status
                ELSE IF \E p \in Process : ArrivedIn(p, d) = 1 THEN "told" ELSE "owed",
      tries |-> delivery[d].attempts,
      seen  |-> posts[d].received,
      lost  |-> posts[d].forgotten]]

Promise == INSTANCE WebhookPromise WITH ledger <- Ledger

(* Webhook delivery implements its promise: whatever batches claim, post,   *)
(* commit and lose at once, a receiver is told again only when the last     *)
(* time was counted or lost, a delivery is accepted only when it was told,  *)
(* each counted failure is one attempt, and the last of them gives it up    *)
(* until an operator queues it again.                                       *)
ImplementsPromise == Promise!Init /\ [][Promise!Next]_Ledger
=============================================================================
