---------------------------- MODULE WebhookPromise ---------------------------
(***************************************************************************)
(* What webhook delivery promises about each thing it has to tell a        *)
(* receiver: the receiver is told once per attempt and by one sender at a  *)
(* time, until it has accepted or MaxAttempts of them have failed, and     *)
(* again from the first attempt on if an operator queues it again.  Only a *)
(* batch that is lost has told it something that is never counted.         *)
(***************************************************************************)
EXTENDS Naturals

CONSTANT MaxAttempts

(* For each delivery that was ever queued: whether it is owed, told and not *)
(* counted yet, or over; the attempts that are counted; how often it was    *)
(* seen by its receiver, and how many of those times were lost.             *)
VARIABLE ledger

Queued == [state |-> "owed", tries |-> 0, seen |-> 0, lost |-> 0]

Init == DOMAIN ledger = {}

(* Deliveries are only ever added. *)
Queue ==
  /\ DOMAIN ledger \subseteq DOMAIN ledger'
  /\ ledger' = [d \in DOMAIN ledger' |-> IF d \in DOMAIN ledger THEN ledger[d] ELSE Queued]

Told(r) == [r EXCEPT !.state = "told", !.seen = @ + 1]

Lost(r) == [r EXCEPT !.state = "owed", !.lost = @ + 1]

Requeued(r) == [r EXCEPT !.state = "owed", !.tries = 0]

Accepted(r) == [r EXCEPT !.state = "delivered"]

Refused(r) ==
  [r EXCEPT !.state = IF r.tries + 1 = MaxAttempts THEN "dead_letter" ELSE "owed",
            !.tries = @ + 1]

(* The receiver is told, and what it said is not counted yet. *)
Tell(d) ==
  /\ ledger[d].state = "owed"
  /\ ledger' = [ledger EXCEPT ![d] = Told(@)]

(* A batch is counted: A are those whose receiver has been told and accepts,*)
(* R those that failed, before the receiver was told or after.              *)
Settle(A, R) ==
  /\ A \cap R = {}
  /\ \A d \in A : ledger[d].state = "told"
  /\ \A d \in R : ledger[d].state \in {"owed", "told"}
  /\ ledger' = [d \in DOMAIN ledger |-> IF d \in A THEN Accepted(ledger[d])
                                        ELSE IF d \in R THEN Refused(ledger[d])
                                        ELSE ledger[d]]

(* A delivery that was given up starts over. *)
Requeue(d) ==
  /\ ledger[d].state = "dead_letter"
  /\ ledger' = [ledger EXCEPT ![d] = Requeued(@)]

(* A batch is lost with all that its receivers have been told. *)
Lose(L) ==
  /\ \A d \in L : ledger[d].state = "told"
  /\ ledger' = [d \in DOMAIN ledger |-> IF d \in L THEN Lost(ledger[d]) ELSE ledger[d]]

(* The endpoint of these is deleted: nobody is being told. *)
Withdraw(W) ==
  /\ \A d \in W : ledger[d].state # "told"
  /\ ledger' = [d \in DOMAIN ledger |->
                  IF d \in W THEN [ledger[d] EXCEPT !.state = "gone"] ELSE ledger[d]]

Next ==
  \/ Queue
  \/ \E d \in DOMAIN ledger : Tell(d) \/ Requeue(d)
  \/ \E A, R \in SUBSET DOMAIN ledger : Settle(A, R)
  \/ \E D \in SUBSET DOMAIN ledger : Lose(D) \/ Withdraw(D)

Spec == Init /\ [][Next]_ledger
==============================================================================
