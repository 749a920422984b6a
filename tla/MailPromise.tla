----------------------------- MODULE MailPromise -----------------------------
(***************************************************************************)
(* What the e-mail outbox promises to the code that queues a message: the  *)
(* message is handed to the mail server at least once before it counts as  *)
(* sent, and it is in the end sent, given up or erased.  Copies may arrive *)
(* more than once and even after the message is settled, which is why all  *)
(* of them carry the same Message-ID.                                      *)
(***************************************************************************)
CONSTANT Message

VARIABLES
  ledger,   (* What the application is told of each message.               *)
  copies    (* Copies accepted for the recipient, numbered per message.    *)

vars == <<ledger, copies>>

Settled == {"sent", "dead_letter", "gone"}

Init ==
  /\ ledger = [m \in Message |-> "new"]
  /\ copies = {}

Queue(m) ==
  /\ ledger[m] = "new"
  /\ ledger' = [ledger EXCEPT ![m] = "queued"]
  /\ UNCHANGED copies

(* One copy reaches the recipient; never before the message was queued.    *)
Deliver(m) ==
  /\ ledger[m] # "new"
  /\ \E p \in copies' \ copies : p[1] = m /\ copies' = copies \cup {p}
  /\ UNCHANGED ledger

Send(m) ==
  /\ ledger[m] = "queued"
  /\ \E p \in copies : p[1] = m
  /\ ledger' = [ledger EXCEPT ![m] = "sent"]
  /\ UNCHANGED copies

GiveUp(m) ==
  /\ ledger[m] = "queued"
  /\ ledger' = [ledger EXCEPT ![m] = "dead_letter"]
  /\ UNCHANGED copies

Erase(m) ==
  /\ ledger[m] \in {"queued", "sent", "dead_letter"}
  /\ ledger' = [ledger EXCEPT ![m] = "gone"]
  /\ UNCHANGED copies

Next ==
  \E m \in Message : Queue(m) \/ Deliver(m) \/ Send(m) \/ GiveUp(m) \/ Erase(m)

Spec == Init /\ [][Next]_vars

(* A queued message does not stay queued.                                  *)
Settles == \A m \in Message : ledger[m] = "queued" ~> ledger[m] \in Settled
==============================================================================
