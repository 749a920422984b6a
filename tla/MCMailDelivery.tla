--------------------------- MODULE MCMailDelivery ---------------------------
(* The e-mail outbox on small instances, for TLC. *)
EXTENDS MailDelivery, TLC

Symmetry == Permutations(Message) \cup Permutations(Worker)
=============================================================================
