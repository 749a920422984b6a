----------------------------- MODULE EventHandling ---------------------------
(***************************************************************************)
(* What people and workers do about safety events: review and coaching,    *)
(* media evidence, notices and webhooks.  The three write different tables *)
(* and share the processes.                                                *)
(***************************************************************************)
EXTENDS Coaching, Evidence, Webhooks

vars == <<requestVars, coachingVars, evidenceVars, webhookVars>>

Init == RequestsInit /\ CoachingInit /\ EvidenceInit /\ WebhooksInit

Next ==
  \/ CoachingStep /\ UNCHANGED <<evidenceVars, webhookVars>>
  \/ EvidenceStep /\ UNCHANGED <<coachingVars, webhookVars>>
  \/ WebhooksStep /\ UNCHANGED <<coachingVars, evidenceVars>>

Spec == Init /\ [][Next]_vars

(* Every variable has its type.                                             *)
TypeOK == CoachingTypeOK /\ EvidenceTypeOK /\ WebhooksTypeOK
=============================================================================
