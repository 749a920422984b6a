----------------------------- MODULE Operations ------------------------------
(***************************************************************************)
(* What keeps the service going beside its accounts and its events: the    *)
(* registry and ingestion, the rate limiter, live updates, road risks, the *)
(* scheduler and the container.  They write different tables and share the *)
(* processes.                                                              *)
(***************************************************************************)
EXTENDS Ingestion, RateLimit, LiveUpdates, RoadRisks, Scheduler, Supervisor

vars == <<requestVars, ingestionVars, rateVars, liveVars, riskVars, schedulerVars,
          supervisorVars>>

Init == /\ RequestsInit /\ IngestionInit /\ RateInit
        /\ LiveInit /\ RiskInit /\ SchedulerInit /\ SupervisorInit

Next ==
  \/ /\ IngestionStep
     /\ UNCHANGED <<rateVars, liveVars, riskVars, schedulerVars, supervisorVars>>
  \/ /\ RateStep
     /\ UNCHANGED <<ingestionVars, liveVars, riskVars, schedulerVars, supervisorVars>>
  \/ /\ LiveStep
     /\ UNCHANGED <<ingestionVars, rateVars, riskVars, schedulerVars, supervisorVars>>
  \/ /\ RiskStep
     /\ UNCHANGED <<ingestionVars, rateVars, liveVars, schedulerVars, supervisorVars>>
  \/ /\ SchedulerStep
     /\ UNCHANGED <<ingestionVars, rateVars, liveVars, riskVars, supervisorVars>>
  \/ /\ SupervisorStep
     /\ UNCHANGED <<ingestionVars, rateVars, liveVars, riskVars, schedulerVars>>

Spec == Init /\ [][Next]_vars

(* Every variable has its type.                                             *)
TypeOK == /\ IngestionTypeOK /\ RateTypeOK /\ LiveTypeOK
          /\ RiskTypeOK /\ SchedulerTypeOK /\ SupervisorTypeOK
=============================================================================
