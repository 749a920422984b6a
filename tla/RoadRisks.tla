------------------------------ MODULE RoadRisks ------------------------------
(***************************************************************************)
(* Road risks of one organization (application/safety/road_risk.py): the   *)
(* places where harsh events repeat, recomputed on request from the events *)
(* of the last days that no review has rejected.                           *)
(*                                                                         *)
(* A rebuild is one transaction without a lock: it reads the events,       *)
(* deletes the rows of earlier rebuilds that its DELETE sees, and inserts  *)
(* its own.  The rows of a rebuild that commits meanwhile are not seen.    *)
(***************************************************************************)
EXTENDS Requests, SequencesExt

CONSTANTS
  Incident,    (* Harsh events with a position, within the lookback. *)
  Near,        (* Pairs within _CLUSTER_RADIUS_KM. *)
  MinCluster   (* _MIN_CLUSTER_SIZE, small. *)

ASSUME RoadRiskAssumption ==
  /\ IsFiniteSet(Incident)
  /\ Near \subseteq Incident \X Incident
  /\ \A i \in Incident : <<i, i>> \in Near
  /\ MinCluster \in Nat \ {0}

VARIABLES
  incident,  (* The review of each; "none": it has not happened. *)
  risk,      (* road_risks of source event_cluster. *)
  rebuilt    (* Rebuilds committed; the last gives its rows their run. *)

riskVars == <<incident, risk, rebuilt>>

Verdict == {"none", "pending", "confirmed", "rejected", "uncertain"}

(* of: the events it was made from, which give it its place and severity;   *)
(* beside: rebuilds that committed after this one had chosen what to delete.*)
RiskRow == [run : Nat, of : SUBSET Incident, beside : SUBSET Nat]

RiskInit ==
  /\ incident = [i \in Incident |-> "none"]
  /\ risk = {}
  /\ rebuilt = 0

(* The rule engine creates one; reviews decide on it.                       *)
Happens(i) ==
  /\ incident[i] = "none"
  /\ incident' = [incident EXCEPT ![i] = "pending"]
  /\ AtOnce("incident")
  /\ UNCHANGED <<risk, rebuilt>>

Decided(i, verdict) ==
  /\ incident[i] # "none" /\ verdict \notin {"none", "pending", incident[i]}
  /\ incident' = [incident EXCEPT ![i] = verdict]
  /\ AtOnce("incident")
  /\ UNCHANGED <<risk, rebuilt>>

-----------------------------------------------------------------------------
(* Clusters *)

Clustered == {i \in Incident : incident[i] \notin {"none", "rejected"}}

(* The query has no ORDER BY.                                               *)
Orders(S) == {order \in [1..Cardinality(S) -> S] : ToSet(order) = S}

(* Each event joins the first cluster whose first event is near, or begins  *)
(* one of its own: a greedy pass in the order of the rows.                  *)
Place(clusters, i) ==
  LET fits == {n \in DOMAIN clusters : <<clusters[n][1], i>> \in Near}
  IN IF fits = {} THEN Append(clusters, <<i>>)
     ELSE LET n == CHOOSE m \in fits : \A k \in fits : m <= k
          IN [clusters EXCEPT ![n] = Append(@, i)]

Cluster(order) == FoldLeft(Place, <<>>, order)

(* The events of each cluster large enough to be a risk.                    *)
Risks(order) ==
  {ToSet(c) : c \in {d \in ToSet(Cluster(order)) : Len(d) >= MinCluster}}

-----------------------------------------------------------------------------
(* A rebuild *)

Rebuilding(p) == call[p].op = "rebuild"

RebuildForTenant(p) ==
  /\ \E order \in Orders(Clustered) :
       Begin(p, "rebuild", [op |-> "rebuild", risks |-> Risks(order),
                            step |-> "read", gone |-> {}, beside |-> {}])
  /\ UNCHANGED riskVars

(* With nothing deleted.                                                    *)
DeleteNone(p) ==
  /\ Rebuilding(p) /\ call[p].step = "read"
  /\ Continue(p, [call[p] EXCEPT !.step = "deleted"])
  /\ UNCHANGED riskVars

(* Rows that another rebuild is deleting are waited for, and are gone then. *)
DeleteOld(p) ==
  /\ Rebuilding(p) /\ call[p].step = "read"
  /\ Continue(p, [call[p] EXCEPT !.step = "deleted", !.gone = risk])
  /\ UNCHANGED riskVars

CommitRebuild(p) ==
  /\ Rebuilding(p) /\ call[p].step = "deleted"
  /\ rebuilt' = rebuilt + 1
  /\ risk' = (risk \ call[p].gone) \cup
               {[run |-> rebuilt', of |-> events, beside |-> call[p].beside] :
                  events \in call[p].risks}
  /\ call' = [q \in Process |->
                IF q = p THEN Idle
                ELSE IF Rebuilding(q) /\ call[q].step = "deleted"
                  THEN [call[q] EXCEPT !.beside = @ \cup {rebuilt'}]
                ELSE call[q]]
  /\ UNCHANGED <<budget, incident>>

AbortRebuild(p) ==
  /\ Rebuilding(p)
  /\ Return(p)
  /\ UNCHANGED riskVars

RiskStep ==
  \/ \E i \in Incident : Happens(i) \/ \E verdict \in Verdict : Decided(i, verdict)
  \/ \E p \in Process : \/ RebuildForTenant(p) \/ DeleteOld(p)
                        \/ CommitRebuild(p) \/ AbortRebuild(p)

-----------------------------------------------------------------------------
RiskTypeOK ==
  /\ incident \in [Incident -> Verdict]
  /\ risk \subseteq RiskRow
  /\ rebuilt \in Nat

(* A rebuild replaces the tenant's risks (road_risk.py:34): those listed at *)
(* any time are of one rebuild, an event counts in one of them only, and    *)
(* none has fewer events than it takes; rows of two rebuilds are listed     *)
(* together only if the later one had chosen what to delete before the      *)
(* earlier one committed, and the next rebuild by itself clears them.       *)
RisksOfOneRebuild ==
  /\ \A r \in risk : Cardinality(r.of) >= MinCluster
  /\ \A r1, r2 \in risk :
       IF r1.run = r2.run THEN r1 = r2 \/ r1.of \cap r2.of = {}
       ELSE r1.run \in r2.beside \/ r2.run \in r1.beside
=============================================================================
