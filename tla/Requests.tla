------------------------------ MODULE Requests -------------------------------
(***************************************************************************)
(* Requests under way.  A request, or a worker's batch, that reads rows,   *)
(* waits for something and writes them later is two steps or more: what it *)
(* has read stays in call[p], and other requests commit in between (READ   *)
(* COMMITTED).  One whose reads cannot be out of date when it writes is a  *)
(* single step, and one that ends in an error without a commit is no step, *)
(* or an Abort when it had begun.  There is no clock: a deadline is a step *)
(* of its own.                                                             *)
(***************************************************************************)
EXTENDS Integers, FiniteSets, Sequences

CONSTANTS
  Process,  (* Requests and batches that may be under way at one time. *)
  Area,     (* Parts of the system, each with its own bound. *)
  Budgets   (* Bound: the numbers of requests of each area in a behaviour. *)

ASSUME RequestsAssumption ==
  /\ IsFiniteSet(Process) /\ Process # {}
  /\ Budgets \subseteq [Area -> Nat]

VARIABLES
  call,     (* What each request under way has read. *)
  budget    (* Requests left of each area. *)

requestVars == <<call, budget>>

Idle == [op |-> "idle"]

RequestsInit ==
  /\ call = [p \in Process |-> Idle]
  /\ budget \in Budgets

Spend(area) == /\ budget[area] > 0
               /\ budget' = [budget EXCEPT ![area] = @ - 1]

Begin(p, area, c) == /\ call[p] = Idle
                     /\ Spend(area)
                     /\ call' = [call EXCEPT ![p] = c]

(* A request that is a step of its own.                                     *)
AtOnce(area) == Spend(area) /\ UNCHANGED call

Doing(op) == {p \in Process : call[p].op = op}

(* p goes on with what it has read changed to c.                            *)
Continue(p, c) == call' = [call EXCEPT ![p] = c] /\ UNCHANGED budget

Return(p) == Continue(p, Idle)

(* p has committed; the requests in overtaken have read what it changed.    *)
Commit(p, overtaken) ==
  /\ call' = [q \in Process |->
                IF q = p THEN Idle
                ELSE IF q \in overtaken THEN [call[q] EXCEPT !.stale = TRUE]
                ELSE call[q]]
  /\ UNCHANGED budget
=============================================================================
