------------------------------ MODULE Supervisor ------------------------------
(***************************************************************************)
(* The container of the hobby profile (cli/supervisor.py, cli/hobby.py):   *)
(* migrations first, then worker, scheduler and API as processes of one    *)
(* supervisor, which stops them all when it is told to or one of them      *)
(* stops.                                                                  *)
(*                                                                         *)
(* A signal only sets a flag: what the supervisor is doing goes on until   *)
(* it looks at it.  A process may stop at any time, asked or not.  That    *)
(* the container as a whole is killed is left out.                         *)
(***************************************************************************)
EXTENDS Requests

CONSTANT Specs   (* The processes, in the order of build_specs. *)

ASSUME SupervisorAssumption == Len(Specs) \in Nat \ {0} /\ DOMAIN Specs = 1..Len(Specs)

VARIABLES
  stage,     (* Where the supervisor is. *)
  at,        (* The place in Specs a loop of it has come to. *)
  child,     (* The state of each process and its exit status, 1 for all
                that are not 0. *)
  stopping,  (* _stopping *)
  exitCode,  (* What run returns. *)
  signaled,  (* History: SIGTERM or SIGINT was received. *)
  alone      (* History: processes that stopped without being asked to. *)

supervisorVars == <<stage, at, child, stopping, exitCode, signaled, alone>>

Child == {Specs[i] : i \in DOMAIN Specs}

ChildRow == [state : {"none", "running", "asked", "exited"}, code : {0, 1}]

SupervisorInit ==
  /\ stage = "off"
  /\ at = 1
  /\ child = [c \in Child |-> [state |-> "none", code |-> 0]]
  /\ stopping = FALSE /\ exitCode = 0
  /\ signaled = FALSE /\ alone = {}

Alive(c) == child[c].state \in {"running", "asked"}

GoTo(s) == stage' = s /\ at' = 1

(* The loop over Specs goes on, or to what comes after it.                  *)
Advance(after) == IF at < Len(Specs) THEN at' = at + 1 /\ UNCHANGED stage
                                     ELSE GoTo(after)

-----------------------------------------------------------------------------
(* Migrations are run unless told otherwise.                                *)
Serve(migrate) ==
  /\ stage = "off"
  /\ AtOnce("container")
  /\ GoTo(IF migrate THEN "migrate" ELSE "start")
  /\ UNCHANGED <<child, stopping, exitCode, signaled, alone>>

RunStep(code) ==
  /\ stage = "migrate"
  /\ GoTo(IF code = 0 THEN "start" ELSE "returned")
  /\ exitCode' = code
  /\ UNCHANGED <<requestVars, child, stopping, signaled, alone>>

(* A process that cannot be started ends run at once, with the ones that    *)
(* have been started left as they are.                                      *)
StartChild ==
  /\ stage = "start"
  /\ \/ /\ child' = [child EXCEPT ![Specs[at]].state = "running"]
        /\ Advance("check")
     \/ GoTo("raised") /\ UNCHANGED child
  /\ UNCHANGED <<requestVars, stopping, exitCode, signaled, alone>>

(* The handlers are set from the first start to the return.                 *)
HandleSignal ==
  /\ stage \in {"start", "check", "poll", "terminate", "wait"}
  /\ ~signaled
  /\ stopping' = TRUE /\ signaled' = TRUE
  /\ UNCHANGED <<requestVars, stage, at, child, exitCode, alone>>

CheckStopping ==
  /\ stage = "check"
  /\ GoTo(IF stopping THEN "terminate" ELSE "poll")
  /\ UNCHANGED <<requestVars, child, stopping, exitCode, signaled, alone>>

(* With the status passed on as it is.                                      *)
StatusOf(c) == child[c].code

(* A process that stops is an error, even with status 0.                    *)
StatusFor(c) == IF child[c].code = 0 THEN 1 ELSE child[c].code

Poll ==
  /\ stage = "poll"
  /\ IF Alive(Specs[at])
       THEN Advance("check") /\ UNCHANGED <<stopping, exitCode>>
       ELSE /\ GoTo("check")
            /\ stopping' = TRUE
            /\ exitCode' = StatusFor(Specs[at])
  /\ UNCHANGED <<requestVars, child, signaled, alone>>

Terminate ==
  /\ stage = "terminate"
  /\ child' = [child EXCEPT ![Specs[at]].state = IF @ = "running" THEN "asked" ELSE @]
  /\ Advance("wait")
  /\ UNCHANGED <<requestVars, stopping, exitCode, signaled, alone>>

(* The process has stopped, or the time for all of them is over.            *)
WaitOrKill ==
  /\ stage = "wait"
  /\ child' = [child EXCEPT ![Specs[at]] =
                 IF Alive(Specs[at]) THEN [state |-> "exited", code |-> 1] ELSE @]
  /\ Advance("returned")
  /\ UNCHANGED <<requestVars, stopping, exitCode, signaled, alone>>

(* A process stops, asked or not.                                           *)
Exit(c, code) ==
  /\ Alive(c)
  /\ child' = [child EXCEPT ![c] = [state |-> "exited", code |-> code]]
  /\ alone' = IF child[c].state = "running" THEN alone \cup {c} ELSE alone
  /\ UNCHANGED <<requestVars, stage, at, stopping, exitCode, signaled>>

SupervisorStep ==
  \/ \E migrate \in BOOLEAN : Serve(migrate)
  \/ \E code \in {0, 1} : RunStep(code) \/ \E c \in Child : Exit(c, code)
  \/ StartChild \/ HandleSignal \/ CheckStopping \/ Poll \/ Terminate \/ WaitOrKill

-----------------------------------------------------------------------------
SupervisorTypeOK ==
  /\ stage \in {"off", "migrate", "start", "raised", "check", "poll",
                "terminate", "wait", "returned"}
  /\ at \in DOMAIN Specs
  /\ child \in [Child -> ChildRow]
  /\ stopping \in BOOLEAN /\ exitCode \in {0, 1}
  /\ signaled \in BOOLEAN /\ alone \subseteq Child

(* The container does not run on without one of its processes, and the      *)
(* platform learns that it should start it again (cli/supervisor.py:11):    *)
(* whenever signals and exits cross the start, the polling and the          *)
(* stopping, a supervisor that returns leaves no process behind, says it    *)
(* has failed if nobody told it to stop, and does not say so unless a       *)
(* process has stopped by itself or the migrations have failed.             *)
StopsForAReason ==
  stage = "returned" =>
    /\ \A c \in Child : ~Alive(c)
    /\ exitCode = 0 => signaled
    /\ exitCode # 0 => alone # {} \/ \A c \in Child : child[c].state = "none"
=============================================================================
