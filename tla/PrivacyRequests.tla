--------------------------- MODULE PrivacyRequests ---------------------------
(***************************************************************************)
(* Requests for the export or the erasure of a person's data               *)
(* (application/privacy).  Users create and cancel them, workers claim     *)
(* them under a lease and process one after the other, and the scheduler   *)
(* purges archives that are past their date.                               *)
(*                                                                         *)
(* Processing acts on the object store before its transaction commits: an  *)
(* export writes an archive, an erasure deletes the media of the person,   *)
(* one by one, while uploads and deletions of media go on.  So the tables  *)
(* and the store must be kept in step by the order of the steps alone.  As *)
(* in MailDelivery, time is the number of ticks until next_attempt_at.     *)
(***************************************************************************)
EXTENDS Integers, FiniteSets

CONSTANTS
  Request,      (* Rows of privacy_requests, each with its own id.          *)
  Export,       (* Those of kind export; the others are erasures.           *)
  Subject,      (* The organization, kind and person of each request.       *)
  Medium,       (* Uploads of media; Evidence has them in full.             *)
  Of,           (* The Subject of an erasure that each is to fall under.    *)
  Worker,       (* Worker processes of the deployment.                      *)
  MaxAttempts,  (* 5 in the code.                                           *)
  Batch,        (* The limit of process_due, 5 in the code.                 *)
  Lease,        (* PROCESSING_LEASE, 15 minutes in the code.                *)
  BackoffCap,   (* One hour in the code.                                    *)
  MaxCrashes,   (* Bound: worker deaths that are not part of a step.        *)
  MaxOverruns   (* Bound: ticks that end the lease of a live worker.        *)

ASSUME PrivacyAssumption ==
  /\ Export \subseteq Request
  /\ \A r, q \in Request : Subject[r] = Subject[q] => (r \in Export <=> q \in Export)
  /\ MaxAttempts \in Nat \ {0}
  /\ Batch \in Nat \ {0}
  /\ Lease \in Nat \ {0}
  /\ BackoffCap \in Nat \ {0}
  /\ MaxCrashes \in Nat
  /\ MaxOverruns \in Nat

VARIABLES
  row,        (* The table: status, attempts, wait, and the archive's state. *)
  job,        (* How far each worker is with each request it has claimed.    *)
  files,      (* The store: requests whose archive exists.                   *)
  slot,         (* The row of each upload: none, with its key, or without.   *)
  objects,      (* The store: uploads whose object exists.                   *)
  retiring,     (* Uploads deleted by a member or by retention, row to come. *)
  found, left,  (* The keys each worker's erasure has read, and of them      *)
                (* those whose object it has still to delete.                *)
  late,         (* History: objects put when the erasure had passed them.    *)
  cancels,    (* Requests a user's cancel has read as pending, not written.  *)
  purging,    (* Archives the purge has deleted and not yet committed.       *)
  done,       (* History: how often processing of a request was committed.   *)
  disturbed,  (* History: requests whose lease ran out under a live worker,  *)
              (* whose worker died, whose clean-up failed, or whose cancel   *)
              (* was overtaken.                                              *)
  crashes, overruns   (* History: counts of what is bounded above.           *)

mediaVars == <<slot, objects, retiring, found, left, late>>

vars == <<row, job, files, mediaVars, cancels, purging, done, disturbed, crashes, overruns>>

Active == {"pending", "processing"}
Final  == {"completed", "failed", "canceled"}
Status == {"new"} \cup Active \cup Final

(* A claimed request waits its turn, is being collected or erased, has      *)
(* written its archive or read the keys of its media, has failed for now or *)
(* for good, or is to be recorded as such.                                  *)
Stage == {"none", "queued", "working", "acted", "erasing", "failed", "rejected", "retry",
          "reject"}

Held(w) == {r \in Request : job[w][r] # "none"}
HeldByAny == UNION {Held(w) : w \in Worker}
NoJob == [r \in Request |-> "none"]

(* retry_delay: min(60, 2 ** max(0, attempts - 1)) minutes.                 *)
BackoffFor(n) ==
  LET raw == 2 ^ (IF n = 0 THEN 0 ELSE n - 1)
  IN  IF raw \in 0..BackoffCap THEN raw ELSE BackoffCap

-----------------------------------------------------------------------------
Init ==
  /\ row = [r \in Request |->
              [status |-> "new", attempts |-> 0, wait |-> 0, archive |-> "none"]]
  /\ job = [w \in Worker |-> NoJob]
  /\ files = {}
  /\ slot = [m \in Medium |-> "none"]
  /\ objects = {}
  /\ retiring = {}
  /\ found = [w \in Worker |-> {}]
  /\ left = [w \in Worker |-> {}]
  /\ late = {}
  /\ cancels = {}
  /\ purging = {}
  /\ done = [r \in Request |-> 0]
  /\ disturbed = {}
  /\ crashes = 0
  /\ overruns = 0

(* uq_privacy_requests_active_subject: a row may be active only if no other *)
(* row of the same organization, kind and person is.                        *)
Admitted(r) ==
  \A q \in Request \ {r} : Subject[q] = Subject[r] => row[q].status \notin Active

Create(r) ==
  /\ row[r].status = "new"
  /\ Admitted(r)
  /\ row' = [row EXCEPT ![r].status = "pending"]
  /\ UNCHANGED <<job, files, mediaVars, cancels, purging, done, disturbed, crashes, overruns>>

(* cancel reads the row in one statement and updates it by id in another,   *)
(* with no lock in between.                                                 *)
CancelRead(r) ==
  /\ row[r].status = "pending"
  /\ r \notin cancels
  /\ cancels' = cancels \cup {r}
  /\ UNCHANGED <<row, job, files, mediaVars, purging, done, disturbed, crashes, overruns>>

CancelWrite(r) ==
  /\ r \in cancels
  /\ row' = [row EXCEPT ![r].status = "canceled"]
  /\ cancels' = cancels \ {r}
  /\ disturbed' = IF row[r].status = "pending" THEN disturbed ELSE disturbed \cup {r}
  /\ UNCHANGED <<job, files, mediaVars, purging, done, crashes, overruns>>

(* The WHERE clause of _claim.                                              *)
DueIfActive(r) == row[r].status \in Active
DueWhenIdle(r) == row[r].status # "new" /\ row[r].wait = 0
Due(r) == row[r].status \in Active /\ row[r].wait = 0

LeasedUncounted(r) == [row[r] EXCEPT !.status = "processing", !.wait = Lease]
Leased(r) == [status   |-> "processing",
              attempts |-> row[r].attempts + 1,
              wait     |-> Lease,
              archive  |-> row[r].archive]

(* SKIP LOCKED passes over rows other transactions hold, so the batch is    *)
(* any non-empty part of the due rows within the limit.                     *)
Claim(w) ==
  /\ Held(w) = {}
  /\ \E S \in SUBSET {r \in Request : Due(r)} :
       /\ S # {}
       /\ Cardinality(S) <= Batch
       /\ row' = [r \in Request |-> IF r \in S THEN Leased(r) ELSE row[r]]
       /\ job' = [job EXCEPT ![w] = [r \in Request |-> IF r \in S THEN "queued" ELSE "none"]]
  /\ UNCHANGED <<files, mediaVars, cancels, purging, done, disturbed, crashes, overruns>>

Moved(w, r, stage) == job' = [job EXCEPT ![w][r] = stage]

(* _process loads the request and leaves it if it is no longer processing.  *)
Begin(w, r) ==
  /\ job[w][r] = "queued"
  /\ \A q \in Request : job[w][q] \in {"none", "queued"}
  /\ Moved(w, r, IF row[r].status = "processing" THEN "working" ELSE "none")
  /\ UNCHANGED <<row, files, mediaVars, cancels, purging, done, disturbed, crashes, overruns>>

(* put_bytes of the archive.                                                *)
WriteArchive(w, r) ==
  /\ r \in Export
  /\ job[w][r] = "working"
  /\ Moved(w, r, "acted")
  /\ files' = files \cup {r}
  /\ UNCHANGED <<row, mediaVars, cancels, purging, done, disturbed, crashes, overruns>>

MediaOf(r) == {m \in Medium : r \notin Export /\ Of[m] = Subject[r]}
Keyed(r) == {m \in MediaOf(r) : slot[m] = "keyed"}

(* The person's row has been written before and stays locked, so that two   *)
(* erasures of a person follow one another; the keys are those committed.   *)
SelectMedia(w, r) ==
  /\ r \notin Export
  /\ job[w][r] = "working"
  /\ \A v \in Worker, q \in Request : Subject[q] = Subject[r] => job[v][q] # "erasing"
  /\ Moved(w, r, "erasing")
  /\ found' = [found EXCEPT ![w] = Keyed(r)]
  /\ left' = [left EXCEPT ![w] = Keyed(r)]
  /\ UNCHANGED <<row, files, slot, objects, retiring, late, cancels, purging, done,
                 disturbed, crashes, overruns>>

Deleted(m) == objects' = objects \ {m} /\ late' = late \ {m}

RemoveSwallowingErrors(w, m) ==
  /\ m \in left[w]
  /\ left' = [left EXCEPT ![w] = @ \ {m}]
  /\ Deleted(m) \/ UNCHANGED <<objects, late>>
  /\ UNCHANGED <<row, job, files, slot, retiring, found, cancels, purging, done,
                 disturbed, crashes, overruns>>
RemoveMedia(w, m) ==
  /\ m \in left[w]
  /\ left' = [left EXCEPT ![w] = @ \ {m}]
  /\ Deleted(m)
  /\ UNCHANGED <<row, job, files, slot, retiring, found, cancels, purging, done,
                 disturbed, crashes, overruns>>

Forget(w) == /\ found' = [found EXCEPT ![w] = {}]
             /\ left' = [left EXCEPT ![w] = {}]

(* The commit of _process, with the keys of the media.  The row is updated  *)
(* by its id, whatever became of its status since Begin.                    *)
Complete(w, r) ==
  /\ \/ job[w][r] = "acted"
     \/ job[w][r] = "erasing" /\ left[w] = {}
  /\ row' = [row EXCEPT ![r].status = "completed",
                        ![r].archive = IF r \in Export THEN "kept" ELSE @]
  /\ done' = [done EXCEPT ![r] = @ + 1]
  /\ Moved(w, r, "none")
  /\ slot' = [m \in Medium |-> IF m \in found[w] THEN "cleared" ELSE slot[m]]
  /\ Forget(w)
  /\ UNCHANGED <<files, objects, retiring, late, cancels, purging, disturbed, crashes,
                 overruns>>

(* An exception in _process, and the roll-back of its transaction: what was *)
(* done to the store stays.  Only the collecting of data can fail for good; *)
(* the store may have carried out a request whose answer was lost.          *)
Fail(w, r) ==
  /\ \/ /\ job[w][r] = "working"
        /\ \/ Moved(w, r, "rejected") /\ UNCHANGED files
           \/ Moved(w, r, "failed") /\ UNCHANGED files
           \/ r \in Export /\ Moved(w, r, "failed") /\ files' = files \cup {r}
        /\ UNCHANGED <<objects, late>>
     \/ /\ job[w][r] \in {"acted", "erasing"}
        /\ Moved(w, r, "failed")
        /\ (\E m \in left[w] : Deleted(m)) \/ UNCHANGED <<objects, late>>
        /\ UNCHANGED files
  /\ Forget(w)
  /\ UNCHANGED <<row, slot, retiring, cancels, purging, done, disturbed, crashes, overruns>>

(* The archive of a failed export is deleted, unless the store fails again. *)
AfterCleanup(stage) == IF stage = "failed" THEN "retry" ELSE "reject"

CleanupSkipped(w, r) ==
  /\ job[w][r] \in {"failed", "rejected"}
  /\ Moved(w, r, AfterCleanup(job[w][r]))
  /\ UNCHANGED <<row, files, mediaVars, cancels, purging, done, disturbed, crashes, overruns>>
Cleanup(w, r) ==
  /\ job[w][r] \in {"failed", "rejected"}
  /\ Moved(w, r, AfterCleanup(job[w][r]))
  /\ \/ files' = files \ {r} /\ UNCHANGED disturbed
     \/ r \in files /\ UNCHANGED files /\ disturbed' = disturbed \cup {r}
  /\ UNCHANGED <<row, mediaVars, cancels, purging, done, crashes, overruns>>

(* _record_failure looks at the row's attempts and not at its status.       *)
GivesUp(w, r) == job[w][r] = "reject" \/ row[r].attempts >= MaxAttempts

RecordGivenUp(w, r) ==
  /\ GivesUp(w, r)
  /\ row' = [row EXCEPT ![r].status = "failed"]
  /\ Moved(w, r, "none")
  /\ UNCHANGED <<disturbed, crashes>>

RecordRetry(w, r) ==
  /\ ~GivesUp(w, r)
  /\ Admitted(r)
  /\ row' = [row EXCEPT ![r].status = "pending", ![r].wait = BackoffFor(row[r].attempts)]
  /\ Moved(w, r, "none")
  /\ UNCHANGED <<disturbed, crashes>>

(* The unique index refuses to reopen a request whose place is taken, and   *)
(* the exception ends the worker process.                                   *)
RecordRefused(w, r) ==
  /\ ~GivesUp(w, r)
  /\ ~Admitted(r)
  /\ job' = [job EXCEPT ![w] = NoJob]
  /\ disturbed' = disturbed \cup Held(w)
  /\ crashes' = crashes + 1
  /\ UNCHANGED row

RecordFailure(w, r) ==
  /\ job[w][r] \in {"retry", "reject"}
  /\ RecordGivenUp(w, r) \/ RecordRetry(w, r) \/ RecordRefused(w, r)
  /\ UNCHANGED <<files, mediaVars, cancels, purging, done, overruns>>

Crash(w) ==
  /\ crashes < MaxCrashes
  /\ Held(w) # {}
  /\ job' = [job EXCEPT ![w] = NoJob]
  /\ disturbed' = disturbed \cup Held(w)
  /\ crashes' = crashes + 1
  /\ Forget(w)
  /\ UNCHANGED <<row, files, slot, objects, retiring, late, cancels, purging, done, overruns>>

-----------------------------------------------------------------------------
(* Media while erasures go on.  A row is created with its key and a URL.    *)
CreateUpload(m) ==
  /\ slot[m] = "none"
  /\ slot' = [slot EXCEPT ![m] = "keyed"]
  /\ UNCHANGED <<row, job, files, objects, retiring, found, left, late, cancels, purging,
                 done, disturbed, crashes, overruns>>

(* An erasure has read the keys without m's, or has deleted m's object.     *)
Passed(m) ==
  \E r \in Request :
    /\ m \in MediaOf(r)
    /\ \/ \E w \in Worker : job[w][r] = "erasing" /\ m \notin left[w]
       \/ done[r] > 0

(* The client puts the object as often as it likes while the URL is valid,  *)
(* whatever has become of the row; when the URL expires is left open.       *)
PutObject(m) ==
  /\ slot[m] # "none"
  /\ objects' = objects \cup {m}
  /\ late' = IF Passed(m) \/ m \in retiring \/ slot[m] = "cleared"
               THEN late \cup {m} ELSE late
  /\ UNCHANGED <<row, job, files, slot, retiring, found, left, cancels, purging, done,
                 disturbed, crashes, overruns>>

(* A member or retention deletes the object, then the key, or fails between *)
(* the two.                                                                 *)
DeleteEvidence(m) ==
  /\ slot[m] = "keyed"
  /\ m \notin retiring
  /\ Deleted(m)
  /\ retiring' = retiring \cup {m}
  /\ UNCHANGED <<row, job, files, slot, found, left, cancels, purging, done, disturbed,
                 crashes, overruns>>

EndDelete(m) ==
  /\ m \in retiring
  /\ retiring' = retiring \ {m}
  /\ slot' = [slot EXCEPT ![m] = "cleared"] \/ UNCHANGED slot
  /\ UNCHANGED <<row, job, files, objects, found, left, late, cancels, purging, done,
                 disturbed, crashes, overruns>>

-----------------------------------------------------------------------------
(* artifact_expires_at passes, a week after the export.                     *)
Expire(r) ==
  /\ row[r].archive = "kept"
  /\ row' = [row EXCEPT ![r].archive = "expired"]
  /\ UNCHANGED <<job, files, mediaVars, cancels, purging, done, disturbed, crashes, overruns>>

(* What export_download_url signs a URL for.                                *)
Downloadable(r) ==
  /\ r \in Export
  /\ row[r].status = "completed"
  /\ row[r].archive = "kept"

(* purge_expired deletes the archives one by one and commits at the end; a  *)
(* failure of the store or of the scheduler leaves the keys for next time.  *)
PurgeDelete(r) ==
  /\ row[r].archive = "expired"
  /\ r \notin purging
  /\ files' = files \ {r}
  /\ purging' = purging \cup {r}
  /\ UNCHANGED <<row, job, mediaVars, cancels, done, disturbed, crashes, overruns>>

PurgeEnd ==
  /\ purging # {}
  /\ purging' = {}
  /\ \/ row' = [r \in Request |->
                  IF r \in purging THEN [row[r] EXCEPT !.archive = "none"] ELSE row[r]]
     \/ UNCHANGED row
  /\ UNCHANGED <<job, files, mediaVars, cancels, done, disturbed, crashes, overruns>>

(* Leases that end under a live worker.                                     *)
Overrun == {r \in HeldByAny : row[r].status = "processing" /\ row[r].wait = 1}

Tick ==
  /\ \E r \in Request : row[r].wait > 0
  /\ Overrun # {} => overruns < MaxOverruns
  /\ row' = [r \in Request |-> [row[r] EXCEPT !.wait = IF @ > 0 THEN @ - 1 ELSE 0]]
  /\ disturbed' = disturbed \cup Overrun
  /\ overruns' = IF Overrun = {} THEN overruns ELSE overruns + 1
  /\ UNCHANGED <<job, files, mediaVars, cancels, purging, done, crashes>>

Step(w) ==
  \/ \E r \in Request :
       \/ Begin(w, r)
       \/ WriteArchive(w, r) \/ SelectMedia(w, r)
       \/ Complete(w, r)
       \/ Fail(w, r)
       \/ Cleanup(w, r)
       \/ RecordFailure(w, r)
  \/ \E m \in Medium : RemoveMedia(w, m)

Next ==
  \/ \E r \in Request :
       Create(r) \/ CancelRead(r) \/ CancelWrite(r) \/ Expire(r) \/ PurgeDelete(r)
  \/ \E m \in Medium :
       CreateUpload(m) \/ PutObject(m) \/ DeleteEvidence(m) \/ EndDelete(m)
  \/ \E w \in Worker : Claim(w) \/ Step(w) \/ Crash(w)
  \/ PurgeEnd
  \/ Tick

Spec == Init /\ [][Next]_vars

(* The worker polls for ever, every call it makes has a timeout, and time   *)
(* passes.                                                                  *)
Fairness ==
  /\ WF_vars(Tick)
  /\ \A w \in Worker : WF_vars(Claim(w)) /\ WF_vars(Step(w))

FairSpec == Spec /\ Fairness

-----------------------------------------------------------------------------
Row == [status  : Status,
        attempts : Nat,
        wait    : Nat,
        archive : {"none", "kept", "expired"}]

RequestsTypeOK ==
  /\ row \in [Request -> Row]
  /\ job \in [Worker -> [Request -> Stage]]
  /\ files \subseteq Export
  /\ cancels \subseteq Request
  /\ purging \subseteq Request
  /\ done \in [Request -> Nat]
  /\ disturbed \subseteq Request
  /\ crashes \in Nat
  /\ overruns \in Nat

MediaTypeOK ==
  /\ slot \in [Medium -> {"none", "keyed", "cleared"}]
  /\ objects \subseteq Medium
  /\ retiring \subseteq Medium
  /\ found \in [Worker -> SUBSET Medium]
  /\ left \in [Worker -> SUBSET Medium]
  /\ late \subseteq Medium

TypeOK == RequestsTypeOK /\ MediaTypeOK

(* A person has at most one active request of a kind, whatever workers,     *)
(* cancels and stale failures write: the index holds across all of them.    *)
OneActive ==
  \A r, q \in Request :
    /\ Subject[r] = Subject[q]
    /\ row[r].status \in Active
    /\ row[q].status \in Active
    => r = q

(* The lease is mutual exclusion unless something went wrong: a request is  *)
(* with one worker exactly while it is processing, and its processing has   *)
(* been committed once if it is completed and not at all otherwise.         *)
LeaseExcludes ==
  \A r \in Request \ disturbed :
    /\ \A w, v \in Worker : r \in Held(w) /\ r \in Held(v) => w = v
    /\ r \in HeldByAny <=> row[r].status = "processing"
    /\ done[r] = IF row[r].status = "completed" THEN 1 ELSE 0

(* The store and the table agree on archives that nothing disturbed: what   *)
(* can be downloaded exists, and no archive of personal data is left behind *)
(* that the purge would not find.                                           *)
ArchivesAccountedFor ==
  \A r \in Export \ disturbed :
    /\ row[r].archive = "kept" => r \in files /\ Downloadable(r)
    /\ r \in files => \/ row[r].archive # "none"
                      \/ \E w \in Worker : job[w][r] \in {"acted", "failed"}

(* A committed erasure has left no media of the person in the store but     *)
(* what was put there late, however uploads, other deletions, failed        *)
(* attempts and a second worker cross it: after it had read the keys and    *)
(* not found this one or had deleted the object, or when a deletion had.    *)
OnlyLateMediaRemain ==
  \A r \in Request \ Export : done[r] > 0 => objects \cap MediaOf(r) \subseteq late

(* Attempts are bounded although _claim does not look at the limit: only a  *)
(* claim that was lost, with its worker or its lease, buys another one.     *)
AttemptsBounded ==
  \A r \in Request :
    /\ row[r].status = "pending" => row[r].attempts < MaxAttempts
    /\ row[r].attempts <= MaxAttempts + crashes + overruns

(* What the user was told stays true: completed, failed and canceled are    *)
(* final, and nothing is done to the data afterwards, unless disturbed.     *)
OutcomeIsFinal ==
  [][\A r \in Request \ disturbed' :
       row[r].status \in Final => row'[r].status = row[r].status /\ done'[r] = done[r]]_vars

(* Every request is in the end completed, failed or canceled, if workers    *)
(* die and overrun their leases finitely often.                             *)
EventuallyResolved ==
  \A r \in Request : row[r].status \in Active ~> row[r].status \in Final

(* The refusal of PrivacyService.cancel: only requests that wait in the     *)
(* queue can be canceled.                                                   *)
OnlyQueuedAreCanceled ==
  [][\A r \in Request :
       row[r].status # "canceled" /\ row'[r].status = "canceled" => row[r].status = "pending"]_vars
=============================================================================
