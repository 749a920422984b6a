------------------------------- MODULE Evidence ------------------------------
(***************************************************************************)
(* Media of safety events (application/evidence/service.py, the purge and  *)
(* the erasure of application/privacy/processor.py).                       *)
(*                                                                         *)
(* A row describes an object of the object store.  The client puts the     *)
(* object itself, with a presigned URL, as often as it likes until the URL *)
(* expires; the program looks at it once, when the upload is completed.    *)
(* What the program does to the store happens at once and is not undone    *)
(* when its transaction is.                                                *)
(***************************************************************************)
EXTENDS Requests

CONSTANT Media   (* Uploads. *)

VARIABLES
  media,     (* The row of each upload. *)
  object,    (* The object in the store: as declared, not so, or none. *)
  url,       (* The presigned upload URLs that have not expired. *)
  disturbed  (* History: media that a crossing of requests, an abort after a
                delete or a put out of time has set apart from their object. *)

evidenceVars == <<media, object, url, disturbed>>

MediaRow == [status : {"none", "pending_upload", "available", "rejected", "deleted"},
             key : BOOLEAN]

EvidenceInit ==
  /\ media = [m \in Media |-> [status |-> "none", key |-> FALSE]]
  /\ object = [m \in Media |-> "none"]
  /\ url = {}
  /\ disturbed = {}

(* Completions that have looked at m; removals that have m's key.           *)
Inspecting(m) == {p \in Doing("complete") : call[p].row = m}
Removing(m) == {p \in Doing("remove") : m \in call[p].keys}

Deleted(m) == object' = [object EXCEPT ![m] = "none"]

-----------------------------------------------------------------------------
(* Uploading *)

CreateUpload(m) ==
  /\ media[m].status = "none"
  /\ AtOnce("evidence")
  /\ media' = [media EXCEPT ![m] = [status |-> "pending_upload", key |-> TRUE]]
  /\ url' = url \cup {m}
  /\ UNCHANGED <<object, disturbed>>

(* The signature is checked when a put begins and the object replaced when  *)
(* it has arrived: a URL counts as expired when no put can arrive any more. *)
MayPut(m) == m \in url

(* In time is before anyone looks.                                          *)
PutObject(m, o) ==
  /\ MayPut(m)
  /\ object' = [object EXCEPT ![m] = o]
  /\ disturbed' = IF /\ media[m].status = "pending_upload"
                     /\ Inspecting(m) \cup Removing(m) = {}
                    THEN disturbed ELSE disturbed \cup {m}
  /\ UNCHANGED <<media, url, requestVars>>

UrlExpires(m) ==
  /\ m \in url
  /\ url' = url \ {m}
  /\ UNCHANGED <<media, object, disturbed, requestVars>>

(* head finds the object.                                                   *)
Stored(m) == object[m] # "none"

(* Size and first bytes are compared with what was declared; an object that *)
(* is not as declared is deleted before the rejection is committed.         *)
CompleteUpload(p, m) ==
  /\ media[m].status = "pending_upload" /\ media[m].key
  /\ Stored(m)
  /\ Begin(p, "evidence", [op |-> "complete", row |-> m,
                           verdict |-> IF object[m] = "good" THEN "available"
                                                             ELSE "rejected"])
  /\ IF object[m] = "bad" THEN Deleted(m) ELSE UNCHANGED object
  /\ UNCHANGED <<media, url, disturbed>>

(* Only the status is written, whatever the row has become.                 *)
CommitUpload(p) ==
  LET m == call[p].row
  IN /\ call[p].op = "complete"
     /\ media' = [media EXCEPT ![m].status = call[p].verdict]
     /\ disturbed' = IF /\ call[p].verdict = "available"
                        /\ media[m].status # "pending_upload"
                       THEN disturbed \cup {m} ELSE disturbed
     /\ Return(p)
     /\ UNCHANGED <<object, url>>

(* What access_url signs a URL for.                                         *)
Accessible(m) == media[m].status = "available" /\ media[m].key

-----------------------------------------------------------------------------
(* Removing *)

(* rows are read with their keys; the objects go one after the other.       *)
Remove(p, rows) ==
  /\ rows # {}
  /\ Begin(p, "evidence", [op |-> "remove", rows |-> rows,
                           keys |-> {m \in rows : media[m].key}, gone |-> {}])
  /\ UNCHANGED evidenceVars

DeleteEvidence(p, m) == media[m].status # "none" /\ Remove(p, {m})

(* Media older than the retention time.                                     *)
PurgeMedia(p, rows) ==
  /\ \A m \in rows : media[m].status \in {"available", "rejected", "pending_upload"}
  /\ Remove(p, rows)

(* Media of the events of a driver.                                         *)
EraseMedia(p, rows) ==
  /\ \A m \in rows : media[m].status # "none"
  /\ Remove(p, rows)

(* With media that are only uploaded left in the store.                     *)
RemoveAvailable(p, m) ==
  /\ call[p].op = "remove"
  /\ m \in call[p].keys \ call[p].gone
  /\ IF media[m].status = "pending_upload" THEN UNCHANGED object ELSE Deleted(m)
  /\ Continue(p, [call[p] EXCEPT !.gone = @ \cup {m}])
  /\ UNCHANGED <<media, url, disturbed>>

RemoveObject(p, m) ==
  /\ call[p].op = "remove"
  /\ m \in call[p].keys \ call[p].gone
  /\ Deleted(m)
  /\ Continue(p, [call[p] EXCEPT !.gone = @ \cup {m}])
  /\ UNCHANGED <<media, url, disturbed>>

CommitRemoval(p) ==
  /\ call[p].op = "remove"
  /\ call[p].gone = call[p].keys
  /\ media' = [m \in Media |-> IF m \in call[p].rows
                                 THEN [status |-> "deleted", key |-> FALSE]
                                 ELSE media[m]]
  /\ Return(p)
  /\ UNCHANGED <<object, url, disturbed>>

(* The store fails, or the request: the rows are as before, the objects     *)
(* that were deleted are not.                                               *)
AbortEvidence(p) ==
  /\ call[p].op \in {"complete", "remove"}
  /\ disturbed' = disturbed \cup
       (IF call[p].op = "remove" THEN call[p].gone
        ELSE IF call[p].verdict = "rejected" THEN {call[p].row} ELSE {})
  /\ Return(p)
  /\ UNCHANGED <<media, object, url>>

EvidenceStep ==
  \/ \E m \in Media : \/ CreateUpload(m)
                      \/ \E o \in {"good", "bad"} : PutObject(m, o)
                      \/ UrlExpires(m)
  \/ \E p \in Process, m \in Media : \/ CompleteUpload(p, m) \/ DeleteEvidence(p, m)
                                     \/ RemoveObject(p, m)
  \/ \E p \in Process, rows \in SUBSET Media :
       PurgeMedia(p, rows) \/ EraseMedia(p, rows)
  \/ \E p \in Process : \/ CommitUpload(p) \/ CommitRemoval(p)
                        \/ AbortEvidence(p)

-----------------------------------------------------------------------------
EvidenceTypeOK ==
  /\ media \in [Media -> MediaRow]
  /\ object \in [Media -> {"none", "good", "bad"}]
  /\ url \subseteq Media
  /\ disturbed \subseteq Media

(* Requests that have deleted m's object and not yet said so in its row.    *)
UnderDeletion(m) ==
  {p \in Removing(m) : m \in call[p].gone}
    \cup {p \in Inspecting(m) : call[p].verdict = "rejected"}

(* A row tells the truth about the store: what is offered as evidence is    *)
(* there and is what was declared, and of what was refused, deleted, purged *)
(* or erased nothing is left.  Apart from media that a put out of time, a   *)
(* failed removal or a completion crossing a removal has disturbed.         *)
MediaMatchesRow ==
  \A m \in Media \ disturbed :
    UnderDeletion(m) = {} =>
      /\ media[m].status = "available" => Accessible(m) /\ object[m] = "good"
      /\ media[m].status \in {"rejected", "deleted"} => ~Stored(m)
      /\ media[m].status = "deleted" => ~media[m].key
=============================================================================
