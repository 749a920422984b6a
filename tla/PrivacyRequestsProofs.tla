------------------------ MODULE PrivacyRequestsProofs ------------------------
(***************************************************************************)
(* Proofs about privacy requests, for any requests, workers and limits.    *)
(*                                                                         *)
(* The inductive invariant IInv speaks of one request at a time.  Sound(r) *)
(* is what holds of a request nothing has disturbed: one worker has it     *)
(* while it is processing, its lease runs, and the archive in the store is *)
(* the one its row or its worker accounts for.  Accounted(r) holds of      *)
(* every request: attempts beyond the limit are paid for by lost claims.   *)
(* A step disturbs one request; the frame lemmas carry the others along.   *)
(*                                                                         *)
(* MediaInv, proved from IInv, speaks of one upload, one worker and one    *)
(* request at a time: what is in the store and has escaped a deletion or   *)
(* an erasure is late.                                                     *)
(***************************************************************************)
EXTENDS PrivacyRequests, TLAPS

Sound(r) ==
  /\ \A w, v \in Worker : job[w][r] # "none" /\ job[v][r] # "none" => w = v
  /\ (\E w \in Worker : job[w][r] # "none") <=> row[r].status = "processing"
  /\ done[r] = IF row[r].status = "completed" THEN 1 ELSE 0
  /\ row[r].status = "processing" => row[r].wait > 0
  /\ row[r].archive # "none" => row[r].status = "completed"
  /\ r \in Export /\ row[r].archive = "kept" => r \in files
  /\ r \in files => \/ row[r].archive # "none"
                    \/ \E w \in Worker : job[w][r] \in {"acted", "failed"}
  /\ r \in Export => \A w \in Worker : job[w][r] \in {"acted", "erasing"} => r \in files
  /\ r \in purging => row[r].archive = "expired" /\ r \notin files

(* The claim on r was lost: nobody works on it, or its lease has run out.  *)
Lost(r) ==
  /\ row[r].status = "processing"
  /\ row[r].wait = 0 \/ \A w \in Worker : job[w][r] = "none"

Accounted(r) ==
  /\ row[r].status = "new" => row[r].attempts = 0
  /\ row[r].status = "pending" => row[r].attempts < MaxAttempts
  /\ row[r].attempts <= MaxAttempts + crashes + overruns
  /\ Lost(r) => row[r].attempts < MaxAttempts + crashes + overruns

IInv ==
  /\ RequestsTypeOK
  /\ OneActive
  /\ \A r \in Request : Accounted(r)
  /\ \A r \in Request \ disturbed : Sound(r)

-----------------------------------------------------------------------------
(* A request that a step leaves alone stays as it was.                     *)
LEMMA SoundFrame ==
  ASSUME NEW q \in Request, Sound(q),
         row'[q] = row[q], \A v \in Worker : job'[v][q] = job[v][q],
         q \in files' <=> q \in files, q \in purging' => q \in purging, done'[q] = done[q]
  PROVE  Sound(q)'
  BY DEF Sound

LEMMA AccountedFrame ==
  ASSUME RequestsTypeOK, RequestsTypeOK', NEW q \in Request, Accounted(q),
         row'[q] = row[q], \A v \in Worker : job'[v][q] = job[v][q],
         crashes' + overruns' >= crashes + overruns
  PROVE  Accounted(q)'
  <1>1. /\ row[q].attempts \in Nat /\ MaxAttempts \in Nat
        /\ crashes \in Nat /\ overruns \in Nat /\ crashes' \in Nat /\ overruns' \in Nat
    BY PrivacyAssumption DEF RequestsTypeOK, Row
  <1>2. Lost(q)' => Lost(q)
    BY DEF Lost
  <1>. QED BY <1>1, <1>2 DEF Accounted

(* The backoff is a number of ticks.                                       *)
LEMMA BackoffType == ASSUME NEW n \in Nat PROVE BackoffFor(n) \in Nat
  <1> DEFINE raw == 2 ^ (IF n = 0 THEN 0 ELSE n - 1)
  <1>1. CASE raw \in 0..BackoffCap
    BY <1>1 DEF BackoffFor
  <1>2. CASE raw \notin 0..BackoffCap
    BY <1>2, PrivacyAssumption DEF BackoffFor
  <1>. QED BY <1>1, <1>2

(* Moving one request of one worker on leaves all others where they were.  *)
LEMMA MovedEffect ==
  ASSUME RequestsTypeOK, NEW w \in Worker, NEW r \in Request, NEW s \in Stage, Moved(w, r, s)
  PROVE  /\ job' \in [Worker -> [Request -> Stage]]
         /\ \A v \in Worker, q \in Request :
              job'[v][q] = IF v = w /\ q = r THEN s ELSE job[v][q]
  BY DEF Moved, RequestsTypeOK

-----------------------------------------------------------------------------
(* Requests appear and are canceled.                                       *)
LEMMA CreateKeeps ==
  ASSUME IInv, NEW r \in Request, Create(r)
  PROVE  IInv'
  <1>1. /\ row[r].status = "new" /\ Admitted(r)
        /\ row' = [row EXCEPT ![r].status = "pending"]
        /\ UNCHANGED <<job, files, cancels, purging, done, disturbed, crashes, overruns>>
    BY DEF Create
  <1>2. /\ \A q \in Request \ {r} : row'[q] = row[q]
        /\ row'[r].status = "pending" /\ row'[r].attempts = row[r].attempts
        /\ row'[r].archive = row[r].archive
    BY <1>1 DEF IInv, RequestsTypeOK, Row
  <1>3. RequestsTypeOK'
    BY <1>1 DEF IInv, RequestsTypeOK, Row, Status, Active
  <1>4. OneActive'
    BY <1>1, <1>2 DEF IInv, OneActive, Admitted, Active
  <1>5. \A q \in Request : Accounted(q)'
    <2>0. crashes' + overruns' >= crashes + overruns
      BY <1>1, <1>2 DEF IInv, RequestsTypeOK
    <2>1. \A q \in Request \ {r} : Accounted(q)'
      BY <1>1, <1>2, <1>3, <2>0, AccountedFrame DEF IInv
    <2>2. Accounted(r)'
      BY <1>1, <1>2, PrivacyAssumption DEF IInv, RequestsTypeOK, Accounted, Lost
    <2>. QED BY <2>1, <2>2
  <1>6. \A q \in Request \ disturbed' : Sound(q)'
    <2>1. \A q \in Request \ disturbed' : q # r => Sound(q)'
      BY <1>1, <1>2, SoundFrame DEF IInv
    <2>2. r \notin disturbed' => Sound(r)'
      BY <1>1, <1>2 DEF IInv, Sound
    <2>. QED BY <2>1, <2>2
  <1>. QED BY <1>3, <1>4, <1>5, <1>6 DEF IInv

LEMMA CancelReadKeeps ==
  ASSUME IInv, NEW r \in Request, CancelRead(r)
  PROVE  IInv'
  <1>1. UNCHANGED <<row, job, files, purging, done, disturbed, crashes, overruns>>
    BY DEF CancelRead
  <1>2. RequestsTypeOK'
    BY <1>1 DEF CancelRead, IInv, RequestsTypeOK
  <1>. QED BY <1>1, <1>2 DEF IInv, OneActive, Accounted, Lost, Sound

LEMMA CancelWriteKeeps ==
  ASSUME IInv, NEW r \in Request, CancelWrite(r)
  PROVE  IInv'
  <1>1. /\ row' = [row EXCEPT ![r].status = "canceled"]
        /\ disturbed' = IF row[r].status = "pending" THEN disturbed ELSE disturbed \cup {r}
        /\ UNCHANGED <<job, files, purging, done, crashes, overruns>>
    BY DEF CancelWrite
  <1>2. /\ \A q \in Request \ {r} : row'[q] = row[q]
        /\ row'[r].status = "canceled" /\ row'[r].attempts = row[r].attempts
        /\ row'[r].archive = row[r].archive
    BY <1>1 DEF IInv, RequestsTypeOK, Row
  <1>3. RequestsTypeOK'
    <2>1. [row[r] EXCEPT !.status = "canceled"] \in Row
      <3>1. row[r] \in Row
        BY DEF IInv, RequestsTypeOK
      <3>. QED BY <3>1 DEF Row, Status, Final
    <2>2. row' \in [Request -> Row]
      <3>1. row' = [row EXCEPT ![r] = [row[r] EXCEPT !.status = "canceled"]]
        BY <1>1
      <3>. QED BY <2>1, <3>1 DEF IInv, RequestsTypeOK
    <2>3. cancels' \subseteq Request /\ disturbed' \subseteq Request
      BY <1>1 DEF CancelWrite, IInv, RequestsTypeOK
    <2>. QED BY <1>1, <2>2, <2>3 DEF IInv, RequestsTypeOK
  <1>4. OneActive'
    BY <1>2 DEF IInv, OneActive, Active
  <1>5. \A q \in Request : Accounted(q)'
    <2>0. crashes' + overruns' >= crashes + overruns
      BY <1>1, <1>2 DEF IInv, RequestsTypeOK
    <2>1. \A q \in Request \ {r} : Accounted(q)'
      BY <1>1, <1>2, <1>3, <2>0, AccountedFrame DEF IInv
    <2>2. Accounted(r)'
      BY <1>1, <1>2 DEF IInv, Accounted, Lost
    <2>. QED BY <2>1, <2>2
  <1>6. \A q \in Request \ disturbed' : Sound(q)'
    <2>1. \A q \in Request \ disturbed' : q # r => Sound(q)'
      BY <1>1, <1>2, SoundFrame DEF IInv
    <2>2. r \notin disturbed' => Sound(r)'
      BY <1>1, <1>2 DEF IInv, Sound
    <2>. QED BY <2>1, <2>2
  <1>. QED BY <1>3, <1>4, <1>5, <1>6 DEF IInv

-----------------------------------------------------------------------------
(* A claim takes requests that are waiting, or whose claim was lost.       *)
LEMMA ClaimKeeps ==
  ASSUME IInv, NEW w \in Worker, Claim(w)
  PROVE  IInv'
  <1>1. PICK S \in SUBSET {r \in Request : Due(r)} :
          /\ row' = [r \in Request |-> IF r \in S THEN Leased(r) ELSE row[r]]
          /\ job' = [job EXCEPT ![w] = [r \in Request |-> IF r \in S THEN "queued" ELSE "none"]]
    BY DEF Claim
  <1>2. /\ UNCHANGED <<files, cancels, purging, done, disturbed, crashes, overruns>>
        /\ \A r \in Request : job[w][r] = "none"
    BY DEF Claim, Held
  <1>3. \A r \in S : /\ r \in Request /\ row[r].status \in Active /\ row[r].wait = 0
                     /\ row'[r].status = "processing" /\ row'[r].wait = Lease
                     /\ row'[r].attempts = row[r].attempts + 1
                     /\ row'[r].archive = row[r].archive
    BY <1>1 DEF Due, Leased, IInv, RequestsTypeOK, Row
  <1>4. \A r \in Request \ S : row'[r] = row[r]
    BY <1>1
  <1>5. \A v \in Worker, r \in Request :
          job'[v][r] = IF v = w /\ r \in S THEN "queued" ELSE job[v][r]
    BY <1>1, <1>2 DEF IInv, RequestsTypeOK
  <1>6. RequestsTypeOK'
    <2>1. \A r \in S : Leased(r) \in Row
      <3> SUFFICES ASSUME NEW r \in S PROVE Leased(r) \in Row
        OBVIOUS
      <3>1. row[r] \in Row
        BY <1>3 DEF IInv, RequestsTypeOK
      <3>2. Lease \in Nat /\ "processing" \in Status
        BY PrivacyAssumption DEF Status, Active
      <3>. QED BY <3>1, <3>2 DEF Leased, Row
    <2>2. row' \in [Request -> Row]
      BY <1>1, <2>1 DEF IInv, RequestsTypeOK
    <2>3. job' \in [Worker -> [Request -> Stage]]
      BY <1>1 DEF IInv, RequestsTypeOK, Stage
    <2>. QED BY <1>2, <2>2, <2>3 DEF IInv, RequestsTypeOK
  <1>7. OneActive'
    BY <1>3, <1>4 DEF IInv, OneActive, Active
  <1>8. \A q \in Request : Accounted(q)'
    <2>0. crashes' + overruns' >= crashes + overruns
      BY <1>1, <1>2 DEF IInv, RequestsTypeOK
    <2>1. \A q \in Request \ S : Accounted(q)'
      BY <1>2, <1>4, <1>5, <1>6, <2>0, AccountedFrame DEF IInv
    <2>2. ASSUME NEW q \in S PROVE Accounted(q)'
      <3>1. /\ row[q].attempts \in Nat /\ MaxAttempts \in Nat /\ Lease \in Nat \ {0}
            /\ crashes \in Nat /\ overruns \in Nat /\ q \in Request
        BY <1>3, PrivacyAssumption DEF IInv, RequestsTypeOK, Row
      <3>2. row[q].attempts < MaxAttempts + crashes + overruns
        BY <1>3, <3>1 DEF IInv, Accounted, Lost, Active
      <3>3. ~Lost(q)'
        BY <1>3, <1>5, <3>1 DEF Lost
      <3>. QED BY <1>2, <1>3, <1>5, <3>1, <3>2, <3>3 DEF IInv, Accounted
    <2>. QED BY <2>1, <2>2
  <1>9. \A q \in Request \ disturbed' : Sound(q)'
    <2>1. \A q \in Request \ disturbed' : q \notin S => Sound(q)'
      BY <1>2, <1>4, <1>5, SoundFrame DEF IInv
    <2>2. ASSUME NEW q \in S, q \notin disturbed' PROVE Sound(q)'
      <3>1. Sound(q) /\ q \in Request /\ row[q].status = "pending"
        BY <1>2, <1>3, <2>2 DEF IInv, Sound, Active
      <3>2. \A v \in Worker : job[v][q] = "none"
        BY <3>1 DEF Sound
      <3>3. Lease \in Nat /\ Lease > 0
        BY PrivacyAssumption
      <3>. QED BY <1>2, <1>3, <1>5, <3>1, <3>2, <3>3 DEF Sound
    <2>. QED BY <2>1, <2>2
  <1>. QED BY <1>6, <1>7, <1>8, <1>9 DEF IInv
-----------------------------------------------------------------------------
(* The steps of a worker on one request.                                   *)
LEMMA BeginKeeps ==
  ASSUME IInv, NEW w \in Worker, NEW r \in Request, Begin(w, r)
  PROVE  IInv'
  <1> DEFINE s == IF row[r].status = "processing" THEN "working" ELSE "none"
  <1>1. /\ job[w][r] = "queued" /\ s \in Stage /\ Moved(w, r, s)
        /\ UNCHANGED <<row, files, cancels, purging, done, disturbed, crashes, overruns>>
    BY DEF Begin, Stage
  <1>2. /\ job' \in [Worker -> [Request -> Stage]]
        /\ \A v \in Worker, q \in Request :
             job'[v][q] = IF v = w /\ q = r THEN s ELSE job[v][q]
    BY <1>1, MovedEffect DEF IInv
  <1>3. RequestsTypeOK'
    BY <1>1, <1>2 DEF IInv, RequestsTypeOK
  <1>4. OneActive'
    BY <1>1 DEF IInv, OneActive
  <1>5. \A q \in Request : Accounted(q)'
    <2>0. crashes' + overruns' >= crashes + overruns
      BY <1>1, <1>2 DEF IInv, RequestsTypeOK
    <2>1. \A q \in Request \ {r} : Accounted(q)'
      BY <1>1, <1>2, <1>3, <2>0, AccountedFrame DEF IInv
    <2>2. Lost(r)' => Lost(r)
      BY <1>1, <1>2 DEF Lost
    <2>3. Accounted(r)'
      BY <1>1, <1>2, <2>2 DEF IInv, Accounted
    <2>. QED BY <2>1, <2>3
  <1>6. \A q \in Request \ disturbed' : Sound(q)'
    <2>1. \A q \in Request \ disturbed' : q # r => Sound(q)'
      BY <1>1, <1>2, SoundFrame DEF IInv
    <2>2. r \notin disturbed' => Sound(r)'
      BY <1>1, <1>2 DEF IInv, Sound
    <2>. QED BY <2>1, <2>2
  <1>. QED BY <1>3, <1>4, <1>5, <1>6 DEF IInv

(* The archive is written, or the keys of the media are read.              *)
LEMMA ActKeeps ==
  ASSUME IInv, NEW w \in Worker, NEW r \in Request, WriteArchive(w, r) \/ SelectMedia(w, r)
  PROVE  IInv'
  <1>1. PICK s \in {"acted", "erasing"} :
          /\ job[w][r] = "working" /\ Moved(w, r, s)
          /\ UNCHANGED <<row, cancels, purging, done, disturbed, crashes, overruns>>
          /\ r \in Export => s = "acted" /\ files' = files \cup {r}
          /\ r \notin Export => files' = files
    BY DEF WriteArchive, SelectMedia
  <1>2. /\ job' \in [Worker -> [Request -> Stage]]
        /\ \A v \in Worker, q \in Request :
             job'[v][q] = IF v = w /\ q = r THEN s ELSE job[v][q]
    <2>1. s \in Stage
      BY DEF Stage
    <2>. QED BY <1>1, <2>1, MovedEffect DEF IInv
  <1>3. RequestsTypeOK'
    BY <1>1, <1>2 DEF IInv, RequestsTypeOK
  <1>4. OneActive'
    BY <1>1 DEF IInv, OneActive
  <1>5. \A q \in Request : Accounted(q)'
    <2>0. crashes' + overruns' >= crashes + overruns
      BY <1>1, <1>2 DEF IInv, RequestsTypeOK
    <2>1. \A q \in Request \ {r} : Accounted(q)'
      BY <1>1, <1>2, <1>3, <2>0, AccountedFrame DEF IInv
    <2>2. Lost(r)' => Lost(r)
      BY <1>1, <1>2 DEF Lost
    <2>3. Accounted(r)'
      BY <1>1, <1>2, <2>2 DEF IInv, Accounted
    <2>. QED BY <2>1, <2>3
  <1>6. \A q \in Request \ disturbed' : Sound(q)'
    <2>1. \A q \in Request \ disturbed' : q # r => Sound(q)'
      BY <1>1, <1>2, SoundFrame DEF IInv
    <2>2. ASSUME r \notin disturbed' PROVE Sound(r)'
      <3>1. Sound(r) /\ (r \notin Export => r \notin files)
        BY <1>1, <2>2 DEF IInv, RequestsTypeOK
      <3>2. \A v \in Worker : v # w => job[v][r] = "none"
        BY <1>1, <3>1 DEF Sound
      <3>3. row[r].status = "processing" /\ row[r].archive = "none" /\ r \notin purging
        BY <1>1, <3>1 DEF Sound
      <3>. QED BY <1>1, <1>2, <3>1, <3>2, <3>3 DEF Sound
    <2>. QED BY <2>1, <2>2
  <1>. QED BY <1>3, <1>4, <1>5, <1>6 DEF IInv

LEMMA CompleteKeeps ==
  ASSUME IInv, NEW w \in Worker, NEW r \in Request, Complete(w, r)
  PROVE  IInv'
  <1>1. /\ job[w][r] \in {"acted", "erasing"} /\ "none" \in Stage /\ Moved(w, r, "none")
        /\ row' = [row EXCEPT ![r].status = "completed",
                              ![r].archive = IF r \in Export THEN "kept" ELSE @]
        /\ done' = [done EXCEPT ![r] = @ + 1]
        /\ UNCHANGED <<files, cancels, purging, disturbed, crashes, overruns>>
    BY DEF Complete, Stage
  <1>2. /\ job' \in [Worker -> [Request -> Stage]]
        /\ \A v \in Worker, q \in Request :
             job'[v][q] = IF v = w /\ q = r THEN "none" ELSE job[v][q]
    BY <1>1, MovedEffect DEF IInv
  <1>3. /\ \A q \in Request \ {r} : row'[q] = row[q] /\ done'[q] = done[q]
        /\ row'[r].status = "completed" /\ row'[r].attempts = row[r].attempts
        /\ row'[r].archive = IF r \in Export THEN "kept" ELSE row[r].archive
        /\ done[r] \in Nat /\ done'[r] = done[r] + 1
    BY <1>1 DEF IInv, RequestsTypeOK, Row
  <1>4. RequestsTypeOK'
    <2>1. PICK a \in {"none", "kept", "expired"} :
            a = IF r \in Export THEN "kept" ELSE row[r].archive
      BY DEF IInv, RequestsTypeOK, Row
    <2>2. row' = [row EXCEPT ![r] = [row[r] EXCEPT !.status = "completed", !.archive = a]]
      BY <1>1, <2>1
    <2>3. [row[r] EXCEPT !.status = "completed", !.archive = a] \in Row
      <3>1. row[r] \in Row
        BY DEF IInv, RequestsTypeOK
      <3>. QED BY <3>1 DEF Row, Status, Final
    <2>4. row' \in [Request -> Row]
      BY <2>2, <2>3 DEF IInv, RequestsTypeOK
    <2>. QED BY <1>1, <1>2, <2>4 DEF IInv, RequestsTypeOK
  <1>5. OneActive'
    BY <1>3 DEF IInv, OneActive, Active
  <1>6. \A q \in Request : Accounted(q)'
    <2>0. crashes' + overruns' >= crashes + overruns
      BY <1>1, <1>2 DEF IInv, RequestsTypeOK
    <2>1. \A q \in Request \ {r} : Accounted(q)'
      BY <1>1, <1>2, <1>3, <1>4, <2>0, AccountedFrame DEF IInv
    <2>2. Accounted(r)'
      BY <1>1, <1>2, <1>3 DEF IInv, Accounted, Lost
    <2>. QED BY <2>1, <2>2
  <1>7. \A q \in Request \ disturbed' : Sound(q)'
    <2>1. \A q \in Request \ disturbed' : q # r => Sound(q)'
      BY <1>1, <1>2, <1>3, SoundFrame DEF IInv
    <2>2. ASSUME r \notin disturbed' PROVE Sound(r)'
      <3>1. Sound(r) /\ row[r].status = "processing"
        BY <1>1, <2>2 DEF IInv, Sound
      <3>2. /\ row[r].archive = "none" /\ done[r] = 0
            /\ \A v \in Worker : v # w => job[v][r] = "none"
            /\ r \in Export => r \in files
            /\ r \notin purging
        BY <1>1, <3>1 DEF Sound
      <3>3. r \notin Export => r \notin files
        BY DEF IInv, RequestsTypeOK
      <3>. QED BY <1>1, <1>2, <1>3, <3>2, <3>3 DEF Sound
    <2>. QED BY <2>1, <2>2
  <1>. QED BY <1>4, <1>5, <1>6, <1>7 DEF IInv

LEMMA FailKeeps ==
  ASSUME IInv, NEW w \in Worker, NEW r \in Request, Fail(w, r)
  PROVE  IInv'
  <1>1. PICK s \in {"failed", "rejected"} :
          /\ Moved(w, r, s)
          /\ job[w][r] \in {"working", "acted", "erasing"}
          /\ s = "rejected" => job[w][r] = "working"
          /\ \/ files' = files
             \/ s = "failed" /\ r \in Export /\ files' = files \cup {r}
          /\ UNCHANGED <<row, cancels, purging, done, disturbed, crashes, overruns>>
    BY Zenon DEF Fail
  <1>2. /\ job' \in [Worker -> [Request -> Stage]]
        /\ \A v \in Worker, q \in Request :
             job'[v][q] = IF v = w /\ q = r THEN s ELSE job[v][q]
    <2>1. s \in Stage
      BY DEF Stage
    <2>. QED BY <1>1, <2>1, MovedEffect DEF IInv
  <1>3. RequestsTypeOK'
    BY <1>1, <1>2 DEF IInv, RequestsTypeOK
  <1>4. OneActive'
    BY <1>1 DEF IInv, OneActive
  <1>5. \A q \in Request : Accounted(q)'
    <2>0. crashes' + overruns' >= crashes + overruns
      BY <1>1, <1>2 DEF IInv, RequestsTypeOK
    <2>1. \A q \in Request \ {r} : Accounted(q)'
      BY <1>1, <1>2, <1>3, <2>0, AccountedFrame DEF IInv
    <2>2. Lost(r)' => Lost(r)
      BY <1>1, <1>2 DEF Lost
    <2>3. Accounted(r)'
      BY <1>1, <1>2, <2>2 DEF IInv, Accounted
    <2>. QED BY <2>1, <2>3
  <1>6. \A q \in Request \ disturbed' : Sound(q)'
    <2>1. \A q \in Request \ disturbed' : q # r => Sound(q)'
      BY <1>1, <1>2, SoundFrame DEF IInv
    <2>2. ASSUME r \notin disturbed' PROVE Sound(r)'
      <3>1. Sound(r) /\ row[r].status = "processing"
        BY <1>1, <2>2 DEF IInv, Sound
      <3>2. /\ row[r].archive = "none" /\ done[r] = 0
            /\ \A v \in Worker : v # w => job[v][r] = "none"
            /\ r \notin purging
            /\ row[r].wait > 0
            /\ s = "rejected" => r \notin files
        BY <1>1, <3>1 DEF Sound
      <3>. QED BY <1>1, <1>2, <3>1, <3>2 DEF Sound
    <2>. QED BY <2>1, <2>2
  <1>. QED BY <1>3, <1>4, <1>5, <1>6 DEF IInv

LEMMA CleanupKeeps ==
  ASSUME IInv, NEW w \in Worker, NEW r \in Request, Cleanup(w, r)
  PROVE  IInv'
  <1> DEFINE s == AfterCleanup(job[w][r])
  <1>1. /\ job[w][r] \in {"failed", "rejected"} /\ s \in {"retry", "reject"} /\ s \in Stage
        /\ Moved(w, r, s)
        /\ \/ files' = files \ {r} /\ disturbed' = disturbed
           \/ files' = files /\ disturbed' = disturbed \cup {r}
        /\ UNCHANGED <<row, cancels, purging, done, crashes, overruns>>
    BY DEF Cleanup, Stage, AfterCleanup
  <1> HIDE DEF s
  <1>2. /\ job' \in [Worker -> [Request -> Stage]]
        /\ \A v \in Worker, q \in Request :
             job'[v][q] = IF v = w /\ q = r THEN s ELSE job[v][q]
    BY <1>1, MovedEffect DEF IInv
  <1>3. RequestsTypeOK'
    BY <1>1, <1>2 DEF IInv, RequestsTypeOK
  <1>4. OneActive'
    BY <1>1 DEF IInv, OneActive
  <1>5. \A q \in Request : Accounted(q)'
    <2>0. crashes' + overruns' >= crashes + overruns
      BY <1>1, <1>2 DEF IInv, RequestsTypeOK
    <2>1. \A q \in Request \ {r} : Accounted(q)'
      BY <1>1, <1>2, <1>3, <2>0, AccountedFrame DEF IInv
    <2>2. Lost(r)' => Lost(r)
      BY <1>1, <1>2 DEF Lost
    <2>3. Accounted(r)'
      BY <1>1, <1>2, <2>2 DEF IInv, Accounted
    <2>. QED BY <2>1, <2>3
  <1>6. \A q \in Request \ disturbed' : Sound(q)'
    <2>1. \A q \in Request \ disturbed' : q # r => Sound(q)'
      BY <1>1, <1>2, SoundFrame DEF IInv
    <2>2. ASSUME r \notin disturbed' PROVE Sound(r)'
      <3>1. Sound(r) /\ row[r].status = "processing" /\ files' = files \ {r}
        BY <1>1, <2>2 DEF IInv, Sound
      <3>2. /\ row[r].archive = "none" /\ done[r] = 0 /\ row[r].wait > 0
            /\ \A v \in Worker : v # w => job[v][r] = "none"
            /\ r \notin purging
        BY <1>1, <3>1 DEF Sound
      <3>. QED BY <1>1, <1>2, <3>1, <3>2 DEF Sound
    <2>. QED BY <2>1, <2>2
  <1>. QED BY <1>3, <1>4, <1>5, <1>6 DEF IInv

(* The failure is recorded; it may end the claim, or the worker.           *)
LEMMA RecordGivenUpKeeps ==
  ASSUME IInv, NEW w \in Worker, NEW r \in Request,
         RecordFailure(w, r), RecordGivenUp(w, r)
  PROVE  IInv'
  <1>1. /\ job[w][r] \in {"retry", "reject"} /\ "none" \in Stage /\ Moved(w, r, "none")
        /\ row' = [row EXCEPT ![r].status = "failed"]
        /\ UNCHANGED <<files, cancels, purging, done, disturbed, crashes, overruns>>
    BY DEF RecordFailure, RecordGivenUp, Stage
  <1>2. /\ job' \in [Worker -> [Request -> Stage]]
        /\ \A v \in Worker, q \in Request :
             job'[v][q] = IF v = w /\ q = r THEN "none" ELSE job[v][q]
    BY <1>1, MovedEffect DEF IInv
  <1>3. /\ \A q \in Request \ {r} : row'[q] = row[q]
        /\ row'[r].status = "failed" /\ row'[r].attempts = row[r].attempts
        /\ row'[r].archive = row[r].archive
    BY <1>1 DEF IInv, RequestsTypeOK, Row
  <1>4. RequestsTypeOK'
    <2>0. [row[r] EXCEPT !.status = "failed"] \in Row
      <3>1. row[r] \in Row
        BY DEF IInv, RequestsTypeOK
      <3>. QED BY <3>1 DEF Row, Status, Final
    <2>1. row' \in [Request -> Row]
      <3>1. row' = [row EXCEPT ![r] = [row[r] EXCEPT !.status = "failed"]]
        BY <1>1
      <3>. QED BY <2>0, <3>1 DEF IInv, RequestsTypeOK
    <2>. QED BY <1>1, <1>2, <2>1 DEF IInv, RequestsTypeOK
  <1>5. OneActive'
    BY <1>3 DEF IInv, OneActive, Active
  <1>6. \A q \in Request : Accounted(q)'
    <2>0. crashes' + overruns' >= crashes + overruns
      BY <1>1, <1>2 DEF IInv, RequestsTypeOK
    <2>1. \A q \in Request \ {r} : Accounted(q)'
      BY <1>1, <1>2, <1>3, <1>4, <2>0, AccountedFrame DEF IInv
    <2>2. Accounted(r)'
      BY <1>1, <1>2, <1>3 DEF IInv, Accounted, Lost
    <2>. QED BY <2>1, <2>2
  <1>7. \A q \in Request \ disturbed' : Sound(q)'
    <2>1. \A q \in Request \ disturbed' : q # r => Sound(q)'
      BY <1>1, <1>2, <1>3, SoundFrame DEF IInv
    <2>2. ASSUME r \notin disturbed' PROVE Sound(r)'
      <3>1. Sound(r) /\ row[r].status = "processing"
        BY <1>1, <2>2 DEF IInv, Sound
      <3>2. /\ row[r].archive = "none" /\ done[r] = 0
            /\ \A v \in Worker : v # w => job[v][r] = "none"
            /\ r \notin purging /\ r \notin files
        BY <1>1, <3>1 DEF Sound
      <3>. QED BY <1>1, <1>2, <1>3, <3>2 DEF Sound
    <2>. QED BY <2>1, <2>2
  <1>. QED BY <1>4, <1>5, <1>6, <1>7 DEF IInv

LEMMA RecordRetryKeeps ==
  ASSUME IInv, NEW w \in Worker, NEW r \in Request,
         RecordFailure(w, r), RecordRetry(w, r)
  PROVE  IInv'
  <1>1. /\ job[w][r] \in {"retry", "reject"} /\ "none" \in Stage /\ Moved(w, r, "none")
        /\ ~GivesUp(w, r) /\ Admitted(r)
        /\ row' = [row EXCEPT ![r].status = "pending", ![r].wait = BackoffFor(row[r].attempts)]
        /\ UNCHANGED <<files, cancels, purging, done, disturbed, crashes, overruns>>
    BY DEF RecordFailure, RecordRetry, Stage
  <1>2. /\ job' \in [Worker -> [Request -> Stage]]
        /\ \A v \in Worker, q \in Request :
             job'[v][q] = IF v = w /\ q = r THEN "none" ELSE job[v][q]
    BY <1>1, MovedEffect DEF IInv
  <1>3. /\ \A q \in Request \ {r} : row'[q] = row[q]
        /\ row'[r].status = "pending" /\ row'[r].attempts = row[r].attempts
        /\ row'[r].archive = row[r].archive
    BY <1>1 DEF IInv, RequestsTypeOK, Row
  <1>4. RequestsTypeOK'
    <2>1. BackoffFor(row[r].attempts) \in Nat
      BY BackoffType DEF IInv, RequestsTypeOK, Row
    <2>2. PICK n \in Nat : n = BackoffFor(row[r].attempts)
      BY <2>1
    <2>3. row' = [row EXCEPT ![r] = [row[r] EXCEPT !.status = "pending", !.wait = n]]
      BY <1>1, <2>2
    <2>4. [row[r] EXCEPT !.status = "pending", !.wait = n] \in Row
      <3>1. row[r] \in Row
        BY DEF IInv, RequestsTypeOK
      <3>. QED BY <3>1 DEF Row, Status, Active
    <2>5. row' \in [Request -> Row]
      BY <2>3, <2>4 DEF IInv, RequestsTypeOK
    <2>. QED BY <1>1, <1>2, <2>5 DEF IInv, RequestsTypeOK
  <1>5. OneActive'
    BY <1>1, <1>3 DEF IInv, OneActive, Admitted, Active
  <1>6. \A q \in Request : Accounted(q)'
    <2>0. crashes' + overruns' >= crashes + overruns
      BY <1>1, <1>2 DEF IInv, RequestsTypeOK
    <2>1. \A q \in Request \ {r} : Accounted(q)'
      BY <1>1, <1>2, <1>3, <1>4, <2>0, AccountedFrame DEF IInv
    <2>2. row[r].attempts < MaxAttempts
      BY <1>1, PrivacyAssumption DEF GivesUp, IInv, RequestsTypeOK, Row
    <2>3. Accounted(r)'
      BY <1>1, <1>2, <1>3, <2>2 DEF IInv, Accounted, Lost
    <2>. QED BY <2>1, <2>3
  <1>7. \A q \in Request \ disturbed' : Sound(q)'
    <2>1. \A q \in Request \ disturbed' : q # r => Sound(q)'
      BY <1>1, <1>2, <1>3, SoundFrame DEF IInv
    <2>2. ASSUME r \notin disturbed' PROVE Sound(r)'
      <3>1. Sound(r) /\ row[r].status = "processing"
        BY <1>1, <2>2 DEF IInv, Sound
      <3>2. /\ row[r].archive = "none" /\ done[r] = 0
            /\ \A v \in Worker : v # w => job[v][r] = "none"
            /\ r \notin purging /\ r \notin files
        BY <1>1, <3>1 DEF Sound
      <3>. QED BY <1>1, <1>2, <1>3, <3>2 DEF Sound
    <2>. QED BY <2>1, <2>2
  <1>. QED BY <1>4, <1>5, <1>6, <1>7 DEF IInv

(* A worker that ends disturbs all it held, and nothing else.              *)
LEMMA EndOfWorkerKeeps ==
  ASSUME IInv, NEW w \in Worker,
         job' = [job EXCEPT ![w] = NoJob],
         disturbed' = disturbed \cup Held(w),
         crashes' = crashes + 1,
         UNCHANGED <<row, files, cancels, purging, done, overruns>>
  PROVE  IInv'
  <1>1. /\ job' \in [Worker -> [Request -> Stage]]
        /\ \A v \in Worker, q \in Request :
             job'[v][q] = IF v = w THEN "none" ELSE job[v][q]
    BY DEF IInv, RequestsTypeOK, NoJob, Stage
  <1>2. RequestsTypeOK'
    BY <1>1 DEF IInv, RequestsTypeOK, Held
  <1>3. OneActive'
    BY DEF IInv, OneActive
  <1>4. \A q \in Request : Accounted(q)'
    <2> SUFFICES ASSUME NEW q \in Request PROVE Accounted(q)'
      OBVIOUS
    <2>1. /\ row[q].attempts \in Nat /\ MaxAttempts \in Nat
          /\ crashes \in Nat /\ overruns \in Nat
      BY PrivacyAssumption DEF IInv, RequestsTypeOK, Row
    <2>. QED BY <1>1, <2>1 DEF IInv, Accounted
  <1>5. \A q \in Request \ disturbed' : Sound(q)'
    <2> SUFFICES ASSUME NEW q \in Request, q \notin disturbed' PROVE Sound(q)'
      OBVIOUS
    <2>1. job[w][q] = "none" /\ Sound(q)
      BY DEF Held, IInv
    <2>. QED BY <1>1, <2>1, SoundFrame
  <1>. QED BY <1>2, <1>3, <1>4, <1>5 DEF IInv

LEMMA RecordFailureKeeps ==
  ASSUME IInv, NEW w \in Worker, NEW r \in Request, RecordFailure(w, r)
  PROVE  IInv'
  <1>1. CASE RecordGivenUp(w, r)
    BY <1>1, RecordGivenUpKeeps
  <1>2. CASE RecordRetry(w, r)
    BY <1>2, RecordRetryKeeps
  <1>3. CASE RecordRefused(w, r)
    BY <1>3, EndOfWorkerKeeps DEF RecordFailure, RecordRefused
  <1>. QED BY <1>1, <1>2, <1>3 DEF RecordFailure

LEMMA CrashKeeps ==
  ASSUME IInv, NEW w \in Worker, Crash(w)
  PROVE  IInv'
  BY EndOfWorkerKeeps DEF Crash

-----------------------------------------------------------------------------
(* The scheduler's purge, and the passage of time.                         *)
LEMMA ExpireKeeps ==
  ASSUME IInv, NEW r \in Request, Expire(r)
  PROVE  IInv'
  <1>1. /\ row[r].archive = "kept"
        /\ row' = [row EXCEPT ![r].archive = "expired"]
        /\ UNCHANGED <<job, files, cancels, purging, done, disturbed, crashes, overruns>>
    BY DEF Expire
  <1>2. /\ \A q \in Request \ {r} : row'[q] = row[q]
        /\ row'[r].status = row[r].status /\ row'[r].attempts = row[r].attempts
        /\ row'[r].wait = row[r].wait /\ row'[r].archive = "expired"
    BY <1>1 DEF IInv, RequestsTypeOK, Row
  <1>3. RequestsTypeOK'
    BY <1>1 DEF IInv, RequestsTypeOK, Row
  <1>4. OneActive'
    BY <1>2 DEF IInv, OneActive
  <1>5. \A q \in Request : Accounted(q)'
    BY <1>1, <1>2 DEF IInv, Accounted, Lost
  <1>6. \A q \in Request \ disturbed' : Sound(q)'
    <2>1. \A q \in Request \ disturbed' : q # r => Sound(q)'
      BY <1>1, <1>2, SoundFrame DEF IInv
    <2>2. r \notin disturbed' => Sound(r)'
      BY <1>1, <1>2 DEF IInv, Sound
    <2>. QED BY <2>1, <2>2
  <1>. QED BY <1>3, <1>4, <1>5, <1>6 DEF IInv

LEMMA PurgeDeleteKeeps ==
  ASSUME IInv, NEW r \in Request, PurgeDelete(r)
  PROVE  IInv'
  <1>1. /\ row[r].archive = "expired"
        /\ files' = files \ {r} /\ purging' = purging \cup {r}
        /\ UNCHANGED <<row, job, cancels, done, disturbed, crashes, overruns>>
    BY DEF PurgeDelete
  <1>2. RequestsTypeOK' /\ OneActive'
    BY <1>1 DEF IInv, RequestsTypeOK, OneActive
  <1>3. \A q \in Request : Accounted(q)'
    BY <1>1 DEF IInv, Accounted, Lost
  <1>4. \A q \in Request \ disturbed' : Sound(q)'
    <2>1. \A q \in Request \ disturbed' : q # r => Sound(q)'
      BY <1>1, SoundFrame DEF IInv
    <2>2. r \notin disturbed' => Sound(r)'
      BY <1>1 DEF IInv, Sound
    <2>. QED BY <2>1, <2>2
  <1>. QED BY <1>2, <1>3, <1>4 DEF IInv

LEMMA PurgeEndKeeps ==
  ASSUME IInv, PurgeEnd
  PROVE  IInv'
  <1>1. /\ purging' = {}
        /\ UNCHANGED <<job, files, cancels, done, disturbed, crashes, overruns>>
        /\ row' \in [Request -> Row]
        /\ \A q \in Request : /\ row'[q].status = row[q].status
                              /\ row'[q].attempts = row[q].attempts
                              /\ row'[q].wait = row[q].wait
                              /\ row'[q].archive \in {row[q].archive, "none"}
                              /\ q \notin purging => row'[q].archive = row[q].archive
    BY DEF PurgeEnd, IInv, RequestsTypeOK, Row
  <1>2. RequestsTypeOK' /\ OneActive'
    BY <1>1 DEF IInv, RequestsTypeOK, OneActive
  <1>3. \A q \in Request : Accounted(q)'
    BY <1>1 DEF IInv, Accounted, Lost
  <1>4. \A q \in Request \ disturbed' : Sound(q)'
    BY <1>1 DEF IInv, Sound
  <1>. QED BY <1>2, <1>3, <1>4 DEF IInv

LEMMA TickKeeps ==
  ASSUME IInv, Tick
  PROVE  IInv'
  <1>1. /\ UNCHANGED <<job, files, cancels, purging, done, crashes>>
        /\ disturbed' = disturbed \cup Overrun
        /\ overruns' = IF Overrun = {} THEN overruns ELSE overruns + 1
        /\ Overrun \subseteq Request
    BY DEF Tick, Overrun, HeldByAny, Held
  <1>2. /\ row' \in [Request -> Row]
        /\ \A q \in Request : /\ row'[q].status = row[q].status
                              /\ row'[q].attempts = row[q].attempts
                              /\ row'[q].archive = row[q].archive
                              /\ row'[q].wait = IF row[q].wait > 0 THEN row[q].wait - 1 ELSE 0
                              /\ row[q].wait \in Nat /\ row[q].attempts \in Nat
    <2> DEFINE less(q) == IF row[q].wait > 0 THEN row[q].wait - 1 ELSE 0
    <2>1. row' = [q \in Request |-> [row[q] EXCEPT !.wait = less(q)]]
      BY DEF Tick
    <2>2. ASSUME NEW q \in Request
          PROVE  row[q] \in Row /\ row[q].wait \in Nat /\ row[q].attempts \in Nat
      BY DEF IInv, RequestsTypeOK, Row
    <2>3. ASSUME NEW q \in Request PROVE less(q) \in Nat
      BY <2>2
    <2>4. ASSUME NEW x \in Row, NEW n \in Nat
          PROVE  /\ [x EXCEPT !.wait = n] \in Row /\ [x EXCEPT !.wait = n].wait = n
                 /\ [x EXCEPT !.wait = n].status = x.status
                 /\ [x EXCEPT !.wait = n].attempts = x.attempts
                 /\ [x EXCEPT !.wait = n].archive = x.archive
      BY DEF Row
    <2> HIDE DEF less
    <2>5. row' \in [Request -> Row]
      BY <2>1, <2>2, <2>3, <2>4
    <2>6. ASSUME NEW q \in Request
          PROVE  /\ row'[q].status = row[q].status /\ row'[q].attempts = row[q].attempts
                 /\ row'[q].archive = row[q].archive /\ row'[q].wait = less(q)
      BY <2>1, <2>2, <2>3, <2>4
    <2>. QED BY <2>2, <2>5, <2>6 DEF less
  <1>3. RequestsTypeOK'
    BY <1>1, <1>2 DEF IInv, RequestsTypeOK
  <1>4. OneActive'
    BY <1>2 DEF IInv, OneActive
  <1>5. \A q \in Request : (\E w \in Worker : job[w][q] # "none") /\ row[q].status = "processing"
                             /\ row[q].wait = 1 => q \in Overrun
    BY DEF Overrun, HeldByAny, Held
  <1>6. \A q \in Request : Accounted(q)'
    <2> SUFFICES ASSUME NEW q \in Request PROVE Accounted(q)'
      OBVIOUS
    <2>1. MaxAttempts \in Nat /\ crashes \in Nat /\ overruns \in Nat /\ overruns' \in Nat
      BY <1>3, PrivacyAssumption DEF IInv, RequestsTypeOK
    <2>2. overruns' >= overruns
      BY <1>1, <2>1
    <2>3. Lost(q)' => row[q].attempts < MaxAttempts + crashes + overruns'
      <3>1. CASE Lost(q)
        BY <1>1, <1>2, <2>1, <2>2, <3>1 DEF IInv, Accounted
      <3>2. CASE ~Lost(q) /\ Lost(q)'
        <4>1. q \in Overrun
          BY <1>1, <1>2, <1>5, <3>2 DEF Lost
        <4>. QED BY <1>1, <1>2, <2>1, <4>1 DEF IInv, Accounted
      <3>. QED BY <3>1, <3>2
    <2>. QED BY <1>1, <1>2, <2>1, <2>2, <2>3 DEF IInv, Accounted
  <1>7. \A q \in Request \ disturbed' : Sound(q)'
    <2> SUFFICES ASSUME NEW q \in Request, q \notin disturbed' PROVE Sound(q)'
      OBVIOUS
    <2>1. Sound(q) /\ q \notin Overrun
      BY <1>1 DEF IInv
    <2>2. row[q].status = "processing" => row[q].wait > 1
      BY <1>2, <1>5, <2>1 DEF Sound
    <2>. QED BY <1>1, <1>2, <2>1, <2>2 DEF Sound
  <1>. QED BY <1>3, <1>4, <1>6, <1>7 DEF IInv

-----------------------------------------------------------------------------
(* The media have no part in this invariant.                               *)
LEMMA RequestsFrame ==
  ASSUME IInv,
         UNCHANGED <<row, job, files, cancels, purging, done, disturbed, crashes, overruns>>
  PROVE  IInv'
  BY DEF IInv, RequestsTypeOK, OneActive, Accounted, Lost, Sound

LEMMA RemoveKeeps ==
  ASSUME IInv, NEW w \in Worker, NEW m \in Medium, RemoveMedia(w, m)
  PROVE  IInv'
  BY RequestsFrame DEF RemoveMedia

LEMMA UploadsKeep ==
  ASSUME IInv, NEW m \in Medium,
         CreateUpload(m) \/ PutObject(m) \/ DeleteEvidence(m) \/ EndDelete(m)
  PROVE  IInv'
  BY RequestsFrame DEF CreateUpload, PutObject, DeleteEvidence, EndDelete

-----------------------------------------------------------------------------
LEMMA Invariance == Spec => []IInv
  <1>1. Init => IInv
    <2> SUFFICES ASSUME Init PROVE IInv
      OBVIOUS
    <2>1. /\ \A w \in Worker, r \in Request : job[w][r] = "none"
          /\ \A r \in Request :
               row[r] = [status |-> "new", attempts |-> 0, wait |-> 0, archive |-> "none"]
      BY DEF Init, NoJob
    <2>2. RequestsTypeOK
      BY <2>1, PrivacyAssumption DEF Init, NoJob, RequestsTypeOK, Row, Status, Stage
    <2>3. OneActive
      BY <2>1 DEF OneActive, Active
    <2>4. \A r \in Request : Accounted(r) /\ Sound(r)
      BY <2>1, PrivacyAssumption DEF Init, Accounted, Lost, Sound
    <2>. QED BY <2>2, <2>3, <2>4 DEF IInv
  <1>2. IInv /\ [Next]_vars => IInv'
    <2> SUFFICES ASSUME IInv, [Next]_vars PROVE IInv'
      OBVIOUS
    <2>1. CASE UNCHANGED vars
      BY <2>1 DEF vars, mediaVars, IInv, RequestsTypeOK, OneActive, Accounted, Lost, Sound
    <2>2. ASSUME NEW w \in Worker, Step(w) PROVE IInv'
      BY <2>2, BeginKeeps, ActKeeps, CompleteKeeps, FailKeeps, CleanupKeeps,
         RecordFailureKeeps, RemoveKeeps DEF Step
    <2>. QED
      BY <2>1, <2>2, CreateKeeps, CancelReadKeeps, CancelWriteKeeps, ExpireKeeps,
         PurgeDeleteKeeps, UploadsKeep, ClaimKeeps, CrashKeeps, PurgeEndKeeps, TickKeeps
      DEF Next
  <1>. QED BY <1>1, <1>2, PTL DEF Spec

-----------------------------------------------------------------------------
(* The invariant of the media.  An object whose row no longer has its key, *)
(* or is about to lose it, was put late; so was one that an erasure under  *)
(* way, or committed, does not have before it any more.                    *)
Busy(w, r) == job[w][r] \notin {"none", "queued"}
Remaining(r) == objects \cap MediaOf(r)

Kept(m) == m \in objects => /\ slot[m] # "none"
                            /\ slot[m] = "cleared" \/ m \in retiring => m \in late

Single(w) == \A r, q \in Request : Busy(w, r) /\ Busy(w, q) => r = q

Clearing(w) ==
  /\ Single(w)
  /\ \A r \in Request : job[w][r] = "acted" => r \in Export
  /\ \A r \in Request : job[w][r] = "erasing" =>
       r \notin Export /\ found[w] \subseteq MediaOf(r) /\ Remaining(r) \ left[w] \subseteq late
  /\ (\A r \in Request : job[w][r] # "erasing") => found[w] = {}

Thorough(r) == r \notin Export /\ done[r] > 0 => Remaining(r) \subseteq late

MediaInv ==
  /\ MediaTypeOK
  /\ \A m \in Medium : Kept(m)
  /\ \A w \in Worker : Clearing(w)
  /\ \A r \in Request : Thorough(r)

(* What a step does to the jobs of the other workers is nothing.           *)
LEMMA ClearingFrame ==
  ASSUME NEW v \in Worker, Clearing(v), \A q \in Request : job'[v][q] = job[v][q],
         found'[v] = found[v], left'[v] = left[v], objects' = objects, late' = late
  PROVE  Clearing(v)'
  BY DEF Clearing, Single, Busy, Remaining, MediaOf

(* The media are as they were, and so is the number of erasures committed. *)
LEMMA MediaFrame ==
  ASSUME MediaInv, UNCHANGED <<mediaVars, done>>, \A w \in Worker : Clearing(w)'
  PROVE  MediaInv'
  BY DEF MediaInv, mediaVars, MediaTypeOK, Kept, Thorough, Remaining, MediaOf

LEMMA JobsFrame ==
  ASSUME MediaInv, UNCHANGED <<job, mediaVars, done>>
  PROVE  MediaInv'
  <1>1. \A v \in Worker : Clearing(v)'
    BY ClearingFrame DEF MediaInv, mediaVars
  <1>. QED BY <1>1, MediaFrame

LEMMA ClaimKeepsMedia ==
  ASSUME IInv, MediaInv, NEW w \in Worker, Claim(w)
  PROVE  MediaInv'
  <1>1. PICK S \in SUBSET Request :
          job' = [job EXCEPT ![w] = [r \in Request |-> IF r \in S THEN "queued" ELSE "none"]]
    BY DEF Claim
  <1>2. UNCHANGED <<mediaVars, done>> /\ \A r \in Request : job[w][r] = "none"
    BY DEF Claim, Held
  <1>3. \A v \in Worker, r \in Request :
          job'[v][r] = IF v = w THEN IF r \in S THEN "queued" ELSE "none" ELSE job[v][r]
    BY <1>1 DEF IInv, RequestsTypeOK
  <1>4. \A v \in Worker : v # w => Clearing(v)'
    BY <1>2, <1>3, ClearingFrame DEF MediaInv, mediaVars
  <1>5. found[w] = {}
    BY <1>2 DEF MediaInv, Clearing
  <1>6. Clearing(w)'
    BY <1>2, <1>3, <1>5 DEF Clearing, Single, Busy, mediaVars
  <1>. QED BY <1>2, <1>4, <1>6, MediaFrame

(* A step on one request that is not, and will not be, erasing.            *)
LEMMA StageKeepsMedia ==
  ASSUME IInv, MediaInv, NEW w \in Worker, NEW r \in Request, NEW s \in Stage, Moved(w, r, s),
         UNCHANGED <<mediaVars, done>>,
         job[w][r] # "erasing", s # "erasing", s = "acted" => r \in Export,
         \A q \in Request : q # r => ~Busy(w, q)
  PROVE  MediaInv'
  <1>1. \A v \in Worker, q \in Request :
          job'[v][q] = IF v = w /\ q = r THEN s ELSE job[v][q]
    BY MovedEffect DEF IInv
  <1>2. \A v \in Worker : v # w => Clearing(v)'
    BY <1>1, ClearingFrame DEF MediaInv, mediaVars
  <1>3. Clearing(w)'
    <2>1. Clearing(w) /\ \A q \in Request : job[w][q] # "erasing"
      BY DEF MediaInv, Busy
    <2>. QED BY <1>1, <2>1 DEF Clearing, Single, Busy, mediaVars
  <1>. QED BY <1>2, <1>3, MediaFrame

LEMMA SelectKeepsMedia ==
  ASSUME IInv, MediaInv, NEW w \in Worker, NEW r \in Request, SelectMedia(w, r)
  PROVE  MediaInv'
  <1>1. /\ r \notin Export /\ job[w][r] = "working" /\ Moved(w, r, "erasing")
        /\ found' = [found EXCEPT ![w] = Keyed(r)] /\ left' = [left EXCEPT ![w] = Keyed(r)]
        /\ UNCHANGED <<slot, objects, retiring, late, done>>
    BY DEF SelectMedia
  <1>2. \A v \in Worker, q \in Request :
          job'[v][q] = IF v = w /\ q = r THEN "erasing" ELSE job[v][q]
    <2>1. "erasing" \in Stage
      BY DEF Stage
    <2>. QED BY <1>1, <2>1, MovedEffect DEF IInv
  <1>3. /\ Keyed(r) \subseteq MediaOf(r) /\ MediaOf(r) \subseteq Medium
        /\ found'[w] = Keyed(r) /\ left'[w] = Keyed(r)
        /\ \A v \in Worker : v # w => found'[v] = found[v] /\ left'[v] = left[v]
    BY <1>1 DEF MediaInv, MediaTypeOK, Keyed, MediaOf
  <1>4. MediaTypeOK'
    BY <1>1, <1>3 DEF MediaInv, MediaTypeOK
  <1>5. \A v \in Worker : v # w => Clearing(v)'
    BY <1>1, <1>2, <1>3, ClearingFrame DEF MediaInv
  <1>6. Remaining(r) \ Keyed(r) \subseteq late
    <2> SUFFICES ASSUME NEW m \in Remaining(r), m \notin Keyed(r) PROVE m \in late
      OBVIOUS
    <2>1. m \in Medium /\ m \in objects /\ slot[m] # "keyed"
      BY DEF Remaining, Keyed, MediaOf
    <2>. QED BY <2>1 DEF MediaInv, MediaTypeOK, Kept
  <1>7. Clearing(w)'
    <2>1. /\ Single(w) /\ \A q \in Request : job[w][q] = "acted" => q \in Export
          /\ \A q \in Request : q # r => ~Busy(w, q)
      BY <1>1 DEF MediaInv, Clearing, Single, Busy
    <2>2. Single(w)'
      BY <1>2, <2>1 DEF Single, Busy
    <2>3. \A q \in Request : job'[w][q] \in {"acted", "erasing"} => q = r
      BY <1>2, <2>1 DEF Busy
    <2>4. Remaining(r)' = Remaining(r) /\ MediaOf(r)' = MediaOf(r)
      BY <1>1 DEF Remaining, MediaOf
    <2>. QED BY <1>1, <1>2, <1>3, <1>6, <2>2, <2>3, <2>4 DEF Clearing
  <1>8. \A m \in Medium : Kept(m)'
    BY <1>1 DEF MediaInv, Kept
  <1>9. \A q \in Request : Thorough(q)'
    BY <1>1 DEF MediaInv, Thorough, Remaining, MediaOf
  <1>. QED BY <1>4, <1>5, <1>7, <1>8, <1>9 DEF MediaInv

(* An object that is deleted need not have been late.                      *)
LEMMA DeletionKeepsMedia ==
  ASSUME MediaInv, NEW m \in Medium, Deleted(m), job' = job, done' = done, found' = found,
         left' \in [Worker -> SUBSET Medium],
         \A v \in Worker : left[v] \subseteq left'[v] \cup {m},
         slot' = slot, retiring' \subseteq Medium,
         retiring' \subseteq retiring \cup {m}
  PROVE  MediaInv'
  <1>1. objects' = objects \ {m} /\ late' = late \ {m}
    BY DEF Deleted
  <1>2. MediaTypeOK'
    BY <1>1 DEF MediaInv, MediaTypeOK
  <1>3. \A n \in Medium : Kept(n)'
    BY <1>1 DEF MediaInv, Kept
  <1>4. \A v \in Worker : Clearing(v)'
    <2> SUFFICES ASSUME NEW v \in Worker PROVE Clearing(v)'
      OBVIOUS
    <2>1. Clearing(v) /\ left[v] \subseteq left'[v] \cup {m}
      BY DEF MediaInv
    <2>2. \A r \in Request : Remaining(r)' = Remaining(r) \ {m} /\ MediaOf(r)' = MediaOf(r)
      BY <1>1 DEF Remaining, MediaOf
    <2>. QED BY <1>1, <2>1, <2>2 DEF Clearing, Single, Busy
  <1>5. \A r \in Request : Thorough(r)'
    BY <1>1 DEF MediaInv, Thorough, Remaining, MediaOf
  <1>. QED BY <1>2, <1>3, <1>4, <1>5 DEF MediaInv

LEMMA RemoveKeepsMedia ==
  ASSUME MediaInv, NEW w \in Worker, NEW m \in Medium, RemoveMedia(w, m)
  PROVE  MediaInv'
  <1>1. /\ Deleted(m) /\ left' = [left EXCEPT ![w] = left[w] \ {m}]
        /\ UNCHANGED <<job, done, found, slot, retiring>>
    BY DEF RemoveMedia
  <1>2. left \in [Worker -> SUBSET Medium] /\ retiring \subseteq Medium
    BY DEF MediaInv, MediaTypeOK
  <1>3. /\ left' \in [Worker -> SUBSET Medium]
        /\ \A v \in Worker : left[v] \subseteq left'[v] \cup {m}
    BY <1>1, <1>2
  <1>. QED BY <1>1, <1>2, <1>3, DeletionKeepsMedia

LEMMA DeleteEvidenceKeepsMedia ==
  ASSUME MediaInv, NEW m \in Medium, DeleteEvidence(m)
  PROVE  MediaInv'
  <1>1. /\ Deleted(m) /\ retiring' = retiring \cup {m}
        /\ UNCHANGED <<job, done, found, left, slot>>
    BY DEF DeleteEvidence
  <1>2. left \in [Worker -> SUBSET Medium] /\ retiring \subseteq Medium
    BY DEF MediaInv, MediaTypeOK
  <1>. QED BY <1>1, <1>2, DeletionKeepsMedia

(* The worker forgets its keys as its job on the request ends.             *)
LEMMA ForgetKeepsMedia ==
  ASSUME IInv, MediaInv, NEW w \in Worker, NEW r \in Request, NEW s \in Stage, Moved(w, r, s),
         s \notin {"acted", "erasing"}, Busy(w, r), Forget(w),
         \/ UNCHANGED <<objects, late>> \/ \E m \in Medium : Deleted(m),
         UNCHANGED retiring, slot' \in [Medium -> {"none", "keyed", "cleared"}],
         \A m \in Medium : slot'[m] # slot[m] => slot'[m] = "cleared" /\ (m \in objects => m \in late),
         done' \in [Request -> Nat],
         \A q \in Request : done'[q] # done[q] /\ q \notin Export => Remaining(q) \subseteq late
  PROVE  MediaInv'
  <1>1. \A v \in Worker, q \in Request :
          job'[v][q] = IF v = w /\ q = r THEN s ELSE job[v][q]
    BY MovedEffect DEF IInv
  <1>2. PICK M \in SUBSET Medium : objects' = objects \ M /\ late' = late \ M
    <2>1. CASE UNCHANGED <<objects, late>>
      <3>1. {} \in SUBSET Medium /\ objects' = objects \ {} /\ late' = late \ {}
        BY <2>1
      <3>. QED BY <3>1
    <2>2. CASE \E m \in Medium : Deleted(m)
      <3>1. PICK m \in Medium : Deleted(m)
        BY <2>2
      <3>2. {m} \in SUBSET Medium /\ objects' = objects \ {m} /\ late' = late \ {m}
        BY <3>1 DEF Deleted
      <3>. QED BY <3>2
    <2>. QED BY <2>1, <2>2
  <1>3. /\ found'[w] = {} /\ left'[w] = {}
        /\ \A v \in Worker : v # w => found'[v] = found[v] /\ left'[v] = left[v]
        /\ found' \in [Worker -> SUBSET Medium] /\ left' \in [Worker -> SUBSET Medium]
    BY DEF Forget, MediaInv, MediaTypeOK
  <1>4. MediaTypeOK'
    BY <1>2, <1>3 DEF MediaInv, MediaTypeOK
  <1>5. \A m \in Medium : Kept(m)'
    BY <1>2 DEF MediaInv, Kept
  <1>6. \A q \in Request : Remaining(q)' = Remaining(q) \ M /\ MediaOf(q)' = MediaOf(q)
    BY <1>2 DEF Remaining, MediaOf
  <1>7. ASSUME NEW v \in Worker, v # w PROVE Clearing(v)'
    <2>1. Clearing(v) /\ found'[v] = found[v] /\ left'[v] = left[v]
      BY <1>3, <1>7 DEF MediaInv
    <2>2. \A q \in Request : job'[v][q] = job[v][q]
      BY <1>1, <1>7
    <2>. QED BY <1>2, <1>6, <2>1, <2>2 DEF Clearing, Single, Busy
  <1>8. Clearing(w)'
    <2>1. \A q \in Request : q # r => ~Busy(w, q)
      BY DEF MediaInv, Clearing, Single
    <2>2. \A q \in Request : job'[w][q] \notin {"acted", "erasing"}
      BY <1>1, <2>1 DEF Busy
    <2>3. Single(w)'
      BY <1>1, <2>1 DEF Single, Busy
    <2>. QED BY <1>3, <2>2, <2>3 DEF Clearing
  <1>9. \A q \in Request : Thorough(q)'
    <2> SUFFICES ASSUME NEW q \in Request, q \notin Export, done'[q] > 0
                 PROVE  Remaining(q)' \subseteq late'
      BY DEF Thorough
    <2>1. Remaining(q) \subseteq late
      BY DEF MediaInv, Thorough
    <2>. QED BY <1>2, <1>6, <2>1
  <1>. QED BY <1>4, <1>5, <1>7, <1>8, <1>9 DEF MediaInv

(* When all it had read is deleted, what remains of the person was late.   *)
LEMMA CompleteKeepsMedia ==
  ASSUME IInv, MediaInv, NEW w \in Worker, NEW r \in Request, Complete(w, r)
  PROVE  MediaInv'
  <1>1. /\ job[w][r] = "acted" \/ (job[w][r] = "erasing" /\ left[w] = {})
        /\ Moved(w, r, "none") /\ Forget(w) /\ done' = [done EXCEPT ![r] = done[r] + 1]
        /\ slot' = [m \in Medium |-> IF m \in found[w] THEN "cleared" ELSE slot[m]]
        /\ UNCHANGED <<objects, late, retiring>>
    BY DEF Complete
  <1>2. Clearing(w) /\ Busy(w, r)
    BY <1>1 DEF MediaInv, Busy
  <1>3. r \notin Export => Remaining(r) \subseteq late
    BY <1>1, <1>2 DEF Clearing
  <1>4. \A m \in found[w] : m \in objects => m \in late
    <2>1. CASE job[w][r] = "acted"
      <3>1. \A q \in Request : job[w][q] # "erasing"
        BY <1>2, <2>1 DEF Clearing, Single, Busy
      <3>. QED BY <1>2, <3>1 DEF Clearing
    <2>2. CASE job[w][r] = "erasing"
      <3>1. found[w] \subseteq MediaOf(r) /\ Remaining(r) \subseteq late
        BY <1>1, <1>2, <2>2 DEF Clearing
      <3>. QED BY <3>1 DEF Remaining
    <2>. QED BY <1>1, <2>1, <2>2
  <1>5. /\ slot' \in [Medium -> {"none", "keyed", "cleared"}]
        /\ \A m \in Medium : slot'[m] # slot[m] =>
             slot'[m] = "cleared" /\ (m \in objects => m \in late)
    BY <1>1, <1>4 DEF MediaInv, MediaTypeOK
  <1>6. /\ done' \in [Request -> Nat]
        /\ \A q \in Request : done'[q] # done[q] /\ q \notin Export => Remaining(q) \subseteq late
    BY <1>1, <1>3 DEF IInv, RequestsTypeOK
  <1>7. "none" \in Stage
    BY DEF Stage
  <1>. QED BY <1>1, <1>2, <1>5, <1>6, <1>7, ForgetKeepsMedia

LEMMA FailKeepsMedia ==
  ASSUME IInv, MediaInv, NEW w \in Worker, NEW r \in Request, Fail(w, r)
  PROVE  MediaInv'
  <1>1. PICK s \in {"failed", "rejected"} : Moved(w, r, s)
    BY Zenon DEF Fail
  <1>2. s \in Stage /\ s \notin {"acted", "erasing"} /\ Busy(w, r)
    BY DEF Fail, Stage, Busy
  <1>3. UNCHANGED <<slot, retiring, done>> /\ Forget(w)
    BY DEF Fail
  <1>4. UNCHANGED <<objects, late>> \/ \E m \in Medium : Deleted(m)
    <2>1. left[w] \subseteq Medium
      BY DEF MediaInv, MediaTypeOK
    <2>. QED BY <2>1, Zenon DEF Fail
  <1>5. slot \in [Medium -> {"none", "keyed", "cleared"}] /\ done \in [Request -> Nat]
    BY DEF MediaInv, MediaTypeOK, IInv, RequestsTypeOK
  <1>. QED BY <1>1, <1>2, <1>3, <1>4, <1>5, ForgetKeepsMedia

(* A worker that ends forgets what it had read.                            *)
LEMMA EndKeepsMedia ==
  ASSUME IInv, MediaInv, NEW w \in Worker, job' = [job EXCEPT ![w] = NoJob],
         found' = [found EXCEPT ![w] = {}],
         left' = [left EXCEPT ![w] = {}] \/ left' = left,
         UNCHANGED <<slot, objects, retiring, late, done>>
  PROVE  MediaInv'
  <1>1. \A v \in Worker, q \in Request :
          job'[v][q] = IF v = w THEN "none" ELSE job[v][q]
    BY DEF IInv, RequestsTypeOK, NoJob
  <1>2. /\ found'[w] = {} /\ found' \in [Worker -> SUBSET Medium]
        /\ left' \in [Worker -> SUBSET Medium]
        /\ \A v \in Worker : v # w => found'[v] = found[v] /\ left'[v] = left[v]
    BY DEF MediaInv, MediaTypeOK
  <1>3. \A v \in Worker : v # w => Clearing(v)'
    BY <1>1, <1>2, ClearingFrame DEF MediaInv
  <1>4. Clearing(w)'
    BY <1>1, <1>2 DEF Clearing, Single, Busy
  <1>5. MediaTypeOK'
    BY <1>2 DEF MediaInv, MediaTypeOK
  <1>6. \A m \in Medium : Kept(m)'
    BY DEF MediaInv, Kept
  <1>7. \A q \in Request : Thorough(q)'
    BY DEF MediaInv, Thorough, Remaining, MediaOf
  <1>. QED BY <1>3, <1>4, <1>5, <1>6, <1>7 DEF MediaInv

LEMMA RecordKeepsMedia ==
  ASSUME IInv, MediaInv, NEW w \in Worker, NEW r \in Request, RecordFailure(w, r)
  PROVE  MediaInv'
  <1>1. job[w][r] \in {"retry", "reject"} /\ UNCHANGED <<mediaVars, done>>
    BY DEF RecordFailure
  <1>2. /\ \A q \in Request : q # r => ~Busy(w, q)
        /\ found[w] = {}
    BY <1>1 DEF MediaInv, Clearing, Single, Busy
  <1>3. CASE Moved(w, r, "none")
    <2>1. "none" \in Stage
      BY DEF Stage
    <2>. QED BY <1>1, <1>2, <1>3, <2>1, StageKeepsMedia
  <1>4. CASE RecordRefused(w, r)
    <2>1. job' = [job EXCEPT ![w] = NoJob]
      BY <1>4 DEF RecordRefused
    <2>2. found' = [found EXCEPT ![w] = {}] /\ left' = left
      BY <1>1, <1>2 DEF MediaInv, MediaTypeOK, mediaVars
    <2>3. UNCHANGED <<slot, objects, retiring, late, done>>
      BY <1>1 DEF mediaVars
    <2>. QED BY <2>1, <2>2, <2>3, EndKeepsMedia
  <1>. QED BY <1>3, <1>4 DEF RecordFailure, RecordGivenUp, RecordRetry

LEMMA StepKeepsMedia ==
  ASSUME IInv, MediaInv, NEW w \in Worker, Step(w)
  PROVE  MediaInv'
  <1>1. CASE \E m \in Medium : RemoveMedia(w, m)
    BY <1>1, RemoveKeepsMedia
  <1>2. ASSUME NEW r \in Request, Begin(w, r) PROVE MediaInv'
    <2>1. /\ job[w][r] = "queued" /\ \A q \in Request : ~Busy(w, q)
          /\ UNCHANGED <<mediaVars, done>>
      BY <1>2 DEF Begin, Busy
    <2>2. PICK s \in {"working", "none"} : Moved(w, r, s)
      BY <1>2 DEF Begin
    <2>3. s \in Stage
      BY DEF Stage
    <2>. QED BY <2>1, <2>2, <2>3, StageKeepsMedia
  <1>3. ASSUME NEW r \in Request, WriteArchive(w, r) PROVE MediaInv'
    <2>1. /\ job[w][r] = "working" /\ r \in Export /\ Moved(w, r, "acted")
          /\ UNCHANGED <<mediaVars, done>> /\ "acted" \in Stage
      BY <1>3 DEF WriteArchive, Stage
    <2>2. \A q \in Request : q # r => ~Busy(w, q)
      BY <2>1 DEF MediaInv, Clearing, Single, Busy
    <2>. QED BY <2>1, <2>2, StageKeepsMedia
  <1>4. ASSUME NEW r \in Request, Cleanup(w, r) PROVE MediaInv'
    <2>1. job[w][r] \in {"failed", "rejected"} /\ UNCHANGED <<mediaVars, done>>
      BY <1>4 DEF Cleanup
    <2>2. \A q \in Request : q # r => ~Busy(w, q)
      BY <2>1 DEF MediaInv, Clearing, Single, Busy
    <2>3. PICK s \in {"retry", "reject"} : Moved(w, r, s)
      BY <1>4 DEF Cleanup, AfterCleanup
    <2>4. s \in Stage
      BY DEF Stage
    <2>. QED BY <2>1, <2>2, <2>3, <2>4, StageKeepsMedia
  <1>. QED
    BY <1>1, <1>2, <1>3, <1>4, SelectKeepsMedia, CompleteKeepsMedia, FailKeepsMedia,
       RecordKeepsMedia DEF Step

(* An object put where an erasure or a deletion has passed is late.        *)
LEMMA PutKeepsMedia ==
  ASSUME MediaInv, NEW m \in Medium, PutObject(m)
  PROVE  MediaInv'
  <1>1. /\ slot[m] # "none" /\ objects' = objects \cup {m}
        /\ late \subseteq late' /\ late' \subseteq late \cup {m}
        /\ Passed(m) \/ m \in retiring \/ slot[m] = "cleared" => m \in late'
        /\ UNCHANGED <<job, slot, retiring, found, left, done>>
    BY DEF PutObject
  <1>2. MediaTypeOK'
    BY <1>1 DEF MediaInv, MediaTypeOK
  <1>3. \A n \in Medium : Kept(n)'
    BY <1>1 DEF MediaInv, Kept
  <1>4. \A r \in Request : /\ Remaining(r)' \subseteq Remaining(r) \cup {m}
                           /\ m \in Remaining(r)' => m \in MediaOf(r)
                           /\ MediaOf(r)' = MediaOf(r)
    BY <1>1 DEF Remaining, MediaOf
  <1>5. ASSUME NEW v \in Worker PROVE Clearing(v)'
    <2>1. Clearing(v)
      BY DEF MediaInv
    <2>2. ASSUME NEW r \in Request, job[v][r] = "erasing"
          PROVE  Remaining(r)' \ left[v] \subseteq late'
      <3>1. m \in MediaOf(r) /\ m \notin left[v] => m \in late'
        BY <1>1, <2>2 DEF Passed
      <3>2. Remaining(r) \ left[v] \subseteq late
        BY <2>1, <2>2 DEF Clearing
      <3>. QED BY <1>1, <1>4, <3>1, <3>2
    <2>. QED BY <1>1, <1>4, <2>1, <2>2 DEF Clearing, Single, Busy
  <1>6. ASSUME NEW r \in Request PROVE Thorough(r)'
    <2>1. m \in MediaOf(r) /\ done[r] > 0 => m \in late'
      BY <1>1 DEF Passed
    <2>. QED BY <1>1, <1>4, <2>1 DEF MediaInv, Thorough
  <1>. QED BY <1>2, <1>3, <1>5, <1>6 DEF MediaInv

LEMMA UploadKeepsMedia ==
  ASSUME MediaInv, NEW m \in Medium, CreateUpload(m) \/ EndDelete(m)
  PROVE  MediaInv'
  <1>1. /\ UNCHANGED <<job, objects, found, left, late, done>>
        /\ retiring' \subseteq retiring
        /\ slot' \in [Medium -> {"none", "keyed", "cleared"}]
        /\ \A n \in Medium : \/ slot'[n] = slot[n]
                             \/ slot[n] = "none" /\ slot'[n] = "keyed"
                             \/ n \in retiring /\ slot'[n] = "cleared"
    BY DEF CreateUpload, EndDelete, MediaInv, MediaTypeOK
  <1>2. MediaTypeOK'
    BY <1>1 DEF MediaInv, MediaTypeOK
  <1>3. \A n \in Medium : Kept(n)'
    BY <1>1 DEF MediaInv, Kept
  <1>4. \A v \in Worker : Clearing(v)'
    BY <1>1, ClearingFrame DEF MediaInv
  <1>5. \A r \in Request : Thorough(r)'
    BY <1>1 DEF MediaInv, Thorough, Remaining, MediaOf
  <1>. QED BY <1>2, <1>3, <1>4, <1>5 DEF MediaInv

LEMMA MediaInvariance == Spec => []MediaInv
  <1>1. Init => MediaInv
    <2> SUFFICES ASSUME Init PROVE MediaInv
      OBVIOUS
    <2>1. \A w \in Worker, r \in Request : job[w][r] = "none" /\ found[w] = {} /\ done[r] = 0
      BY DEF Init, NoJob
    <2>. QED
      BY <2>1 DEF Init, MediaInv, MediaTypeOK, Kept, Clearing, Single, Busy, Thorough
  <1>2. IInv /\ MediaInv /\ [Next]_vars => MediaInv'
    <2> SUFFICES ASSUME IInv, MediaInv, [Next]_vars PROVE MediaInv'
      OBVIOUS
    <2>1. ASSUME NEW r \in Request,
                 Create(r) \/ CancelRead(r) \/ CancelWrite(r) \/ Expire(r) \/ PurgeDelete(r)
          PROVE  MediaInv'
      BY <2>1, JobsFrame DEF Create, CancelRead, CancelWrite, Expire, PurgeDelete
    <2>2. CASE UNCHANGED vars \/ PurgeEnd \/ Tick
      BY <2>2, JobsFrame DEF vars, PurgeEnd, Tick
    <2>3. ASSUME NEW w \in Worker, Crash(w) PROVE MediaInv'
      BY <2>3, EndKeepsMedia DEF Crash, Forget
    <2>. QED
      BY <2>1, <2>2, <2>3, ClaimKeepsMedia, StepKeepsMedia, PutKeepsMedia, UploadKeepsMedia,
         DeleteEvidenceKeepsMedia DEF Next
  <1>. QED BY <1>1, <1>2, Invariance, PTL DEF Spec

-----------------------------------------------------------------------------
(* Every reachable state has its types.                                    *)
THEOREM TypeCorrect == Spec => []TypeOK
  <1>1. IInv /\ MediaInv => TypeOK
    BY DEF IInv, MediaInv, TypeOK
  <1>. QED BY <1>1, Invariance, MediaInvariance, PTL

(* A person has one active request of a kind at most.                      *)
THEOREM ActiveIsUnique == Spec => []OneActive
  <1>1. IInv => OneActive
    BY DEF IInv
  <1>. QED BY <1>1, Invariance, PTL

(* The lease excludes as long as a request is not disturbed.               *)
THEOREM LeaseExclusion == Spec => []LeaseExcludes
  <1>1. IInv => LeaseExcludes
    BY DEF IInv, Sound, LeaseExcludes, Held, HeldByAny
  <1>. QED BY <1>1, Invariance, PTL

(* No archive is missing, and none is left that the purge would not find.  *)
THEOREM ArchivesAreAccountedFor == Spec => []ArchivesAccountedFor
  <1>1. IInv => ArchivesAccountedFor
    BY PrivacyAssumption DEF IInv, Sound, ArchivesAccountedFor, Downloadable
  <1>. QED BY <1>1, Invariance, PTL

(* Of the media of a person, a committed erasure has left none but what    *)
(* was put late, whatever uploads and other deletions cross it.            *)
THEOREM ErasureIsThorough == Spec => []OnlyLateMediaRemain
  <1>1. MediaInv => OnlyLateMediaRemain
    BY DEF MediaInv, Thorough, Remaining, OnlyLateMediaRemain
  <1>. QED BY <1>1, MediaInvariance, PTL

(* Attempts beyond the limit are paid for by lost claims.                  *)
THEOREM AttemptLimit == Spec => []AttemptsBounded
  <1>1. IInv => AttemptsBounded
    BY DEF IInv, Accounted, AttemptsBounded
  <1>. QED BY <1>1, Invariance, PTL

(* An outcome the user was told is final, unless the request is disturbed. *)
THEOREM OutcomesAreFinal == Spec => OutcomeIsFinal
  <1>1. IInv /\ [Next]_vars =>
          [\A r \in Request \ disturbed' :
             row[r].status \in Final => row'[r].status = row[r].status /\ done'[r] = done[r]]_vars
    <2> SUFFICES ASSUME IInv, Next, NEW r \in Request, r \notin disturbed', row[r].status \in Final
                 PROVE  row'[r].status = row[r].status /\ done'[r] = done[r]
      OBVIOUS
    <2>1. row \in [Request -> Row] /\ done \in [Request -> Nat]
      BY DEF IInv, RequestsTypeOK
    <2>2. ASSUME disturbed \subseteq disturbed', NEW w \in Worker PROVE job[w][r] = "none"
      BY <2>2 DEF IInv, Sound, Final
    <2>3. ASSUME NEW q \in Request,
                 Create(q) \/ CancelRead(q) \/ CancelWrite(q) \/ Expire(q) \/ PurgeDelete(q)
          PROVE  row'[r].status = row[r].status /\ done'[r] = done[r]
      BY <2>1, <2>3 DEF Create, CancelRead, CancelWrite, Expire, PurgeDelete, Row, Final, Active
    <2>4. ASSUME NEW w \in Worker, Claim(w)
          PROVE  row'[r].status = row[r].status /\ done'[r] = done[r]
      BY <2>1, <2>4 DEF Claim, Due, Final, Active
    <2>5. ASSUME NEW w \in Worker, Crash(w)
          PROVE  row'[r].status = row[r].status /\ done'[r] = done[r]
      BY <2>5 DEF Crash
    <2>6. ASSUME NEW w \in Worker, Step(w)
          PROVE  row'[r].status = row[r].status /\ done'[r] = done[r]
      <3>1. CASE \E m \in Medium : RemoveMedia(w, m)
        BY <3>1 DEF RemoveMedia
      <3>2. ASSUME NEW q \in Request,
                   \/ Begin(w, q) \/ WriteArchive(w, q) \/ SelectMedia(w, q)
                   \/ Fail(w, q) \/ Cleanup(w, q)
            PROVE  row'[r].status = row[r].status /\ done'[r] = done[r]
        BY <3>2 DEF Begin, WriteArchive, SelectMedia, Fail, Cleanup
      <3>3. ASSUME NEW q \in Request, Complete(w, q)
            PROVE  row'[r].status = row[r].status /\ done'[r] = done[r]
        <4>1. q # r
          BY <2>2, <3>3 DEF Complete
        <4>. QED BY <2>1, <3>3, <4>1 DEF Complete
      <3>4. ASSUME NEW q \in Request, RecordFailure(w, q)
            PROVE  row'[r].status = row[r].status /\ done'[r] = done[r]
        <4>1. q # r
          BY <2>2, <3>4 DEF RecordFailure, RecordGivenUp, RecordRetry, RecordRefused
        <4>. QED
          BY <2>1, <3>4, <4>1 DEF RecordFailure, RecordGivenUp, RecordRetry, RecordRefused
      <3>. QED BY <2>6, <3>1, <3>2, <3>3, <3>4 DEF Step
    <2>7. ASSUME NEW m \in Medium,
                 CreateUpload(m) \/ PutObject(m) \/ DeleteEvidence(m) \/ EndDelete(m)
          PROVE  row'[r].status = row[r].status /\ done'[r] = done[r]
      BY <2>7 DEF CreateUpload, PutObject, DeleteEvidence, EndDelete
    <2>8. ASSUME PurgeEnd \/ Tick
          PROVE  row'[r].status = row[r].status /\ done'[r] = done[r]
      BY <2>1, <2>8 DEF PurgeEnd, Tick, Row
    <2>. QED BY <2>3, <2>4, <2>5, <2>6, <2>7, <2>8 DEF Next
  <1>. QED BY <1>1, Invariance, PTL DEF Spec, OutcomeIsFinal
==============================================================================
