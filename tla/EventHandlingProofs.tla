-------------------------- MODULE EventHandlingProofs --------------------------
(***************************************************************************)
(* Proofs about event handling, for any events, members, media, endpoints, *)
(* requests under way and bounds.                                          *)
(*                                                                         *)
(* Coaching, evidence and webhooks write different tables and share the    *)
(* processes, so the inductive invariant has a part for each of them, and  *)
(* a step of one keeps the parts of the others because it leaves their     *)
(* requests alone (Spares).                                                *)
(***************************************************************************)
EXTENDS EventHandling, FiniteSetTheorems, SequenceTheorems, TLAPS

CreateCall == [op : {"create"}, event : Event \cup {None}, assignee : User \cup {None},
               by : User, stale : BOOLEAN]

ReviewCall == [op : {"review"}, event : Event, assignee : User \cup {None},
               by : User, reuse : BOOLEAN, stale : BOOLEAN]

UpdateCall == [op : {"update"}, row : Nat, assignee : User \cup {None}, by : User,
               seen : User \cup {None}, stale : BOOLEAN]

TransitionCall == [op : {"transition"}, row : Nat, target : Status, by : User,
                   seen : User \cup {None}, stale : BOOLEAN]

CoachingCalls == CreateCall \cup ReviewCall \cup UpdateCall \cup TransitionCall

CompleteCall == [op : {"complete"}, row : Media, verdict : {"available", "rejected"}]

RemoveCall == [op : {"remove"}, rows : SUBSET Media, keys : SUBSET Media,
               gone : SUBSET Media]

EvidenceCalls == CompleteCall \cup RemoveCall

DeleteCall == [op : {"delete_webhook"}, row : Endpoint]

(* What a batch has of each delivery it has claimed.                        *)
Results == UNION {[D -> Outcome \cup {"unsent"}] : D \in SUBSET Nat}

DeliverCall == [op : {"deliver"}, result : Results]

WebhookCalls == DeleteCall \cup DeliverCall

CallsOK ==
  /\ call = [p \in Process |-> call[p]]
  /\ \A p \in Process :
       call[p] \in {Idle} \cup CoachingCalls \cup EvidenceCalls \cup WebhookCalls

(* A step that only touches requests of the set own, and idle processes.    *)
Spares(own) ==
  \A q \in Process :
    \/ call'[q] = call[q]
    \/ call[q] \in {Idle} \cup own /\ call'[q] \in {Idle} \cup own

LEMMA CallOf ==
  ASSUME CallsOK, NEW p \in Process
  PROVE  /\ call[p].op = "idle" => call[p] = Idle
         /\ call[p].op = "create" => call[p] \in CreateCall
         /\ call[p].op = "review" => call[p] \in ReviewCall
         /\ call[p].op = "update" => call[p] \in UpdateCall
         /\ call[p].op = "transition" => call[p] \in TransitionCall
         /\ call[p].op = "complete" => call[p] \in CompleteCall
         /\ call[p].op = "remove" => call[p] \in RemoveCall
         /\ call[p].op = "delete_webhook" => call[p] \in DeleteCall
         /\ call[p].op = "deliver" => call[p] \in DeliverCall
  BY DEF CallsOK, Idle, CoachingCalls, EvidenceCalls, WebhookCalls, CreateCall, ReviewCall,
     UpdateCall, TransitionCall, CompleteCall, RemoveCall, DeleteCall, DeliverCall

LEMMA OpOf ==
  /\ Idle.op = "idle"
  /\ \A c \in CoachingCalls : c.op \in {"create", "review", "update", "transition"}
  /\ \A c \in EvidenceCalls : c.op \in {"complete", "remove"}
  /\ \A c \in WebhookCalls : c.op \in {"delete_webhook", "deliver"}
  BY DEF Idle, CoachingCalls, EvidenceCalls, WebhookCalls, CreateCall, ReviewCall,
     UpdateCall, TransitionCall, CompleteCall, RemoveCall, DeleteCall, DeliverCall

(* One process moves on.                                                    *)
LEMMA Moved1 ==
  ASSUME CallsOK, NEW p \in Process, NEW c, call' = [call EXCEPT ![p] = c],
         NEW own, call[p] \in {Idle} \cup own, c \in {Idle} \cup own,
         own \subseteq CoachingCalls \cup EvidenceCalls \cup WebhookCalls
  PROVE  /\ CallsOK' /\ Spares(own)
         /\ call'[p] = c /\ \A q \in Process : q # p => call'[q] = call[q]
  BY DEF CallsOK, Spares

LEMMA NoneMoved ==
  ASSUME CallsOK, UNCHANGED call, NEW own
  PROVE  CallsOK' /\ Spares(own)
  BY DEF CallsOK, Spares

-----------------------------------------------------------------------------
(* Evidence.  Nothing is left of an object that is under deletion; a        *)
(* completion about to make a medium available has found its object good;   *)
(* and a removal has the keys of all that it removes but what has none.     *)
EvidenceCall(c) ==
  /\ c.op = "complete" =>
       /\ media[c.row].status # "none"
       /\ c.verdict = "available" /\ c.row \notin disturbed
            /\ media[c.row].status = "pending_upload" /\ UnderDeletion(c.row) = {}
            => object[c.row] = "good"
  /\ c.op = "remove" =>
       /\ c.gone \subseteq c.keys /\ c.keys \subseteq c.rows
       /\ \A m \in c.rows : media[m].status # "none"
       /\ \A m \in c.rows \ c.keys : /\ media[m].status # "pending_upload"
                                     /\ m \notin disturbed => object[m] = "none"

EvidenceOK ==
  /\ EvidenceTypeOK
  /\ MediaMatchesRow
  /\ \A m \in Media : media[m].status = "pending_upload" => media[m].key
  /\ \A m \in Media \ disturbed : UnderDeletion(m) # {} => object[m] = "none"
  /\ \A p \in Process : EvidenceCall(call[p])

(* Who is deleting an object, as the requests have it.                      *)
Deletes(c, m) ==
  \/ c.op = "remove" /\ m \in c.keys /\ m \in c.gone
  \/ c.op = "complete" /\ c.row = m /\ c.verdict = "rejected"

LEMMA DeletesIt ==
  ASSUME NEW m
  PROVE  /\ UnderDeletion(m) = {} <=> \A p \in Process : ~Deletes(call[p], m)
         /\ (UnderDeletion(m) = {})' <=> \A p \in Process : ~Deletes(call'[p], m)
  BY DEF UnderDeletion, Deletes, Inspecting, Removing, Doing

LEMMA EvidenceFrame ==
  ASSUME CallsOK, EvidenceOK, NEW own, Spares(own), UNCHANGED evidenceVars,
         own \cap EvidenceCalls = {},
         own \subseteq CoachingCalls \cup EvidenceCalls \cup WebhookCalls
  PROVE  EvidenceOK'
  <1>1. \A q \in Process :
          \/ call'[q] = call[q]
          \/ call[q].op \notin {"complete", "remove"} /\ call'[q].op \notin {"complete", "remove"}
    BY OpOf DEF Spares
  <1>2. \A m : (UnderDeletion(m) = {})' <=> UnderDeletion(m) = {}
    BY <1>1, DeletesIt DEF Deletes
  <1>3. \A q \in Process : EvidenceCall(call[q])'
    BY <1>1, <1>2 DEF EvidenceOK, EvidenceCall, evidenceVars
  <1>. QED BY <1>2, <1>3 DEF EvidenceOK, EvidenceTypeOK, MediaMatchesRow, Accessible, Stored,
         evidenceVars

(* What is said of one medium.                                              *)
MediumOK(m) ==
  /\ media[m].status = "pending_upload" => media[m].key
  /\ m \notin disturbed /\ UnderDeletion(m) # {} => object[m] = "none"
  /\ m \notin disturbed /\ UnderDeletion(m) = {} =>
       /\ media[m].status = "available" => media[m].key /\ object[m] = "good"
       /\ media[m].status \in {"rejected", "deleted"} => object[m] = "none"
       /\ media[m].status = "deleted" => ~media[m].key

LEMMA EvidenceParts ==
  /\ EvidenceOK <=> /\ EvidenceTypeOK
                    /\ \A m \in Media : MediumOK(m)
                    /\ \A p \in Process : EvidenceCall(call[p])
  /\ EvidenceOK' <=> /\ EvidenceTypeOK'
                     /\ \A m \in Media : MediumOK(m)'
                     /\ \A p \in Process : EvidenceCall(call[p])'
  BY DEF EvidenceOK, MediumOK, MediaMatchesRow, Accessible, Stored

LEMMA CreateUploadKeeps ==
  ASSUME CallsOK, EvidenceOK, NEW m \in Media, CreateUpload(m)
  PROVE  CallsOK' /\ Spares(EvidenceCalls) /\ EvidenceOK'
  <1>1. UNCHANGED call /\ media[m].status = "none" /\ UNCHANGED <<object, disturbed>>
    BY DEF CreateUpload, AtOnce
  <1>2. EvidenceTypeOK'
    BY EvidenceParts DEF CreateUpload, EvidenceTypeOK, MediaRow
  <1>3. /\ media'[m].status = "pending_upload" /\ media'[m].key
        /\ \A k \in Media : k # m => media'[k] = media[k]
    BY EvidenceParts DEF CreateUpload, EvidenceTypeOK
  <1>4. \A k : (UnderDeletion(k) = {})' <=> UnderDeletion(k) = {}
    BY <1>1, DeletesIt
  <1>5. ASSUME NEW k \in Media
        PROVE  MediumOK(k)'
    BY <1>1, <1>3, <1>4, EvidenceParts DEF MediumOK
  <1>6. ASSUME NEW q \in Process
        PROVE  EvidenceCall(call[q])'
    <2>1. EvidenceCall(call[q]) BY EvidenceParts
    <2>2. call[q].op = "complete" => call[q].row \in Media BY CallOf DEF CompleteCall
    <2>3. call[q].op = "remove" => call[q].rows \subseteq Media BY CallOf DEF RemoveCall
    <2>. QED BY <1>1, <1>3, <1>4, <2>1, <2>2, <2>3 DEF EvidenceCall
  <1>. QED BY <1>1, <1>2, <1>5, <1>6, EvidenceParts, NoneMoved

LEMMA PutObjectKeeps ==
  ASSUME CallsOK, EvidenceOK, NEW m \in Media, NEW o \in {"good", "bad"}, PutObject(m, o)
  PROVE  CallsOK' /\ Spares(EvidenceCalls) /\ EvidenceOK'
  <1>1. UNCHANGED <<call, media>> /\ disturbed \subseteq disturbed'
    BY DEF PutObject, requestVars
  <1>2. EvidenceTypeOK'
    BY EvidenceParts DEF PutObject, EvidenceTypeOK
  <1>3. \A k \in Media : k # m => object'[k] = object[k]
    BY EvidenceParts DEF PutObject, EvidenceTypeOK
  <1>4. \A k : (UnderDeletion(k) = {})' <=> UnderDeletion(k) = {}
    BY <1>1, DeletesIt
  <1>5. \/ m \in disturbed'
        \/ /\ media[m].status = "pending_upload"
           /\ \A q \in Process : /\ call[q].op = "complete" => call[q].row # m
                                 /\ call[q].op = "remove" => m \notin call[q].keys
    BY DEF PutObject, Inspecting, Removing, Doing
  <1>6. ASSUME NEW k \in Media
        PROVE  MediumOK(k)'
    <2>1. m \in disturbed' \/ UnderDeletion(m) = {}
      BY <1>5, DeletesIt DEF Deletes
    <2>. QED BY <1>1, <1>3, <1>4, <1>5, <2>1, EvidenceParts DEF MediumOK
  <1>7. ASSUME NEW q \in Process
        PROVE  EvidenceCall(call[q])'
    <2>1. EvidenceCall(call[q]) BY EvidenceParts
    <2>2. call[q].op = "complete" => call[q].row \in Media BY CallOf DEF CompleteCall
    <2>3. call[q].op = "remove" => call[q].rows \subseteq Media BY CallOf DEF RemoveCall
    <2>. QED BY <1>1, <1>3, <1>4, <1>5, <2>1, <2>2, <2>3 DEF EvidenceCall
  <1>. QED BY <1>1, <1>2, <1>6, <1>7, EvidenceParts, NoneMoved

LEMMA UrlExpiresKeeps ==
  ASSUME CallsOK, EvidenceOK, NEW m \in Media, UrlExpires(m)
  PROVE  CallsOK' /\ Spares(EvidenceCalls) /\ EvidenceOK'
  <1>1. UNCHANGED <<call, media, object, disturbed>>
    BY DEF UrlExpires, requestVars
  <1>2. EvidenceTypeOK'
    BY EvidenceParts DEF UrlExpires, EvidenceTypeOK
  <1>3. \A k : (UnderDeletion(k) = {})' <=> UnderDeletion(k) = {}
    BY <1>1, DeletesIt
  <1>4. \A k \in Media : MediumOK(k)'
    BY <1>1, <1>3, EvidenceParts DEF MediumOK
  <1>5. \A q \in Process : EvidenceCall(call[q])'
    BY <1>1, <1>3, EvidenceParts DEF EvidenceCall
  <1>. QED BY <1>1, <1>2, <1>4, <1>5, EvidenceParts, NoneMoved

(* A step of one request on evidence leaves the others' calls as they were: *)
(* what has to be shown of them is that the tables still fit.               *)
LEMMA EvidenceMoved ==
  ASSUME CallsOK, NEW p \in Process, NEW c, call' = [call EXCEPT ![p] = c],
         call[p] \in {Idle} \cup EvidenceCalls, c \in {Idle} \cup EvidenceCalls
  PROVE  /\ CallsOK' /\ Spares(EvidenceCalls)
         /\ call'[p] = c /\ \A q \in Process : q # p => call'[q] = call[q]
         /\ \A m : (UnderDeletion(m) = {})' <=>
                     /\ ~Deletes(c, m)
                     /\ \A q \in Process \ {p} : ~Deletes(call[q], m)
         /\ \A m : UnderDeletion(m) = {} <=>
                     /\ ~Deletes(call[p], m)
                     /\ \A q \in Process \ {p} : ~Deletes(call[q], m)
  <1>1. /\ CallsOK' /\ Spares(EvidenceCalls)
        /\ call'[p] = c /\ \A q \in Process : q # p => call'[q] = call[q]
    BY Moved1
  <1>. QED BY <1>1, DeletesIt

LEMMA CompleteUploadKeeps ==
  ASSUME CallsOK, EvidenceOK, NEW p \in Process, NEW m \in Media, CompleteUpload(p, m)
  PROVE  CallsOK' /\ Spares(EvidenceCalls) /\ EvidenceOK'
  <1> DEFINE c == [op |-> "complete", row |-> m,
                   verdict |-> IF object[m] = "good" THEN "available" ELSE "rejected"]
  <1>1. /\ call[p] = Idle /\ call' = [call EXCEPT ![p] = c] /\ UNCHANGED <<media, disturbed>>
        /\ media[m].status = "pending_upload" /\ media[m].key
        /\ object[m] # "none"
    BY DEF CompleteUpload, Begin, Stored
  <1>2. /\ c.op = "complete" /\ c.row = m /\ c.verdict \in {"available", "rejected"}
        /\ c.verdict = "available" <=> object[m] = "good"
        /\ c \in CompleteCall
    BY DEF CompleteCall
  <1> HIDE DEF c
  <1>3. EvidenceTypeOK
    BY EvidenceParts
  <1>4. /\ \A k \in Media : k # m => object'[k] = object[k]
        /\ object[m] = "good" => object'[m] = "good"
        /\ object[m] = "bad" => object'[m] = "none"
        /\ EvidenceTypeOK'
    BY <1>3 DEF CompleteUpload, EvidenceTypeOK, Deleted
  <1>5. object[m] \in {"good", "bad"}
    BY <1>1, <1>3 DEF EvidenceTypeOK
  <1>6. /\ CallsOK' /\ Spares(EvidenceCalls)
        /\ call'[p] = c /\ \A q \in Process : q # p => call'[q] = call[q]
        /\ \A k : (UnderDeletion(k) = {})' <=>
                    ~Deletes(c, k) /\ \A q \in Process \ {p} : ~Deletes(call[q], k)
        /\ \A k : UnderDeletion(k) = {} <=>
                    ~Deletes(call[p], k) /\ \A q \in Process \ {p} : ~Deletes(call[q], k)
    BY <1>1, <1>2, EvidenceMoved DEF EvidenceCalls
  <1>7. /\ \A k : ~Deletes(call[p], k)
        /\ \A k : Deletes(c, k) <=> k = m /\ object[m] = "bad"
    BY <1>1, <1>2, <1>5 DEF Deletes, Idle
  <1>8. ASSUME NEW k \in Media
        PROVE  MediumOK(k)'
    <2>1. MediumOK(k) BY EvidenceParts
    <2>2. CASE k # m BY <1>1, <1>4, <1>6, <1>7, <2>1, <2>2 DEF MediumOK
    <2>3. CASE k = m BY <1>1, <1>4, <1>5, <1>6, <1>7, <2>1, <2>3 DEF MediumOK
    <2>. QED BY <2>2, <2>3
  <1>9. ASSUME NEW q \in Process
        PROVE  EvidenceCall(call[q])'
    <2>1. CASE q = p
      BY <1>1, <1>2, <1>4, <1>6, <2>1 DEF EvidenceCall
    <2>2. CASE q # p
      <3>1. EvidenceCall(call[q]) BY EvidenceParts
      <3>2. call'[q] = call[q] BY <1>6, <2>2
      <3>3. ASSUME call[q].op = "complete"
            PROVE  EvidenceCall(call[q])'
        <4>1. call[q].row \in Media BY <3>3, CallOf DEF CompleteCall
        <4>2. \A k : (UnderDeletion(k) = {})' => UnderDeletion(k) = {}
          BY <1>6, <1>7
        <4>3. MediumOK(m) BY EvidenceParts
        <4>4. CASE call[q].row # m
          BY <1>1, <1>4, <3>1, <3>2, <3>3, <4>1, <4>2, <4>4 DEF EvidenceCall
        <4>5. CASE call[q].row = m
          BY <1>1, <1>4, <1>5, <1>6, <1>7, <3>1, <3>2, <3>3, <4>2, <4>5 DEF EvidenceCall
        <4>. QED BY <4>4, <4>5
      <3>4. ASSUME call[q].op = "remove"
            PROVE  EvidenceCall(call[q])'
        <4>1. call[q].rows \subseteq Media BY <3>4, CallOf DEF RemoveCall
        <4>. QED BY <1>1, <1>4, <3>1, <3>2, <3>4, <4>1 DEF EvidenceCall
      <3>. QED BY <3>2, <3>3, <3>4 DEF EvidenceCall
    <2>. QED BY <2>1, <2>2
  <1>. QED BY <1>4, <1>6, <1>8, <1>9, EvidenceParts

LEMMA CommitUploadKeeps ==
  ASSUME CallsOK, EvidenceOK, NEW p \in Process, CommitUpload(p)
  PROVE  CallsOK' /\ Spares(EvidenceCalls) /\ EvidenceOK'
  <1>1. call[p] \in CompleteCall
    BY CallOf DEF CommitUpload
  <1>2. PICK m \in Media : /\ m = call[p].row /\ call[p].op = "complete"
                           /\ call[p].verdict \in {"available", "rejected"}
    BY <1>1 DEF CompleteCall
  <1>3. /\ call' = [call EXCEPT ![p] = Idle] /\ UNCHANGED object
        /\ media' = [media EXCEPT ![m].status = call[p].verdict]
        /\ disturbed' = IF /\ call[p].verdict = "available"
                           /\ media[m].status # "pending_upload"
                          THEN disturbed \cup {m} ELSE disturbed
    BY <1>2 DEF CommitUpload, Return, Continue
  <1>4. EvidenceTypeOK /\ MediumOK(m) /\ EvidenceCall(call[p])
    BY <1>2, EvidenceParts
  <1>5. /\ EvidenceTypeOK'
        /\ media'[m].status = call[p].verdict /\ media'[m].key = media[m].key
        /\ \A k \in Media : k # m => media'[k] = media[k]
    <2>1. media[m] \in MediaRow /\ media \in [Media -> MediaRow] BY <1>2, <1>4 DEF EvidenceTypeOK
    <2>2. media' = [media EXCEPT ![m] = [media[m] EXCEPT !.status = call[p].verdict]]
      BY <1>2, <1>3, <2>1
    <2>3. PICK r : r = [media[m] EXCEPT !.status = call[p].verdict] OBVIOUS
    <2>4. r \in MediaRow /\ r.status = call[p].verdict /\ r.key = media[m].key
      BY <1>2, <2>1, <2>3 DEF MediaRow
    <2>5. media' = [media EXCEPT ![m] = r] BY <2>2, <2>3
    <2>. QED BY <1>2, <1>3, <1>4, <2>1, <2>4, <2>5 DEF EvidenceTypeOK, CommitUpload
  <1>6. /\ CallsOK' /\ Spares(EvidenceCalls)
        /\ call'[p] = Idle /\ \A q \in Process : q # p => call'[q] = call[q]
        /\ \A k : (UnderDeletion(k) = {})' <=>
                    ~Deletes(Idle, k) /\ \A q \in Process \ {p} : ~Deletes(call[q], k)
        /\ \A k : UnderDeletion(k) = {} <=>
                    ~Deletes(call[p], k) /\ \A q \in Process \ {p} : ~Deletes(call[q], k)
    BY <1>1, <1>3, EvidenceMoved DEF EvidenceCalls
  <1>7. /\ \A k : ~Deletes(Idle, k)
        /\ \A k : Deletes(call[p], k) <=> k = m /\ call[p].verdict = "rejected"
    BY <1>2 DEF Deletes, Idle
  <1>8. ASSUME NEW k \in Media
        PROVE  MediumOK(k)'
    <2>1. MediumOK(k) BY EvidenceParts
    <2>2. CASE k # m BY <1>3, <1>5, <1>6, <1>7, <2>1, <2>2 DEF MediumOK
    <2>3. CASE k = m /\ call[p].verdict = "available"
      <3>1. m \notin disturbed' => media[m].status = "pending_upload" /\ m \notin disturbed
        BY <1>3, <2>3
      <3>2. (UnderDeletion(m) = {})' <=> UnderDeletion(m) = {}
        BY <1>6, <1>7, <2>3
      <3>3. m \notin disturbed' /\ UnderDeletion(m) = {} => object[m] = "good" /\ media[m].key
        BY <1>2, <1>4, <2>3, <3>1 DEF EvidenceCall, MediumOK
      <3>. QED BY <1>3, <1>5, <2>1, <2>3, <3>1, <3>2, <3>3 DEF MediumOK
    <2>4. CASE k = m /\ call[p].verdict = "rejected"
      <3>1. UnderDeletion(m) # {} /\ disturbed' = disturbed
        BY <1>3, <1>6, <1>7, <2>4
      <3>2. m \notin disturbed => object[m] = "none"
        BY <2>1, <2>4, <3>1 DEF MediumOK
      <3>. QED BY <1>3, <1>5, <2>4, <3>1, <3>2 DEF MediumOK
    <2>. QED BY <1>2, <2>2, <2>3, <2>4
  <1>9. ASSUME NEW q \in Process
        PROVE  EvidenceCall(call[q])'
    <2>1. CASE q = p
      BY <1>6, <2>1 DEF EvidenceCall, Idle
    <2>2. CASE q # p
      <3>1. EvidenceCall(call[q]) BY EvidenceParts
      <3>2. call'[q] = call[q] BY <1>6, <2>2
      <3>3. /\ media[m].status # "none" /\ media'[m].status \notin {"none", "pending_upload"}
            /\ disturbed \subseteq disturbed'
        BY <1>2, <1>3, <1>4, <1>5 DEF EvidenceCall
      <3>4. ASSUME call[q].op = "complete"
            PROVE  EvidenceCall(call[q])'
        <4>1. call[q].row \in Media BY <3>4, CallOf DEF CompleteCall
        <4>2. \A k : k # m /\ (UnderDeletion(k) = {})' => UnderDeletion(k) = {}
          BY <1>6, <1>7
        <4>. QED BY <1>3, <1>5, <3>1, <3>2, <3>3, <3>4, <4>1, <4>2 DEF EvidenceCall
      <3>5. ASSUME call[q].op = "remove"
            PROVE  EvidenceCall(call[q])'
        <4>1. call[q].rows \subseteq Media BY <3>5, CallOf DEF RemoveCall
        <4>. QED BY <1>3, <1>5, <3>1, <3>2, <3>3, <3>5, <4>1 DEF EvidenceCall
      <3>. QED BY <3>2, <3>4, <3>5 DEF EvidenceCall
    <2>. QED BY <2>1, <2>2
  <1>. QED BY <1>5, <1>6, <1>8, <1>9, EvidenceParts

LEMMA RemoveKeeps ==
  ASSUME CallsOK, EvidenceOK, NEW p \in Process, NEW rows \in SUBSET Media, Remove(p, rows),
         \A m \in rows : media[m].status # "none"
  PROVE  CallsOK' /\ Spares(EvidenceCalls) /\ EvidenceOK'
  <1>1. PICK keys \in SUBSET Media : keys = {m \in rows : media[m].key}
    OBVIOUS
  <1> DEFINE c == [op |-> "remove", rows |-> rows, keys |-> keys, gone |-> {}]
  <1>2. call[p] = Idle /\ call' = [call EXCEPT ![p] = c] /\ UNCHANGED evidenceVars
    BY <1>1 DEF Remove, Begin
  <1>3. /\ c.op = "remove" /\ c.rows = rows /\ c.keys = keys /\ c.gone = {}
        /\ c \in RemoveCall
    BY DEF RemoveCall
  <1> HIDE DEF c
  <1>4. /\ CallsOK' /\ Spares(EvidenceCalls)
        /\ call'[p] = c /\ \A q \in Process : q # p => call'[q] = call[q]
        /\ \A k : (UnderDeletion(k) = {})' <=>
                    ~Deletes(c, k) /\ \A q \in Process \ {p} : ~Deletes(call[q], k)
        /\ \A k : UnderDeletion(k) = {} <=>
                    ~Deletes(call[p], k) /\ \A q \in Process \ {p} : ~Deletes(call[q], k)
    BY <1>2, <1>3, EvidenceMoved DEF EvidenceCalls
  <1>5. \A k : ~Deletes(c, k) /\ ~Deletes(call[p], k)
    BY <1>2, <1>3 DEF Deletes, Idle
  <1>6. \A k : (UnderDeletion(k) = {})' <=> UnderDeletion(k) = {}
    BY <1>4, <1>5
  <1>7. EvidenceTypeOK /\ EvidenceTypeOK'
    BY <1>2, EvidenceParts DEF EvidenceTypeOK, evidenceVars
  <1>8. \A k \in Media : MediumOK(k)'
    BY <1>2, <1>6, EvidenceParts DEF MediumOK, evidenceVars
  <1>9. ASSUME NEW q \in Process
        PROVE  EvidenceCall(call[q])'
    <2>1. CASE q # p
      BY <1>2, <1>4, <1>6, <2>1, EvidenceParts DEF EvidenceCall, evidenceVars
    <2>2. CASE q = p
      <3>1. ASSUME NEW k \in rows \ keys
            PROVE  media[k].status # "pending_upload" /\ (k \notin disturbed => object[k] = "none")
        <4>1. MediumOK(k) /\ ~media[k].key /\ media[k].status # "none"
          BY <1>1, EvidenceParts
        <4>2. media[k].status \in {"none", "pending_upload", "available", "rejected", "deleted"}
          BY <1>7 DEF EvidenceTypeOK, MediaRow
        <4>. QED BY <4>1, <4>2 DEF MediumOK
      <3>. QED BY <1>1, <1>2, <1>3, <1>4, <2>2, <3>1 DEF EvidenceCall, evidenceVars
    <2>. QED BY <2>1, <2>2
  <1>. QED BY <1>4, <1>7, <1>8, <1>9, EvidenceParts

LEMMA RemoveObjectKeeps ==
  ASSUME CallsOK, EvidenceOK, NEW p \in Process, NEW m \in Media, RemoveObject(p, m)
  PROVE  CallsOK' /\ Spares(EvidenceCalls) /\ EvidenceOK'
  <1>1. /\ call[p].op = "remove" /\ m \in call[p].keys \ call[p].gone
        /\ UNCHANGED <<media, disturbed>>
        /\ call' = [call EXCEPT ![p] = [call[p] EXCEPT !.gone = @ \cup {m}]]
    BY DEF RemoveObject, Continue
  <1>2. call[p] \in RemoveCall
    BY <1>1, CallOf
  <1>3. PICK c : c = [call[p] EXCEPT !.gone = call[p].gone \cup {m}]
    OBVIOUS
  <1>4. /\ c \in RemoveCall /\ c.op = "remove" /\ c.rows = call[p].rows
        /\ c.keys = call[p].keys /\ c.gone = call[p].gone \cup {m}
    BY <1>1, <1>2, <1>3 DEF RemoveCall
  <1>5. call' = [call EXCEPT ![p] = c]
    BY <1>1, <1>3
  <1>6. /\ EvidenceTypeOK' /\ object'[m] = "none"
        /\ \A k \in Media : k # m => object'[k] = object[k]
    BY EvidenceParts DEF RemoveObject, EvidenceTypeOK, Deleted
  <1>7. /\ CallsOK' /\ Spares(EvidenceCalls)
        /\ call'[p] = c /\ \A q \in Process : q # p => call'[q] = call[q]
        /\ \A k : (UnderDeletion(k) = {})' <=>
                    ~Deletes(c, k) /\ \A q \in Process \ {p} : ~Deletes(call[q], k)
        /\ \A k : UnderDeletion(k) = {} <=>
                    ~Deletes(call[p], k) /\ \A q \in Process \ {p} : ~Deletes(call[q], k)
    BY <1>2, <1>4, <1>5, EvidenceMoved DEF EvidenceCalls
  <1>8. /\ Deletes(c, m)
        /\ \A k : k # m => (Deletes(c, k) <=> Deletes(call[p], k))
    BY <1>1, <1>4 DEF Deletes
  <1>9. ~(UnderDeletion(m) = {})' /\ \A k : k # m => ((UnderDeletion(k) = {})' <=> UnderDeletion(k) = {})
    BY <1>7, <1>8
  <1>10. ASSUME NEW k \in Media
         PROVE  MediumOK(k)'
    BY <1>1, <1>6, <1>9, EvidenceParts DEF MediumOK
  <1>11. ASSUME NEW q \in Process
         PROVE  EvidenceCall(call[q])'
    <2>1. EvidenceCall(call[q]) BY EvidenceParts
    <2>2. CASE q = p
      <3>1. call[p].rows \subseteq Media /\ EvidenceCall(call[p])
        BY <1>2, <2>1, <2>2 DEF RemoveCall
      <3>. QED BY <1>1, <1>4, <1>6, <1>7, <2>2, <3>1 DEF EvidenceCall
    <2>3. CASE q # p
      <3>1. call'[q] = call[q] BY <1>7, <2>3
      <3>2. call[q].op = "complete" => call[q].row \in Media BY CallOf DEF CompleteCall
      <3>3. call[q].op = "remove" => call[q].rows \subseteq Media BY CallOf DEF RemoveCall
      <3>. QED BY <1>1, <1>6, <1>9, <2>1, <3>1, <3>2, <3>3 DEF EvidenceCall
    <2>. QED BY <2>2, <2>3
  <1>. QED BY <1>6, <1>7, <1>10, <1>11, EvidenceParts

LEMMA CommitRemovalKeeps ==
  ASSUME CallsOK, EvidenceOK, NEW p \in Process, CommitRemoval(p)
  PROVE  CallsOK' /\ Spares(EvidenceCalls) /\ EvidenceOK'
  <1>1. /\ call[p].op = "remove" /\ call[p].gone = call[p].keys
        /\ UNCHANGED <<object, disturbed>>
        /\ call' = [call EXCEPT ![p] = Idle]
    BY DEF CommitRemoval, Return, Continue
  <1>2. call[p] \in RemoveCall
    BY <1>1, CallOf
  <1>3. PICK rows \in SUBSET Media, keys \in SUBSET Media :
          rows = call[p].rows /\ keys = call[p].keys
    BY <1>2 DEF RemoveCall
  <1>4. EvidenceTypeOK /\ EvidenceCall(call[p])
    BY EvidenceParts
  <1>5. /\ EvidenceTypeOK'
        /\ \A k \in rows : media'[k].status = "deleted" /\ ~media'[k].key
        /\ \A k \in Media \ rows : media'[k] = media[k]
    <2>1. media' = [k \in Media |-> IF k \in rows THEN [status |-> "deleted", key |-> FALSE]
                                    ELSE media[k]]
      BY <1>3 DEF CommitRemoval
    <2>2. UNCHANGED <<object, url, disturbed>> BY DEF CommitRemoval
    <2>. QED BY <1>4, <2>1, <2>2 DEF EvidenceTypeOK, MediaRow
  <1>6. /\ CallsOK' /\ Spares(EvidenceCalls)
        /\ call'[p] = Idle /\ \A q \in Process : q # p => call'[q] = call[q]
        /\ \A k : (UnderDeletion(k) = {})' <=>
                    ~Deletes(Idle, k) /\ \A q \in Process \ {p} : ~Deletes(call[q], k)
        /\ \A k : UnderDeletion(k) = {} <=>
                    ~Deletes(call[p], k) /\ \A q \in Process \ {p} : ~Deletes(call[q], k)
    BY <1>1, <1>2, EvidenceMoved DEF EvidenceCalls
  <1>7. \A k : ~Deletes(Idle, k) /\ (Deletes(call[p], k) <=> k \in keys)
    BY <1>1, <1>3 DEF Deletes, Idle
  <1>8. keys \subseteq rows /\ \A k \in rows \ keys : k \notin disturbed => object[k] = "none"
    BY <1>1, <1>3, <1>4 DEF EvidenceCall
  <1>9. \A k \in rows : k \notin disturbed => object[k] = "none"
    BY <1>6, <1>7, <1>8, EvidenceParts DEF MediumOK
  <1>10. ASSUME NEW k \in Media
         PROVE  MediumOK(k)'
    <2>1. CASE k \in rows BY <1>1, <1>5, <1>9, <2>1 DEF MediumOK
    <2>2. CASE k \notin rows BY <1>1, <1>5, <1>6, <1>7, <1>8, <2>2, EvidenceParts DEF MediumOK
    <2>. QED BY <2>1, <2>2
  <1>11. ASSUME NEW q \in Process
         PROVE  EvidenceCall(call[q])'
    <2>1. CASE q = p
      BY <1>6, <2>1 DEF EvidenceCall, Idle
    <2>2. CASE q # p
      <3>1. EvidenceCall(call[q]) /\ call'[q] = call[q] BY <1>6, <2>2, EvidenceParts
      <3>2. \A k : k \notin rows /\ (UnderDeletion(k) = {})' => UnderDeletion(k) = {}
        BY <1>6, <1>7, <1>8
      <3>3. call[q].op = "complete" => call[q].row \in Media BY CallOf DEF CompleteCall
      <3>4. call[q].op = "remove" => call[q].rows \subseteq Media BY CallOf DEF RemoveCall
      <3>. QED BY <1>1, <1>5, <3>1, <3>2, <3>3, <3>4 DEF EvidenceCall
    <2>. QED BY <2>1, <2>2
  <1>. QED BY <1>5, <1>6, <1>10, <1>11, EvidenceParts

LEMMA AbortEvidenceKeeps ==
  ASSUME CallsOK, EvidenceOK, NEW p \in Process, AbortEvidence(p)
  PROVE  CallsOK' /\ Spares(EvidenceCalls) /\ EvidenceOK'
  <1>1. /\ call[p].op \in {"complete", "remove"}
        /\ UNCHANGED <<media, object, url>>
        /\ call' = [call EXCEPT ![p] = Idle]
        /\ disturbed' = disturbed \cup
             (IF call[p].op = "remove" THEN call[p].gone
              ELSE IF call[p].verdict = "rejected" THEN {call[p].row} ELSE {})
    BY DEF AbortEvidence, Return, Continue
  <1>2. call[p] \in EvidenceCalls
    BY <1>1, CallOf DEF EvidenceCalls
  <1>3. disturbed \subseteq disturbed' /\ disturbed' \subseteq Media
    BY <1>1, <1>2, EvidenceParts, CallOf
    DEF EvidenceCalls, CompleteCall, RemoveCall, EvidenceTypeOK
  <1>4. EvidenceTypeOK'
    BY <1>1, <1>3, EvidenceParts DEF EvidenceTypeOK
  <1>5. /\ CallsOK' /\ Spares(EvidenceCalls)
        /\ call'[p] = Idle /\ \A q \in Process : q # p => call'[q] = call[q]
        /\ \A k : (UnderDeletion(k) = {})' <=>
                    ~Deletes(Idle, k) /\ \A q \in Process \ {p} : ~Deletes(call[q], k)
        /\ \A k : UnderDeletion(k) = {} <=>
                    ~Deletes(call[p], k) /\ \A q \in Process \ {p} : ~Deletes(call[q], k)
    BY <1>1, <1>2, EvidenceMoved
  <1>6. \A k : ~Deletes(Idle, k) /\ (Deletes(call[p], k) => k \in disturbed')
    BY <1>1 DEF Deletes, Idle
  <1>7. \A k : k \notin disturbed' => ((UnderDeletion(k) = {})' <=> UnderDeletion(k) = {})
    BY <1>5, <1>6
  <1>8. \A k \in Media : MediumOK(k)'
    BY <1>1, <1>3, <1>7, EvidenceParts DEF MediumOK
  <1>9. ASSUME NEW q \in Process
        PROVE  EvidenceCall(call[q])'
    <2>1. CASE q = p
      BY <1>5, <2>1 DEF EvidenceCall, Idle
    <2>2. CASE q # p
      <3>1. EvidenceCall(call[q]) /\ call'[q] = call[q] BY <1>5, <2>2, EvidenceParts
      <3>. QED BY <1>1, <1>3, <1>7, <3>1 DEF EvidenceCall
    <2>. QED BY <2>1, <2>2
  <1>. QED BY <1>4, <1>5, <1>8, <1>9, EvidenceParts

LEMMA EvidenceStepKeeps ==
  ASSUME CallsOK, EvidenceOK, EvidenceStep
  PROVE  CallsOK' /\ Spares(EvidenceCalls) /\ EvidenceOK'
  <1>1. ASSUME NEW m \in Media, CreateUpload(m) \/ UrlExpires(m)
        PROVE  CallsOK' /\ Spares(EvidenceCalls) /\ EvidenceOK'
    BY <1>1, CreateUploadKeeps, UrlExpiresKeeps
  <1>2. ASSUME NEW m \in Media, NEW o \in {"good", "bad"}, PutObject(m, o)
        PROVE  CallsOK' /\ Spares(EvidenceCalls) /\ EvidenceOK'
    BY <1>2, PutObjectKeeps
  <1>3. ASSUME NEW p \in Process, NEW m \in Media,
               CompleteUpload(p, m) \/ RemoveObject(p, m)
        PROVE  CallsOK' /\ Spares(EvidenceCalls) /\ EvidenceOK'
    BY <1>3, CompleteUploadKeeps, RemoveObjectKeeps
  <1>4. ASSUME NEW p \in Process, NEW m \in Media, DeleteEvidence(p, m)
        PROVE  CallsOK' /\ Spares(EvidenceCalls) /\ EvidenceOK'
    <2>1. {m} \in SUBSET Media /\ Remove(p, {m}) /\ \A k \in {m} : media[k].status # "none"
      BY <1>4 DEF DeleteEvidence
    <2>. QED BY <2>1, RemoveKeeps
  <1>5. ASSUME NEW p \in Process, NEW rows \in SUBSET Media,
               PurgeMedia(p, rows) \/ EraseMedia(p, rows)
        PROVE  CallsOK' /\ Spares(EvidenceCalls) /\ EvidenceOK'
    <2>1. Remove(p, rows) /\ \A k \in rows : media[k].status # "none"
      BY <1>5 DEF PurgeMedia, EraseMedia
    <2>. QED BY <2>1, RemoveKeeps
  <1>6. ASSUME NEW p \in Process, CommitUpload(p) \/ CommitRemoval(p) \/ AbortEvidence(p)
        PROVE  CallsOK' /\ Spares(EvidenceCalls) /\ EvidenceOK'
    BY <1>6, CommitUploadKeeps, CommitRemovalKeeps, AbortEvidenceKeeps
  <1>. QED BY <1>1, <1>2, <1>3, <1>4, <1>5, <1>6 DEF EvidenceStep

-----------------------------------------------------------------------------
(* Coaching.  An event has one active action at most; a review that is to   *)
(* keep the one it saw finds it, and a request on an action finds it active,*)
(* unless someone has overtaken them.                                       *)
CoachingCall(c) ==
  /\ c.op = "review" /\ c.reuse /\ ~c.stale => ActiveIn(action, c.event) # {}
  /\ c.op \in {"update", "transition"} =>
       /\ c.row \in DOMAIN action
       /\ ~c.stale => action[c.row].status \in ActiveStatuses
  /\ c.op = "transition" => c.target # "open"

OneActive == \A e \in Event : \A i, j \in ActiveIn(action, e) : i = j

CoachingOK ==
  /\ CoachingTypeOK
  /\ OneActive
  /\ \A p \in Process : CoachingCall(call[p])

LEMMA CoachingFrame ==
  ASSUME CallsOK, CoachingOK, NEW own, Spares(own), UNCHANGED coachingVars,
         own \subseteq EvidenceCalls \cup WebhookCalls
  PROVE  CoachingOK'
  <1>1. \A q \in Process :
          \/ call'[q] = call[q]
          \/ call'[q].op \notin {"create", "review", "update", "transition"}
    BY OpOf DEF Spares
  <1>2. \A q \in Process : CoachingCall(call[q])'
    BY <1>1 DEF CoachingOK, CoachingCall, coachingVars, ActiveIn
  <1>. QED BY <1>2 DEF CoachingOK, CoachingTypeOK, OneActive, ActiveIn, coachingVars

(* A table with a row more, and one with another row in the place of one.   *)
LEMMA ActionAppended ==
  ASSUME action \in Seq(ActionRow), NEW row \in ActionRow, action' = Append(action, row)
  PROVE  /\ action' \in Seq(ActionRow)
         /\ DOMAIN action = 1..Len(action) /\ Len(action) \in Nat
         /\ DOMAIN action' = 1..(Len(action) + 1)
         /\ action'[Len(action) + 1] = row
         /\ \A i \in DOMAIN action : i \in DOMAIN action' /\ action'[i] = action[i]
  <1>1. DOMAIN action = 1..Len(action) /\ Len(action) \in Nat
    BY LenProperties
  <1>. QED BY <1>1, AppendProperties

LEMMA ActionRewritten ==
  ASSUME action \in Seq(ActionRow), NEW i \in DOMAIN action, NEW row \in ActionRow,
         action' = [action EXCEPT ![i] = row]
  PROVE  /\ action' \in Seq(ActionRow) /\ DOMAIN action' = DOMAIN action
         /\ action'[i] = row
         /\ \A j \in DOMAIN action : j # i => action'[j] = action[j]
  <1>1. DOMAIN action = 1..Len(action)
    BY LenProperties
  <1>. QED BY <1>1, ExceptSeq

LEMMA RowTyped ==
  ASSUME action \in Seq(ActionRow), NEW i \in DOMAIN action
  PROVE  action[i] \in ActionRow /\ i \in Nat
  BY LenProperties, ElementOfSeq

LEMMA MailedTyped ==
  ASSUME CoachingTypeOK, NEW i \in Nat, NEW by, NEW u \in User \cup {None},
         NotifyAssignee(i, by, u)
  PROVE  mailed' \in Seq([row : Nat, user : User])
  <1>1. CASE u \in {None, by}
    BY <1>1 DEF NotifyAssignee, CoachingTypeOK
  <1>2. CASE u \notin {None, by}
    <2>1. [row |-> i, user |-> u] \in [row : Nat, user : User]
      BY <1>2
    <2>. QED BY <1>2, <2>1, AppendProperties DEF NotifyAssignee, CoachingTypeOK
  <1>. QED BY <1>1, <1>2

LEMMA EventTyped ==
  ASSUME CoachingTypeOK, NEW e \in Event,
         NEW decision \in {"pending", "confirmed", "rejected", "uncertain"},
         NEW resolution \in {"none", "coaching", "other"},
         Reviewed(e, decision, resolution)
  PROVE  event' \in [Event -> EventRow]
  <1>1. event[e].resolution \in {"none", "coaching", "other"}
    BY DEF CoachingTypeOK, EventRow
  <1>2. [review |-> decision,
         resolution |-> IF resolution = "none" THEN event[e].resolution ELSE resolution]
          \in EventRow
    BY <1>1 DEF EventRow
  <1>. QED BY <1>2 DEF Reviewed, CoachingTypeOK

(* An insert leaves one active action of the event, and the rows there are. *)
LEMMA InsertKeeps ==
  ASSUME CoachingTypeOK, OneActive, NEW c \in CreateCall \cup ReviewCall, Insert(c)
  PROVE  /\ action' \in Seq(ActionRow) /\ mailed' \in Seq([row : Nat, user : User])
         /\ OneActive'
         /\ c.event # None => ActiveIn(action', c.event) # {}
         /\ \A i \in DOMAIN action : i \in DOMAIN action' /\ action'[i] = action[i]
  <1>1. c.event \in Event \cup {None} /\ c.assignee \in User \cup {None}
    BY DEF CreateCall, ReviewCall
  <1>2. action \in Seq(ActionRow) /\ mailed \in Seq([row : Nat, user : User])
    BY DEF CoachingTypeOK
  <1>3. CASE Clashes(c.event)
    BY <1>2, <1>3 DEF Insert, Clashes, ActiveForEvent, OneActive, ActiveIn
  <1>4. CASE ~Clashes(c.event)
    <2>1. PICK row : row = [event |-> c.event, status |-> "open", assignee |-> c.assignee,
                            outcome |-> FALSE, reason |-> FALSE]
      OBVIOUS
    <2>2. row \in ActionRow /\ row.event = c.event /\ row.status = "open"
      BY <1>1, <2>1 DEF ActionRow, Status
    <2>3. action' = Append(action, row) /\ NotifyAssignee(Len(action) + 1, c.by, c.assignee)
      BY <1>4, <2>1 DEF Insert
    <2>4. /\ action' \in Seq(ActionRow)
          /\ DOMAIN action = 1..Len(action) /\ Len(action) \in Nat
          /\ DOMAIN action' = 1..(Len(action) + 1)
          /\ action'[Len(action) + 1] = row
          /\ \A i \in DOMAIN action : i \in DOMAIN action' /\ action'[i] = action[i]
      BY <1>2, <2>2, <2>3, ActionAppended
    <2>5. \A i \in DOMAIN action' : i \in DOMAIN action \/ i = Len(action) + 1
      BY <2>4
    <2>6. Len(action) + 1 \in DOMAIN action'
      BY <2>4
    <2>7. ActiveIn(action, c.event) = {}
      BY <1>4 DEF Clashes, ActiveForEvent
    <2>8. ASSUME NEW e \in Event, NEW i \in ActiveIn(action', e), NEW j \in ActiveIn(action', e)
          PROVE  i = j
      <3>1. CASE e = c.event
        BY <2>4, <2>5, <2>7, <3>1 DEF ActiveIn
      <3>2. CASE e # c.event
        <4>1. i \in ActiveIn(action, e) /\ j \in ActiveIn(action, e)
          BY <2>2, <2>4, <2>5, <3>2 DEF ActiveIn
        <4>. QED BY <4>1 DEF OneActive
      <3>. QED BY <3>1, <3>2
    <2>9. c.event # None => Len(action) + 1 \in ActiveIn(action', c.event)
      BY <2>2, <2>4, <2>6 DEF ActiveIn, ActiveStatuses
    <2>10. mailed' \in Seq([row : Nat, user : User])
      <3>1. PICK n \in Nat : n = Len(action) + 1
        BY <2>4
      <3>2. NotifyAssignee(n, c.by, c.assignee)
        BY <2>3, <3>1
      <3>. QED BY <1>1, <3>2, MailedTyped
    <2>. QED BY <2>4, <2>8, <2>9, <2>10 DEF OneActive
  <1>. QED BY <1>3, <1>4

(* The calls that an added row leaves right.                                *)
LEMMA CallsStillFit ==
  ASSUME NEW c, CoachingCall(c),
         action \in Seq(ActionRow), action' \in Seq(ActionRow),
         \A i \in DOMAIN action : i \in DOMAIN action' /\ action'[i] = action[i]
  PROVE  /\ c.op = "review" /\ c.reuse /\ ~c.stale => ActiveIn(action', c.event) # {}
         /\ c.op \in {"update", "transition"} =>
              /\ c.row \in DOMAIN action'
              /\ ~c.stale => action'[c.row].status \in ActiveStatuses
         /\ c.op = "transition" => c.target # "open"
  BY DEF CoachingCall, ActiveIn

(* One coaching request moves and nobody is overtaken.                      *)
LEMMA CoachingMoved ==
  ASSUME CallsOK, NEW p \in Process, NEW c, call' = [call EXCEPT ![p] = c],
         call[p] \in {Idle} \cup CoachingCalls, c \in {Idle} \cup CoachingCalls
  PROVE  /\ CallsOK' /\ Spares(CoachingCalls)
         /\ call'[p] = c /\ \A q \in Process : q # p => call'[q] = call[q]
  BY Moved1

(* A request that has been overtaken has read what it has read.             *)
Overtaken(c, d) ==
  /\ d \in CoachingCalls
  /\ d.op = c.op /\ d.stale
  /\ c.op = "review" => d.event = c.event
  /\ c.op \in {"update", "transition"} => d.row = c.row
  /\ c.op = "transition" => d.target = c.target

LEMMA StaleCall ==
  ASSUME NEW c \in CoachingCalls
  PROVE  Overtaken(c, [c EXCEPT !.stale = TRUE])
  <1>1. PICK d : d = [c EXCEPT !.stale = TRUE]
    OBVIOUS
  <1>2. CASE c \in CreateCall
    <2>1. d \in CreateCall /\ d.op = c.op /\ d.stale
      BY <1>1, <1>2 DEF CreateCall
    <2>. QED BY <1>1, <1>2, <2>1 DEF Overtaken, CoachingCalls, CreateCall
  <1>3. CASE c \in ReviewCall
    <2>1. d \in ReviewCall /\ d.op = c.op /\ d.stale /\ d.event = c.event
      BY <1>1, <1>3 DEF ReviewCall
    <2>. QED BY <1>1, <1>3, <2>1 DEF Overtaken, CoachingCalls, ReviewCall
  <1>4. CASE c \in UpdateCall
    <2>1. d \in UpdateCall /\ d.op = c.op /\ d.stale /\ d.row = c.row
      BY <1>1, <1>4 DEF UpdateCall
    <2>. QED BY <1>1, <1>4, <2>1 DEF Overtaken, CoachingCalls, UpdateCall
  <1>5. CASE c \in TransitionCall
    <2>1. d \in TransitionCall /\ d.op = c.op /\ d.stale /\ d.row = c.row /\ d.target = c.target
      BY <1>1, <1>5 DEF TransitionCall
    <2>. QED BY <1>1, <1>5, <2>1 DEF Overtaken, CoachingCalls, TransitionCall
  <1>. QED BY <1>2, <1>3, <1>4, <1>5 DEF CoachingCalls

LEMMA CommitMoves ==
  ASSUME CallsOK, NEW p \in Process, call[p] \in CoachingCalls,
         NEW overtaken, overtaken \subseteq {q \in Process : call[q] \in CoachingCalls},
         Commit(p, overtaken)
  PROVE  /\ CallsOK' /\ Spares(CoachingCalls)
         /\ call'[p] = Idle
         /\ \A q \in Process : q # p /\ q \notin overtaken => call'[q] = call[q]
         /\ \A q \in Process : q # p /\ q \in overtaken => Overtaken(call[q], call'[q])
  <1>1. /\ call' = [q \in Process |-> call'[q]]
        /\ call'[p] = Idle
        /\ \A q \in Process : q # p /\ q \notin overtaken => call'[q] = call[q]
        /\ \A q \in Process : q # p /\ q \in overtaken
                                => call'[q] = [call[q] EXCEPT !.stale = TRUE]
    BY DEF Commit
  <1>2. \A q \in Process : q # p /\ q \in overtaken => Overtaken(call[q], call'[q])
    BY <1>1, StaleCall
  <1>3. \A q \in Process : \/ call'[q] = call[q]
                           \/ /\ call[q] \in {Idle} \cup CoachingCalls
                              /\ call'[q] \in {Idle} \cup CoachingCalls
    BY <1>1, <1>2 DEF Overtaken
  <1>4. CallsOK'
    BY <1>1, <1>3 DEF CallsOK
  <1>. QED BY <1>1, <1>2, <1>3, <1>4 DEF Spares

LEMMA CoachingOf ==
  ASSUME CallsOK, NEW p \in Process,
         call[p].op \in {"create", "review", "update", "transition"}
  PROVE  call[p] \in CoachingCalls
  BY CallOf DEF CoachingCalls

LEMMA CreateActionKeeps ==
  ASSUME CallsOK, CoachingOK, NEW p \in Process, NEW by \in User, NEW e \in Event \cup {None},
         NEW u \in User \cup {None}, CreateAction(p, by, e, u)
  PROVE  CallsOK' /\ Spares(CoachingCalls) /\ CoachingOK'
  <1> DEFINE c == [op |-> "create", event |-> e, assignee |-> u, by |-> by, stale |-> FALSE]
  <1>1. call[p] = Idle /\ call' = [call EXCEPT ![p] = c] /\ UNCHANGED coachingVars
    BY DEF CreateAction, Begin
  <1>2. c \in CreateCall /\ c.op = "create"
    BY DEF CreateCall
  <1> HIDE DEF c
  <1>3. /\ CallsOK' /\ Spares(CoachingCalls)
        /\ call'[p] = c /\ \A q \in Process : q # p => call'[q] = call[q]
    BY <1>1, <1>2, CoachingMoved DEF CoachingCalls
  <1>4. \A q \in Process : CoachingCall(call[q])'
    BY <1>1, <1>2, <1>3 DEF CoachingOK, CoachingCall, coachingVars, ActiveIn
  <1>. QED BY <1>1, <1>3, <1>4
       DEF CoachingOK, CoachingTypeOK, OneActive, ActiveIn, coachingVars

LEMMA ReviewWithCoachingKeeps ==
  ASSUME CallsOK, CoachingOK, NEW p \in Process, NEW by \in User, NEW e \in Event,
         NEW u \in User \cup {None}, ReviewWithCoaching(p, by, e, u)
  PROVE  CallsOK' /\ Spares(CoachingCalls) /\ CoachingOK'
  <1>1. PICK reuse \in BOOLEAN : reuse = (ActiveForEvent(e) # {})
    OBVIOUS
  <1> DEFINE c == [op |-> "review", event |-> e, assignee |-> u, by |-> by,
                   reuse |-> reuse, stale |-> FALSE]
  <1>2. call[p] = Idle /\ call' = [call EXCEPT ![p] = c] /\ UNCHANGED coachingVars
    BY <1>1 DEF ReviewWithCoaching, Begin
  <1>3. c \in ReviewCall /\ c.op = "review" /\ c.event = e /\ c.reuse = reuse
    BY DEF ReviewCall
  <1> HIDE DEF c
  <1>4. /\ CallsOK' /\ Spares(CoachingCalls)
        /\ call'[p] = c /\ \A q \in Process : q # p => call'[q] = call[q]
    BY <1>2, <1>3, CoachingMoved DEF CoachingCalls
  <1>5. ASSUME NEW q \in Process
        PROVE  CoachingCall(call[q])'
    <2>1. CASE q = p
      <3>1. c.op = "review" /\ c.event = e /\ c.reuse = reuse /\ call'[q] = c
        BY <1>3, <1>4, <2>1
      <3>2. reuse = (ActiveIn(action, e) # {}) /\ action' = action
        BY <1>1, <1>2 DEF ActiveForEvent, ActiveIn, coachingVars
      <3>. QED BY <3>1, <3>2 DEF CoachingCall, ActiveIn
    <2>2. CASE q # p
      BY <1>2, <1>4, <2>2 DEF CoachingOK, CoachingCall, coachingVars, ActiveIn
    <2>. QED BY <2>1, <2>2
  <1>. QED BY <1>2, <1>4, <1>5
       DEF CoachingOK, CoachingTypeOK, OneActive, ActiveIn, coachingVars

(* Requests on an action start from one that is active.                     *)
LEMMA OnActionKeeps ==
  ASSUME CallsOK, CoachingOK, NEW p \in Process, NEW i \in DOMAIN action,
         NEW c \in UpdateCall \cup TransitionCall, c.row = i,
         c.op = "transition" => c.target # "open",
         action[i].status \in ActiveStatuses,
         call[p] = Idle, call' = [call EXCEPT ![p] = c], UNCHANGED coachingVars
  PROVE  CallsOK' /\ Spares(CoachingCalls) /\ CoachingOK'
  <1>1. /\ CallsOK' /\ Spares(CoachingCalls)
        /\ call'[p] = c /\ \A q \in Process : q # p => call'[q] = call[q]
    BY CoachingMoved DEF CoachingCalls
  <1>2. c.op \in {"update", "transition"}
    BY DEF UpdateCall, TransitionCall
  <1>3. ASSUME NEW q \in Process
        PROVE  CoachingCall(call[q])'
    <2>1. CASE q = p
      BY <1>1, <1>2, <2>1 DEF CoachingCall, coachingVars
    <2>2. CASE q # p
      BY <1>1, <2>2 DEF CoachingOK, CoachingCall, coachingVars, ActiveIn
    <2>. QED BY <2>1, <2>2
  <1>. QED BY <1>1, <1>3
       DEF CoachingOK, CoachingTypeOK, OneActive, ActiveIn, coachingVars

LEMMA UpdateActionKeeps ==
  ASSUME CallsOK, CoachingOK, NEW p \in Process, NEW by \in User, NEW i \in DOMAIN action,
         NEW u \in User \cup {None}, UpdateAction(p, by, i, u)
  PROVE  CallsOK' /\ Spares(CoachingCalls) /\ CoachingOK'
  <1>1. action[i] \in ActionRow /\ i \in Nat
    BY RowTyped DEF CoachingOK, CoachingTypeOK
  <1>2. PICK seen \in User \cup {None} : seen = action[i].assignee
    BY <1>1 DEF ActionRow
  <1> DEFINE c == [op |-> "update", row |-> i, assignee |-> u, by |-> by, seen |-> seen,
                   stale |-> FALSE]
  <1>3. /\ call[p] = Idle /\ call' = [call EXCEPT ![p] = c] /\ UNCHANGED coachingVars
        /\ action[i].status \in ActiveStatuses
    BY <1>2 DEF UpdateAction, Begin
  <1>4. c \in UpdateCall /\ c.op = "update" /\ c.row = i
    BY <1>1 DEF UpdateCall
  <1> HIDE DEF c
  <1>. QED BY <1>3, <1>4, OnActionKeeps

LEMMA TransitionKeeps ==
  ASSUME CallsOK, CoachingOK, NEW p \in Process, NEW by \in User, NEW i \in DOMAIN action,
         NEW target \in Status, Transition(p, by, i, target)
  PROVE  CallsOK' /\ Spares(CoachingCalls) /\ CoachingOK'
  <1>1. action[i] \in ActionRow /\ i \in Nat
    BY RowTyped DEF CoachingOK, CoachingTypeOK
  <1>2. PICK seen \in User \cup {None} : seen = action[i].assignee
    BY <1>1 DEF ActionRow
  <1> DEFINE c == [op |-> "transition", row |-> i, target |-> target, by |-> by,
                   seen |-> seen, stale |-> FALSE]
  <1>3. /\ call[p] = Idle /\ call' = [call EXCEPT ![p] = c] /\ UNCHANGED coachingVars
        /\ action[i].status \in ActiveStatuses /\ target # "open"
    BY <1>2 DEF Transition, Begin, CanTransition, ActiveStatuses
  <1>4. c \in TransitionCall /\ c.op = "transition" /\ c.row = i /\ c.target = target
    BY <1>1 DEF TransitionCall
  <1> HIDE DEF c
  <1>. QED BY <1>3, <1>4, OnActionKeeps

LEMMA InsertActionKeeps ==
  ASSUME CallsOK, CoachingOK, NEW p \in Process, InsertAction(p)
  PROVE  CallsOK' /\ Spares(CoachingCalls) /\ CoachingOK'
  <1>1. call[p].op = "create" /\ call' = [call EXCEPT ![p] = Idle]
        /\ UNCHANGED event /\ Insert(call[p])
    BY DEF InsertAction, Return, Continue
  <1>2. call[p] \in CreateCall
    BY <1>1, CallOf
  <1>3. /\ CallsOK' /\ Spares(CoachingCalls)
        /\ call'[p] = Idle /\ \A q \in Process : q # p => call'[q] = call[q]
    BY <1>1, <1>2, CoachingMoved DEF CoachingCalls
  <1>4. /\ CoachingTypeOK /\ OneActive /\ \A q \in Process : CoachingCall(call[q])
        /\ action \in Seq(ActionRow)
    BY DEF CoachingOK, CoachingTypeOK
  <1>5. /\ action' \in Seq(ActionRow) /\ mailed' \in Seq([row : Nat, user : User])
        /\ OneActive'
        /\ \A i \in DOMAIN action : i \in DOMAIN action' /\ action'[i] = action[i]
    BY <1>1, <1>2, <1>4, InsertKeeps
  <1>6. ASSUME NEW q \in Process
        PROVE  CoachingCall(call[q])'
    <2>1. CASE q = p
      BY <1>3, <2>1 DEF CoachingCall, Idle
    <2>2. CASE q # p
      <3>1. CoachingCall(call[q]) /\ call'[q] = call[q]
        BY <1>3, <1>4, <2>2
      <3>. QED BY <1>4, <1>5, <3>1, CallsStillFit DEF CoachingCall
    <2>. QED BY <2>1, <2>2
  <1>. QED BY <1>1, <1>3, <1>4, <1>5, <1>6 DEF CoachingOK, CoachingTypeOK

LEMMA CommitReviewKeeps ==
  ASSUME CallsOK, CoachingOK, NEW p \in Process, CommitReview(p)
  PROVE  /\ CallsOK' /\ Spares(CoachingCalls) /\ CoachingOK'
         /\ call[p].event \in Event
         /\ ~call[p].stale => ActiveIn(action', call[p].event) # {}
         /\ \A q \in Process : q # p => call'[q] = call[q]
         /\ \A i \in DOMAIN action : i \in DOMAIN action' /\ action'[i] = action[i]
  <1>1. /\ call[p].op = "review" /\ call' = [call EXCEPT ![p] = Idle]
        /\ Reviewed(call[p].event, "confirmed", "coaching")
        /\ IF call[p].reuse THEN UNCHANGED <<action, mailed>> ELSE Insert(call[p])
    BY DEF CommitReview, Return, Continue
  <1>2. call[p] \in ReviewCall /\ call[p].event \in Event
    BY <1>1, CallOf DEF ReviewCall
  <1>3. /\ CallsOK' /\ Spares(CoachingCalls)
        /\ call'[p] = Idle /\ \A q \in Process : q # p => call'[q] = call[q]
    BY <1>1, <1>2, CoachingMoved DEF CoachingCalls
  <1>4. /\ CoachingTypeOK /\ OneActive /\ \A q \in Process : CoachingCall(call[q])
        /\ action \in Seq(ActionRow)
    BY DEF CoachingOK, CoachingTypeOK
  <1>5. event' \in [Event -> EventRow]
    BY <1>1, <1>2, <1>4, EventTyped
  <1>6. /\ action' \in Seq(ActionRow) /\ mailed' \in Seq([row : Nat, user : User])
        /\ OneActive'
        /\ ~call[p].stale => ActiveIn(action', call[p].event) # {}
        /\ \A i \in DOMAIN action : i \in DOMAIN action' /\ action'[i] = action[i]
    <2>1. CASE call[p].reuse
      <3>1. UNCHANGED <<action, mailed>> /\ CoachingCall(call[p])
        BY <1>1, <1>4, <2>1
      <3>2. ~call[p].stale => ActiveIn(action, call[p].event) # {}
        BY <1>1, <2>1, <3>1 DEF CoachingCall
      <3>. QED BY <1>4, <3>1, <3>2 DEF CoachingTypeOK, OneActive, ActiveIn
    <2>2. CASE ~call[p].reuse
      <3>1. call[p].event # None
        BY <1>2, CoachingAssumption
      <3>. QED BY <1>1, <1>2, <1>4, <2>2, <3>1, InsertKeeps
    <2>. QED BY <2>1, <2>2
  <1>7. ASSUME NEW q \in Process
        PROVE  CoachingCall(call[q])'
    <2>1. CASE q = p
      BY <1>3, <2>1 DEF CoachingCall, Idle
    <2>2. CASE q # p
      <3>1. CoachingCall(call[q]) /\ call'[q] = call[q]
        BY <1>3, <1>4, <2>2
      <3>. QED BY <1>4, <1>6, <3>1, CallsStillFit DEF CoachingCall
    <2>. QED BY <2>1, <2>2
  <1>. QED BY <1>2, <1>3, <1>5, <1>6, <1>7 DEF CoachingOK, CoachingTypeOK

LEMMA ReviewEventKeeps ==
  ASSUME CallsOK, CoachingOK, NEW e \in Event,
         NEW decision \in {"confirmed", "rejected", "uncertain"},
         NEW resolution \in {"none", "other"}, ReviewEvent(e, decision, resolution)
  PROVE  CallsOK' /\ Spares(CoachingCalls) /\ CoachingOK'
  <1>1. UNCHANGED <<call, action, mailed>> /\ Reviewed(e, decision, resolution)
    BY DEF ReviewEvent, AtOnce
  <1>2. event' \in [Event -> EventRow]
    BY <1>1, EventTyped DEF CoachingOK
  <1>3. \A q \in Process : CoachingCall(call[q])'
    BY <1>1 DEF CoachingOK, CoachingCall, ActiveIn
  <1>. QED BY <1>1, <1>2, <1>3, NoneMoved
       DEF CoachingOK, CoachingTypeOK, OneActive, ActiveIn

LEMMA AbortCoachingKeeps ==
  ASSUME CallsOK, CoachingOK, NEW p \in Process, AbortCoaching(p)
  PROVE  CallsOK' /\ Spares(CoachingCalls) /\ CoachingOK'
  <1>1. /\ call[p] \in CoachingCalls /\ call' = [call EXCEPT ![p] = Idle]
        /\ UNCHANGED coachingVars
    BY CoachingOf DEF AbortCoaching, Return, Continue
  <1>2. /\ CallsOK' /\ Spares(CoachingCalls)
        /\ call'[p] = Idle /\ \A q \in Process : q # p => call'[q] = call[q]
    BY <1>1, CoachingMoved
  <1>3. \A q \in Process : CoachingCall(call[q])'
    BY <1>1, <1>2 DEF CoachingOK, CoachingCall, coachingVars, ActiveIn, Idle
  <1>. QED BY <1>1, <1>2, <1>3
       DEF CoachingOK, CoachingTypeOK, OneActive, ActiveIn, coachingVars

(* What a write to action i leaves of the requests: those on i are said to  *)
(* be overtaken if it is no longer active, those on its event if it was the *)
(* event's active action.                                                   *)
LEMMA CallsFollow ==
  ASSUME CallsOK, NEW p \in Process, NEW i \in DOMAIN action,
         \A q \in Process : CoachingCall(call[q]),
         DOMAIN action' = DOMAIN action,
         \A j \in DOMAIN action : j # i => action'[j] = action[j],
         action'[i].event = action[i].event,
         call'[p] = Idle,
         \A q \in Process \ {p} : \/ call'[q] = call[q] \/ Overtaken(call[q], call'[q]),
         \/ action[i].status \notin ActiveStatuses
         \/ action'[i].status \in ActiveStatuses
         \/ \A q \in Process \ {p} :
              q \in OnAction(i) \cup OnEvent(action[i].event) => Overtaken(call[q], call'[q])
  PROVE  \A q \in Process : CoachingCall(call[q])'
  <1>1. ASSUME NEW q \in Process
        PROVE  CoachingCall(call[q])'
    <2>1. CASE q = p
      BY <2>1 DEF CoachingCall, Idle
    <2>2. CASE q # p /\ Overtaken(call[q], call'[q])
      BY <2>2 DEF CoachingCall, Overtaken
    <2>3. CASE q # p /\ call'[q] = call[q] /\ ~Overtaken(call[q], call'[q])
      <3>1. \/ action[i].status \notin ActiveStatuses
            \/ action'[i].status \in ActiveStatuses
            \/ q \notin OnAction(i) /\ q \notin OnEvent(action[i].event)
        BY <2>3
      <3>2. ASSUME call[q].op \in {"update", "transition"}
            PROVE  /\ call[q].row \in DOMAIN action'
                   /\ ~call[q].stale => action'[call[q].row].status \in ActiveStatuses
        BY <3>1, <3>2 DEF CoachingCall, OnAction
      <3>3. ASSUME call[q].op = "review", call[q].reuse, ~call[q].stale
            PROVE  ActiveIn(action', call[q].event) # {}
        <4>1. PICK j \in DOMAIN action : j \in ActiveIn(action, call[q].event)
          BY <3>3 DEF CoachingCall, ActiveIn
        <4>2. CASE j # i
          BY <4>1, <4>2 DEF ActiveIn
        <4>3. CASE j = i
          <5>1. action[i].status \in ActiveStatuses /\ q \in OnEvent(action[i].event)
            BY <3>3, <4>1, <4>3 DEF ActiveIn, OnEvent
          <5>2. i \in ActiveIn(action', call[q].event)
            BY <3>1, <4>1, <4>3, <5>1 DEF ActiveIn
          <5>. QED BY <5>2
        <4>. QED BY <4>2, <4>3
      <3>. QED BY <2>3, <3>2, <3>3 DEF CoachingCall
    <2>. QED BY <2>1, <2>2, <2>3
  <1>. QED BY <1>1

LEMMA WriteUpdateKeeps ==
  ASSUME CallsOK, CoachingOK, NEW p \in Process, WriteUpdate(p)
  PROVE  /\ CallsOK' /\ Spares(CoachingCalls) /\ CoachingOK'
         /\ \A q \in Process : q # p => call'[q] = call[q]
         /\ \A j \in DOMAIN action : j # call[p].row => action'[j] = action[j]
  <1>1. call[p] \in UpdateCall /\ Commit(p, {}) /\ UNCHANGED event
    BY CallOf DEF WriteUpdate
  <1>2. /\ CallsOK' /\ Spares(CoachingCalls) /\ call'[p] = Idle
        /\ \A q \in Process : q # p => call'[q] = call[q]
    BY <1>1, CommitMoves DEF CoachingCalls
  <1>3. /\ CoachingTypeOK /\ OneActive /\ \A q \in Process : CoachingCall(call[q])
        /\ action \in Seq(ActionRow) /\ mailed \in Seq([row : Nat, user : User])
    BY DEF CoachingOK, CoachingTypeOK
  <1>4. PICK i \in DOMAIN action : i = call[p].row
    BY <1>1, <1>3 DEF CoachingCall, UpdateCall
  <1>5. PICK u \in User \cup {None} : u = call[p].assignee
    BY <1>1 DEF UpdateCall
  <1>6. CASE u = call[p].seen
    <2>1. UNCHANGED <<action, mailed>>
      BY <1>5, <1>6 DEF WriteUpdate
    <2>2. \A q \in Process : CoachingCall(call[q])'
      BY <1>2, <1>3, <2>1 DEF CoachingCall, Idle, ActiveIn
    <2>. QED BY <1>1, <1>2, <1>3, <2>1, <2>2
         DEF CoachingOK, CoachingTypeOK, OneActive, ActiveIn
  <1>7. CASE u # call[p].seen
    <2>1. action[i] \in ActionRow /\ i \in Nat
      BY <1>3, RowTyped
    <2>2. PICK row : row = [action[i] EXCEPT !.assignee = u]
      OBVIOUS
    <2>3. row \in ActionRow /\ row.event = action[i].event /\ row.status = action[i].status
      BY <2>1, <2>2 DEF ActionRow
    <2>4. action' = [action EXCEPT ![i].assignee = u] /\ NotifyAssignee(i, call[p].by, u)
      BY <1>4, <1>5, <1>7 DEF WriteUpdate
    <2>5. action' = [action EXCEPT ![i] = row]
      BY <2>2, <2>4
    <2>6. /\ action' \in Seq(ActionRow) /\ DOMAIN action' = DOMAIN action /\ action'[i] = row
          /\ \A j \in DOMAIN action : j # i => action'[j] = action[j]
      BY <1>3, <2>3, <2>5, ActionRewritten
    <2>7. mailed' \in Seq([row : Nat, user : User])
      BY <1>3, <2>1, <2>4, MailedTyped
    <2>8. \A q \in Process : CoachingCall(call[q])'
      <3>1. \A q \in Process \ {p} : \/ call'[q] = call[q] \/ Overtaken(call[q], call'[q])
        BY <1>2
      <3>2. action[i].status \notin ActiveStatuses \/ action'[i].status \in ActiveStatuses
        BY <2>3, <2>6
      <3>. QED BY <1>2, <1>3, <2>3, <2>6, <3>1, <3>2, CallsFollow
    <2>9. OneActive'
      BY <1>3, <2>3, <2>6 DEF OneActive, ActiveIn
    <2>. QED BY <1>1, <1>2, <1>3, <1>4, <2>6, <2>7, <2>8, <2>9 DEF CoachingOK, CoachingTypeOK
  <1>. QED BY <1>6, <1>7

LEMMA MovedRow ==
  ASSUME NEW row \in ActionRow, NEW c \in TransitionCall
  PROVE  /\ Moved(row, c) \in ActionRow
         /\ Moved(row, c).event = row.event /\ Moved(row, c).status = c.target
  <1>1. /\ c.target \in Status /\ c.by \in User
        /\ row.assignee \in User \cup {None} /\ row.outcome \in BOOLEAN /\ row.reason \in BOOLEAN
    BY DEF ActionRow, TransitionCall
  <1>2. PICK a \in User \cup {None} :
          a = IF c.target = "in_progress" /\ c.seen = None THEN c.by ELSE row.assignee
    BY <1>1
  <1>3. PICK o \in BOOLEAN, r \in BOOLEAN :
          /\ o = (row.outcome \/ c.target = "completed")
          /\ r = (row.reason \/ c.target = "canceled")
    BY <1>1
  <1>4. Moved(row, c) = [row EXCEPT !.status = c.target, !.assignee = a,
                                    !.outcome = o, !.reason = r]
    BY <1>2, <1>3 DEF Moved, ActionRow
  <1>. QED BY <1>1, <1>4 DEF ActionRow

LEMMA WriteTransitionKeeps ==
  ASSUME CallsOK, CoachingOK, NEW p \in Process, WriteTransition(p)
  PROVE  /\ CallsOK' /\ Spares(CoachingCalls) /\ CoachingOK'
         /\ call'[p] = Idle
         /\ \A q \in Process : q # p => call'[q] # Idle \/ call'[q] = call[q]
         /\ \A j \in DOMAIN action : j # call[p].row => action'[j] = action[j]
  <1>1. call[p] \in TransitionCall
    BY CallOf DEF WriteTransition
  <1>2. /\ CoachingTypeOK /\ OneActive /\ \A q \in Process : CoachingCall(call[q])
        /\ action \in Seq(ActionRow)
    BY DEF CoachingOK, CoachingTypeOK
  <1>3. PICK i \in DOMAIN action : i = call[p].row
    BY <1>1, <1>2 DEF CoachingCall, TransitionCall
  <1>4. PICK target \in Status : target = call[p].target /\ target # "open"
    BY <1>1, <1>2 DEF CoachingCall, TransitionCall
  <1> DEFINE e == action[i].event
             overtaken == OnAction(i) \cup (IF target \in ActiveStatuses THEN {} ELSE OnEvent(e))
  <1>5. Commit(p, overtaken) /\ UNCHANGED <<event, mailed>>
    BY <1>3, <1>4 DEF WriteTransition
  <1>6. overtaken \subseteq {q \in Process : call[q] \in CoachingCalls}
    BY CoachingOf DEF OnAction, OnEvent
  <1>7. PICK o : o = overtaken
    OBVIOUS
  <1>8. /\ CallsOK' /\ Spares(CoachingCalls) /\ call'[p] = Idle
        /\ \A q \in Process : q # p /\ q \notin o => call'[q] = call[q]
        /\ \A q \in Process : q # p /\ q \in o => Overtaken(call[q], call'[q])
    BY <1>1, <1>5, <1>6, <1>7, CommitMoves DEF CoachingCalls
  <1>9. \A q \in Process \ {p} : \/ call'[q] = call[q] \/ Overtaken(call[q], call'[q])
    BY <1>8
  <1>10. \A q \in Process : q # p => call'[q] # Idle \/ call'[q] = call[q]
    BY <1>9, OpOf DEF Overtaken
  <1>11. CASE UNCHANGED action
    <2>1. \A q \in Process : CoachingCall(call[q])'
      BY <1>2, <1>8, <1>9, <1>11, CallsFollow
    <2>. QED BY <1>2, <1>5, <1>8, <1>10, <1>11, <2>1
         DEF CoachingOK, CoachingTypeOK, OneActive, ActiveIn
  <1>12. CASE ~UNCHANGED action
    <2>1. /\ action' = [action EXCEPT ![i] = Moved(action[i], call[p])]
          /\ \/ target # "in_progress" \/ action[i].status \in ActiveStatuses
             \/ ActiveIn(action, e) = {}
      BY <1>3, <1>4, <1>12 DEF WriteTransition, Clashes, ActiveForEvent
    <2>2. action[i] \in ActionRow /\ i \in Nat
      BY <1>2, RowTyped
    <2>3. PICK row \in ActionRow :
            row = Moved(action[i], call[p]) /\ row.event = e /\ row.status = target
      BY <1>1, <1>4, <2>2, MovedRow
    <2>4. /\ action' \in Seq(ActionRow) /\ DOMAIN action' = DOMAIN action /\ action'[i] = row
          /\ \A j \in DOMAIN action : j # i => action'[j] = action[j]
      BY <1>2, <2>1, <2>3, ActionRewritten
    <2>5. \/ action[i].status \notin ActiveStatuses
          \/ action'[i].status \in ActiveStatuses
          \/ \A q \in Process \ {p} :
               q \in OnAction(i) \cup OnEvent(e) => Overtaken(call[q], call'[q])
      BY <1>7, <1>8, <2>3, <2>4
    <2>6. \A q \in Process : CoachingCall(call[q])'
      BY <1>2, <1>8, <1>9, <2>3, <2>4, <2>5, CallsFollow
    <2>7. ASSUME NEW f \in Event, NEW j \in ActiveIn(action', f), NEW k \in ActiveIn(action', f)
          PROVE  j = k
      <3>1. j \in DOMAIN action /\ k \in DOMAIN action
        BY <2>4 DEF ActiveIn
      <3>2. CASE action[i].status \in ActiveStatuses \/ target \notin ActiveStatuses
        <4>1. j \in ActiveIn(action, f) /\ k \in ActiveIn(action, f)
          BY <2>3, <2>4, <3>1, <3>2 DEF ActiveIn
        <4>. QED BY <1>2, <4>1 DEF OneActive
      <3>3. CASE ActiveIn(action, e) = {}
        <4>1. CASE f = e
          BY <2>3, <2>4, <3>1, <3>3, <4>1 DEF ActiveIn
        <4>2. CASE f # e
          <5>1. j \in ActiveIn(action, f) /\ k \in ActiveIn(action, f)
            BY <2>3, <2>4, <3>1, <4>2 DEF ActiveIn
          <5>. QED BY <1>2, <5>1 DEF OneActive
        <4>. QED BY <4>1, <4>2
      <3>. QED BY <1>4, <2>1, <3>2, <3>3 DEF ActiveStatuses, Status
    <2>. QED BY <1>2, <1>3, <1>5, <1>8, <1>10, <2>4, <2>6, <2>7
         DEF CoachingOK, CoachingTypeOK, OneActive
  <1>. QED BY <1>11, <1>12

LEMMA CoachingStepKeeps ==
  ASSUME CallsOK, CoachingOK, CoachingStep
  PROVE  CallsOK' /\ Spares(CoachingCalls) /\ CoachingOK'
  <1>1. ASSUME NEW p \in Process, NEW by \in User, NEW u \in User \cup {None},
               NEW e \in Event \cup {None}, CreateAction(p, by, e, u)
        PROVE  CallsOK' /\ Spares(CoachingCalls) /\ CoachingOK'
    BY <1>1, CreateActionKeeps
  <1>2. ASSUME NEW p \in Process, NEW by \in User, NEW u \in User \cup {None},
               NEW e \in Event, ReviewWithCoaching(p, by, e, u)
        PROVE  CallsOK' /\ Spares(CoachingCalls) /\ CoachingOK'
    BY <1>2, ReviewWithCoachingKeeps
  <1>3. ASSUME NEW p \in Process, NEW by \in User, NEW u \in User \cup {None},
               NEW i \in DOMAIN action, UpdateAction(p, by, i, u)
        PROVE  CallsOK' /\ Spares(CoachingCalls) /\ CoachingOK'
    BY <1>3, UpdateActionKeeps
  <1>4. ASSUME NEW p \in Process, NEW by \in User, NEW i \in DOMAIN action,
               NEW target \in Status, Transition(p, by, i, target)
        PROVE  CallsOK' /\ Spares(CoachingCalls) /\ CoachingOK'
    BY <1>4, TransitionKeeps
  <1>5. ASSUME NEW e \in Event, NEW decision \in {"confirmed", "rejected", "uncertain"},
               NEW resolution \in {"none", "other"}, ReviewEvent(e, decision, resolution)
        PROVE  CallsOK' /\ Spares(CoachingCalls) /\ CoachingOK'
    BY <1>5, ReviewEventKeeps
  <1>6. ASSUME NEW p \in Process,
               \/ InsertAction(p) \/ CommitReview(p) \/ WriteUpdate(p)
               \/ WriteTransition(p) \/ AbortCoaching(p)
        PROVE  CallsOK' /\ Spares(CoachingCalls) /\ CoachingOK'
    BY <1>6, InsertActionKeeps, CommitReviewKeeps, WriteUpdateKeeps, WriteTransitionKeeps,
       AbortCoachingKeeps
  <1>. QED BY <1>1, <1>2, <1>3, <1>4, <1>5, <1>6 DEF CoachingStep

(* A review commits with one active action of its event.                    *)
LEMMA ReviewAssigns ==
  ASSUME CallsOK, CoachingOK, CoachingStep, NEW p \in Process,
         call[p].op = "review", call'[p] = Idle, event' # event, ~call[p].stale
  PROVE  Cardinality(ActiveIn(action', call[p].event)) = 1
  <1>1. call'[p] # call[p]
    BY OpOf DEF Idle
  <1>2. PICK q \in Process : CommitReview(q)
    BY <1>1 DEF CoachingStep, CreateAction, ReviewWithCoaching, UpdateAction, Transition,
                ReviewEvent, AtOnce, InsertAction, WriteUpdate, WriteTransition,
                AbortCoaching, coachingVars
  <1>3. q = p
    BY <1>1, <1>2, CommitReviewKeeps
  <1>4. /\ CoachingOK' /\ call[p].event \in Event
        /\ ActiveIn(action', call[p].event) # {}
    BY <1>2, <1>3, CommitReviewKeeps
  <1>5. PICK e \in Event : e = call[p].event
    BY <1>4
  <1>6. PICK i : i \in ActiveIn(action', e)
    BY <1>4, <1>5
  <1>7. \A j \in ActiveIn(action', e) : j = i
    BY <1>4, <1>6 DEF CoachingOK, OneActive
  <1>8. ActiveIn(action', e) = {i}
    BY <1>6, <1>7
  <1>. QED BY <1>5, <1>8, FS_Singleton

(* Whoever writes an action that is finished has been overtaken.            *)
LEMMA FinishedStays ==
  ASSUME CallsOK, CoachingOK, CoachingStep, NEW i \in DOMAIN action,
         action[i].status \notin ActiveStatuses, action'[i] # action[i]
  PROVE  \E p \in OnAction(i) : call[p].stale /\ call'[p] = Idle
  <1>1. \A q \in Process : ~InsertAction(q) /\ ~CommitReview(q)
    <2>1. ASSUME NEW q \in Process, InsertAction(q)
          PROVE  FALSE
      <3>1. call[q] \in CreateCall /\ Insert(call[q])
        BY <2>1, CallOf DEF InsertAction
      <3>. QED BY <3>1, InsertKeeps DEF CoachingOK
    <2>. QED BY <2>1, CommitReviewKeeps
  <1>2. PICK q \in Process : WriteUpdate(q) \/ WriteTransition(q)
    BY <1>1 DEF CoachingStep, CreateAction, ReviewWithCoaching, UpdateAction, Transition,
                ReviewEvent, AbortCoaching, coachingVars
  <1>3. call[q].op \in {"update", "transition"} /\ call[q].row = i
    BY <1>2, WriteUpdateKeeps, WriteTransitionKeeps DEF WriteUpdate, WriteTransition
  <1>4. call'[q] = Idle
    BY <1>2 DEF WriteUpdate, WriteTransition, Commit
  <1>5. call[q].stale
    <2>1. CoachingCall(call[q]) /\ call[q].stale \in BOOLEAN
      BY <1>3, CallOf DEF CoachingOK, UpdateCall, TransitionCall
    <2>. QED BY <1>3, <2>1 DEF CoachingCall
  <1>. QED BY <1>3, <1>4, <1>5 DEF OnAction

-----------------------------------------------------------------------------
(* Webhooks.  A delivery is claimed by one batch at most and is pending as  *)
(* long; its receiver has seen what the row and the batches that died       *)
(* account for, and one post more when a batch has one that arrived.        *)
PostRow == [received : Nat, forgotten : Nat, earlier : Nat]

Claims(c, d) == c.op = "deliver" /\ d \in DOMAIN c.result

HasArrived(c, d) == Claims(c, d) /\ c.result[d] \in Arrived

Counted(row, post) ==
  row.attempts + (IF row.status = "delivered" THEN 1 ELSE 0) + post.earlier + post.forgotten

Settled(row, post, open) ==
  row.status # "gone" =>
    /\ post.received <= Counted(row, post) + (IF open THEN 1 ELSE 0)
    /\ row.status = "delivered" => post.received > 0
    /\ row.status = "dead_letter" <=> row.attempts = MaxAttempts

InBatch(d) == \E p \in Process : HasArrived(call[p], d)

WebhookCall(c) ==
  \A d : Claims(c, d) => /\ d \in DOMAIN delivery
                         /\ delivery[d].status = "pending"
                         /\ c.result[d] \in Arrived => posts[d].received > 0

OneClaim == \A p, q \in Process : \A d : Claims(call[p], d) /\ Claims(call[q], d) => p = q

WebhooksOK ==
  /\ WebhooksTypeOK
  /\ DOMAIN posts = DOMAIN delivery
  /\ \A d \in DOMAIN delivery : Settled(delivery[d], posts[d], InBatch(d))
  /\ \A p \in Process : WebhookCall(call[p])
  /\ OneClaim

LEMMA NoClaim == \A c, d : c.op # "deliver" => ~Claims(c, d) /\ ~HasArrived(c, d)
  BY DEF Claims, HasArrived

LEMMA DeliveryRows ==
  ASSUME WebhooksTypeOK, DOMAIN posts = DOMAIN delivery
  PROVE  /\ DOMAIN delivery = 1..Len(delivery) /\ Len(delivery) \in Nat
         /\ Len(posts) = Len(delivery)
         /\ \A d \in DOMAIN delivery : delivery[d] \in DeliveryRow /\ posts[d] \in PostRow
  <1>1. delivery \in Seq(DeliveryRow) /\ posts \in Seq(PostRow)
    BY DEF WebhooksTypeOK, PostRow
  <1>2. /\ DOMAIN delivery = 1..Len(delivery) /\ Len(delivery) \in Nat
        /\ DOMAIN posts = 1..Len(posts) /\ Len(posts) \in Nat
    BY <1>1, LenProperties
  <1>3. \A d \in DOMAIN delivery : delivery[d] \in DeliveryRow /\ posts[d] \in PostRow
    BY <1>1, <1>2, ElementOfSeq
  <1>. QED BY <1>2, <1>3

(* What the deliveries have in common before each of the steps that follow. *)
LEMMA Deliveries ==
  ASSUME WebhooksOK
  PROVE  /\ WebhooksTypeOK /\ DOMAIN posts = DOMAIN delivery
         /\ DOMAIN delivery = 1..Len(delivery) /\ Len(delivery) \in Nat
         /\ \A d \in DOMAIN delivery : /\ delivery[d] \in DeliveryRow /\ posts[d] \in PostRow
                                       /\ Settled(delivery[d], posts[d], InBatch(d))
         /\ \A q \in Process : WebhookCall(call[q])
         /\ OneClaim
  BY DeliveryRows DEF WebhooksOK

(* A step of the others.                                                    *)
LEMMA WebhooksFrame ==
  ASSUME CallsOK, WebhooksOK, NEW own, Spares(own), UNCHANGED webhookVars,
         own \subseteq CoachingCalls \cup EvidenceCalls
  PROVE  WebhooksOK'
  <1>1. \A q \in Process :
          \/ call'[q] = call[q]
          \/ call[q].op # "deliver" /\ call'[q].op # "deliver"
    BY OpOf DEF Spares
  <1>2. \A q \in Process : \A d :
          /\ Claims(call'[q], d) => call'[q] = call[q] /\ Claims(call[q], d)
          /\ HasArrived(call'[q], d) <=> HasArrived(call[q], d)
    BY <1>1, NoClaim
  <1>3. \A d : InBatch(d)' <=> InBatch(d)
    BY <1>2 DEF InBatch
  <1>4. OneClaim'
    BY <1>2 DEF WebhooksOK, OneClaim
  <1>5. \A q \in Process : WebhookCall(call[q])'
    BY <1>2 DEF WebhooksOK, WebhookCall, webhookVars
  <1>6. \A d \in DOMAIN delivery : Settled(delivery'[d], posts'[d], InBatch(d)')
    BY <1>3 DEF WebhooksOK, webhookVars, Settled
  <1>. QED BY <1>4, <1>5, <1>6 DEF WebhooksOK, WebhooksTypeOK, webhookVars

(* Rules, endpoints and notices have no part in it.                         *)
LEMMA QuietKeeps ==
  ASSUME CallsOK, WebhooksOK, UNCHANGED <<call, delivery, posts>>, WebhooksTypeOK'
  PROVE  CallsOK' /\ Spares(WebhookCalls) /\ WebhooksOK'
  <1>1. \A d : InBatch(d)' <=> InBatch(d)
    BY DEF InBatch
  <1>2. \A d \in DOMAIN delivery : Settled(delivery'[d], posts'[d], InBatch(d)')
    BY <1>1 DEF WebhooksOK, Settled
  <1>3. OneClaim' /\ \A q \in Process : WebhookCall(call[q])'
    BY DEF WebhooksOK, OneClaim, WebhookCall
  <1>. QED BY <1>2, <1>3, NoneMoved DEF WebhooksOK

LEMMA CreateRuleKeeps ==
  ASSUME CallsOK, WebhooksOK, NEW min \in Severity,
         NEW channels \in SUBSET {"in_app", "webhook"}, CreateRule(min, channels)
  PROVE  CallsOK' /\ Spares(WebhookCalls) /\ WebhooksOK'
  <1>1. [min |-> min, channels |-> channels] \in RuleRow
    BY DEF RuleRow
  <1>2. rules' \in Seq(RuleRow)
    BY <1>1, AppendProperties DEF CreateRule, WebhooksOK, WebhooksTypeOK
  <1>3. WebhooksTypeOK' /\ UNCHANGED <<call, delivery, posts>>
    BY <1>2 DEF CreateRule, AtOnce, WebhooksOK, WebhooksTypeOK
  <1>. QED BY <1>3, QuietKeeps

LEMMA HookKeeps ==
  ASSUME CallsOK, WebhooksOK, NEW h \in Endpoint,
         \/ CreateWebhook(h)
         \/ \E status \in {"active", "inactive"} : UpdateWebhook(h, status)
  PROVE  CallsOK' /\ Spares(WebhookCalls) /\ WebhooksOK'
  <1>1. WebhooksTypeOK' /\ UNCHANGED <<call, delivery, posts>>
    BY DEF CreateWebhook, UpdateWebhook, AtOnce, WebhooksOK, WebhooksTypeOK
  <1>. QED BY <1>1, QuietKeeps

LEMMA MarkReadKeeps ==
  ASSUME CallsOK, WebhooksOK, NEW n \in DOMAIN notices, MarkRead(n)
  PROVE  CallsOK' /\ Spares(WebhookCalls) /\ WebhooksOK'
  <1>1. notices \in Seq(BOOLEAN) /\ DOMAIN notices = 1..Len(notices)
    BY LenProperties DEF WebhooksOK, WebhooksTypeOK
  <1>2. notices' \in Seq(BOOLEAN)
    BY <1>1, ExceptSeq DEF MarkRead
  <1>3. WebhooksTypeOK' /\ UNCHANGED <<call, delivery, posts>>
    BY <1>2 DEF MarkRead, AtOnce, WebhooksOK, WebhooksTypeOK
  <1>. QED BY <1>3, QuietKeeps

LEMMA FunctionIsSeq ==
  ASSUME NEW S, NEW n \in Nat, NEW f \in [1..n -> S]
  PROVE  f \in Seq(S) /\ Len(f) = n
  <1>1. f \in Seq(S)
    BY SeqDef
  <1>2. 1..Len(f) = 1..n /\ Len(f) \in Nat
    BY <1>1, LenProperties
  <1>. QED BY <1>1, <1>2

(* A sequence made longer.                                                  *)
LEMMA Lengthened ==
  ASSUME NEW S, NEW s \in Seq(S), NEW f \in Seq(S)
  PROVE  /\ s \o f \in Seq(S)
         /\ DOMAIN (s \o f) = 1..(Len(s) + Len(f))
         /\ \A i \in DOMAIN s : i \in DOMAIN (s \o f) /\ (s \o f)[i] = s[i]
         /\ \A i \in DOMAIN (s \o f) \ DOMAIN s : \E j \in 1..Len(f) : (s \o f)[i] = f[j]
  <1>1. PICK t : t = s \o f
    OBVIOUS
  <1>2. /\ t \in Seq(S) /\ Len(t) = Len(s) + Len(f)
        /\ \A i \in 1..Len(s) + Len(f) : t[i] = IF i <= Len(s) THEN s[i] ELSE f[i - Len(s)]
    BY <1>1, ConcatProperties
  <1>3. /\ Len(s) \in Nat /\ Len(f) \in Nat
        /\ DOMAIN s = 1..Len(s) /\ DOMAIN t = 1..(Len(s) + Len(f))
    BY <1>2, LenProperties
  <1>4. \A i \in DOMAIN s : i \in DOMAIN t /\ t[i] = s[i]
    BY <1>2, <1>3
  <1>5. ASSUME NEW i \in DOMAIN t \ DOMAIN s
        PROVE  \E j \in 1..Len(f) : t[i] = f[j]
    <2>1. i - Len(s) \in 1..Len(f) /\ ~(i <= Len(s))
      BY <1>3
    <2>. QED BY <1>2, <1>3, <2>1
  <1>. QED BY <1>1, <1>2, <1>3, <1>4, <1>5

LEMMA DeliveryQueued ==
  ASSUME delivery \in Seq(DeliveryRow), NEW f \in Seq(DeliveryRow), delivery' = delivery \o f
  PROVE  /\ delivery' \in Seq(DeliveryRow) /\ DOMAIN delivery' = 1..(Len(delivery) + Len(f))
         /\ \A d \in DOMAIN delivery : d \in DOMAIN delivery' /\ delivery'[d] = delivery[d]
         /\ \A d \in DOMAIN delivery' \ DOMAIN delivery : \E i \in 1..Len(f) : delivery'[d] = f[i]
  BY Lengthened

LEMMA PostsQueued ==
  ASSUME posts \in Seq(PostRow), NEW f \in Seq(PostRow), posts' = posts \o f
  PROVE  /\ posts' \in Seq(PostRow) /\ DOMAIN posts' = 1..(Len(posts) + Len(f))
         /\ \A d \in DOMAIN posts : d \in DOMAIN posts' /\ posts'[d] = posts[d]
         /\ \A d \in DOMAIN posts' \ DOMAIN posts : \E i \in 1..Len(f) : posts'[d] = f[i]
  BY Lengthened

(* New deliveries are pending, and nothing has been posted of them.         *)
LEMMA QueueEffect ==
  ASSUME WebhooksOK, NEW n \in Nat, NEW hs \in [1..n -> Endpoint], Queue(hs)
  PROVE  /\ delivery' \in Seq(DeliveryRow) /\ posts' \in Seq(PostRow)
         /\ DOMAIN posts' = DOMAIN delivery'
         /\ \A d \in DOMAIN delivery : /\ d \in DOMAIN delivery'
                                       /\ delivery'[d] = delivery[d] /\ posts'[d] = posts[d]
         /\ \A d \in DOMAIN delivery' \ DOMAIN delivery :
              /\ delivery'[d].status = "pending" /\ delivery'[d].attempts = 0
              /\ posts'[d].received = 0 /\ posts'[d].forgotten = 0 /\ posts'[d].earlier = 0
  <1>1. PICK ds \in [1..n -> DeliveryRow] :
          /\ ds = [i \in 1..n |-> [endpoint |-> hs[i], attempts |-> 0, due |-> TRUE,
                                   status |-> "pending"]]
          /\ \A i \in 1..n : ds[i].status = "pending" /\ ds[i].attempts = 0
    <2> DEFINE row(i) == [endpoint |-> hs[i], attempts |-> 0, due |-> TRUE,
                          status |-> "pending"]
    <2>1. \A i \in 1..n : /\ row(i) \in DeliveryRow /\ row(i).status = "pending"
                          /\ row(i).attempts = 0
      BY WebhooksAssumption DEF DeliveryRow
    <2> HIDE DEF row
    <2>2. [i \in 1..n |-> row(i)] \in [1..n -> DeliveryRow]
      BY <2>1
    <2>3. \A i \in 1..n : [j \in 1..n |-> row(j)][i] = row(i)
      OBVIOUS
    <2>4. \E ds \in [1..n -> DeliveryRow] :
            /\ ds = [i \in 1..n |-> row(i)]
            /\ \A i \in 1..n : ds[i].status = "pending" /\ ds[i].attempts = 0
      BY <2>1, <2>2, <2>3
    <2>. QED BY <2>4 DEF row
  <1>2. PICK ps \in [1..n -> PostRow] :
          /\ ps = [i \in 1..n |-> [received |-> 0, forgotten |-> 0, earlier |-> 0]]
          /\ \A i \in 1..n : ps[i].received = 0 /\ ps[i].forgotten = 0 /\ ps[i].earlier = 0
    <2> PICK none : none = [received |-> 0, forgotten |-> 0, earlier |-> 0]
      OBVIOUS
    <2>1. /\ none \in PostRow /\ none = [received |-> 0, forgotten |-> 0, earlier |-> 0]
          /\ none.received = 0 /\ none.forgotten = 0 /\ none.earlier = 0
      BY DEF PostRow
    <2> DEFINE f == [i \in 1..n |-> none]
    <2>2. f \in [1..n -> PostRow]
      BY <2>1
    <2>3. \A i \in 1..n : f[i] = none
      OBVIOUS
    <2>4. \A i \in 1..n : f[i].received = 0 /\ f[i].forgotten = 0 /\ f[i].earlier = 0
      BY <2>1, <2>3
    <2>5. f = [i \in 1..n |-> [received |-> 0, forgotten |-> 0, earlier |-> 0]]
      BY <2>1
    <2> HIDE DEF f
    <2>. QED BY <2>2, <2>4, <2>5
  <1>3. delivery' = delivery \o ds /\ posts' = posts \o ps
    <2>1. DOMAIN hs = 1..n
      OBVIOUS
    <2>. QED BY <1>1, <1>2, <2>1 DEF Queue
  <1>4. /\ delivery \in Seq(DeliveryRow) /\ posts \in Seq(PostRow)
        /\ DOMAIN posts = DOMAIN delivery /\ WebhooksTypeOK
        /\ \A d \in DOMAIN delivery : Settled(delivery[d], posts[d], InBatch(d))
        /\ OneClaim /\ \A q \in Process : WebhookCall(call[q])
    BY DEF WebhooksOK, WebhooksTypeOK, PostRow
  <1>5. Len(posts) = Len(delivery)
    BY <1>4, DeliveryRows
  <1>6. /\ delivery' \in Seq(DeliveryRow) /\ DOMAIN delivery' = 1..(Len(delivery) + n)
        /\ \A d \in DOMAIN delivery : d \in DOMAIN delivery' /\ delivery'[d] = delivery[d]
        /\ \A d \in DOMAIN delivery' \ DOMAIN delivery : \E i \in 1..n : delivery'[d] = ds[i]
    <2>1. ds \in Seq(DeliveryRow) /\ Len(ds) = n
      BY <1>1, FunctionIsSeq
    <2>2. delivery \in Seq(DeliveryRow) /\ delivery' = delivery \o ds
      BY <1>3, <1>4
    <2>3. /\ delivery' \in Seq(DeliveryRow)
          /\ DOMAIN delivery' = 1..(Len(delivery) + Len(ds))
          /\ \A d \in DOMAIN delivery : d \in DOMAIN delivery' /\ delivery'[d] = delivery[d]
          /\ \A d \in DOMAIN delivery' \ DOMAIN delivery : \E i \in 1..Len(ds) : delivery'[d] = ds[i]
      BY <2>1, <2>2, DeliveryQueued
    <2>. QED BY <2>1, <2>3
  <1>7. /\ posts' \in Seq(PostRow) /\ DOMAIN posts' = 1..(Len(posts) + n)
        /\ \A d \in DOMAIN posts : d \in DOMAIN posts' /\ posts'[d] = posts[d]
        /\ \A d \in DOMAIN posts' \ DOMAIN posts : \E i \in 1..n : posts'[d] = ps[i]
    <2>1. ps \in Seq(PostRow) /\ Len(ps) = n
      BY <1>2, FunctionIsSeq
    <2>2. posts \in Seq(PostRow) /\ posts' = posts \o ps
      BY <1>3, <1>4
    <2>3. /\ posts' \in Seq(PostRow)
          /\ DOMAIN posts' = 1..(Len(posts) + Len(ps))
          /\ \A d \in DOMAIN posts : d \in DOMAIN posts' /\ posts'[d] = posts[d]
          /\ \A d \in DOMAIN posts' \ DOMAIN posts : \E i \in 1..Len(ps) : posts'[d] = ps[i]
      BY <2>1, <2>2, PostsQueued
    <2>. QED BY <2>1, <2>3
  <1>9. DOMAIN posts' = DOMAIN delivery'
    BY <1>5, <1>6, <1>7
  <1>10. \A d \in DOMAIN delivery : /\ d \in DOMAIN delivery'
                                    /\ delivery'[d] = delivery[d] /\ posts'[d] = posts[d]
    BY <1>4, <1>6, <1>7
  <1>11. \A d \in DOMAIN delivery' \ DOMAIN delivery :
           /\ delivery'[d].status = "pending" /\ delivery'[d].attempts = 0
           /\ posts'[d].received = 0 /\ posts'[d].forgotten = 0 /\ posts'[d].earlier = 0
    BY <1>1, <1>2, <1>4, <1>6, <1>7, <1>9
  <1>. QED BY <1>6, <1>7, <1>9, <1>10, <1>11

LEMMA QueueKeeps ==
  ASSUME CallsOK, WebhooksOK, NEW n \in Nat, NEW hs \in [1..n -> Endpoint], Queue(hs),
         UNCHANGED call, UNCHANGED <<rules, hook>>, notices' \in Seq(BOOLEAN)
  PROVE  CallsOK' /\ Spares(WebhookCalls) /\ WebhooksOK'
  <1>1. /\ delivery' \in Seq(DeliveryRow) /\ posts' \in Seq(PostRow)
        /\ DOMAIN posts' = DOMAIN delivery'
        /\ \A d \in DOMAIN delivery : /\ d \in DOMAIN delivery'
                                      /\ delivery'[d] = delivery[d] /\ posts'[d] = posts[d]
        /\ \A d \in DOMAIN delivery' \ DOMAIN delivery :
             /\ delivery'[d].status = "pending" /\ delivery'[d].attempts = 0
             /\ posts'[d].received = 0 /\ posts'[d].forgotten = 0 /\ posts'[d].earlier = 0
    BY QueueEffect
  <1>2. /\ WebhooksTypeOK /\ OneClaim
        /\ \A d \in DOMAIN delivery : Settled(delivery[d], posts[d], InBatch(d))
        /\ \A q \in Process : WebhookCall(call[q])
    BY DEF WebhooksOK
  <1>3. \A d : InBatch(d)' <=> InBatch(d)
    BY DEF InBatch
  <1>4. ASSUME NEW d \in DOMAIN delivery'
        PROVE  Settled(delivery'[d], posts'[d], InBatch(d)')
    <2>1. CASE d \in DOMAIN delivery
      BY <1>1, <1>2, <1>3, <2>1 DEF Settled
    <2>2. CASE d \notin DOMAIN delivery
      BY <1>1, <2>2, WebhooksAssumption DEF Settled, Counted
    <2>. QED BY <2>1, <2>2
  <1>5. \A q \in Process : WebhookCall(call[q])'
    BY <1>1, <1>2 DEF WebhookCall
  <1>6. OneClaim' /\ WebhooksTypeOK'
    BY <1>1, <1>2 DEF OneClaim, WebhooksTypeOK, PostRow
  <1>. QED BY <1>1, <1>4, <1>5, <1>6, NoneMoved DEF WebhooksOK

LEMMA SendTestKeeps ==
  ASSUME CallsOK, WebhooksOK, NEW h \in Endpoint, SendTest(h)
  PROVE  CallsOK' /\ Spares(WebhookCalls) /\ WebhooksOK'
  <1>1. PICK n \in Nat : n = 1
    OBVIOUS
  <1>2. PICK hs \in [1..n -> Endpoint] : hs = <<h>>
    <2>1. <<h>> \in [1..1 -> Endpoint]
      OBVIOUS
    <2>. QED BY <1>1, <2>1
  <1>3. Queue(hs) /\ UNCHANGED call /\ UNCHANGED <<rules, hook>> /\ notices' \in Seq(BOOLEAN)
    BY <1>2 DEF SendTest, AtOnce, WebhooksOK, WebhooksTypeOK
  <1>. QED BY <1>3, QueueKeeps

(* Once for each rule.                                                      *)
LEMMA TimesTyped ==
  ASSUME NEW k \in Nat, NEW n \in Nat, NEW hs \in [1..n -> Endpoint]
  PROVE  k * n \in Nat /\ Times(k, hs) \in [1..(k * n) -> Endpoint]
  <1>1. k * n \in Nat
    OBVIOUS
  <1>2. Len(hs) = n
    BY FunctionIsSeq
  <1>3. ASSUME NEW i \in 1..(k * n)
        PROVE  hs[((i - 1) % n) + 1] \in Endpoint
    <2>1. n > 0
      <3>1. n = 0 => k * n = 0
        OBVIOUS
      <3>. QED BY <1>1, <3>1
    <2>2. i - 1 \in Int
      OBVIOUS
    <2>3. (i - 1) % n \in 0..(n - 1)
      BY <2>1, <2>2
    <2>4. ((i - 1) % n) + 1 \in 1..n
      BY <2>3
    <2>. QED BY <2>4
  <1>. QED BY <1>1, <1>2, <1>3 DEF Times

LEMMA QueuedBySafetyEvent ==
  ASSUME WebhooksOK, NEW severity \in Severity, NEW n \in Nat,
         NEW hs \in [1..n -> Endpoint], OnSafetyEvent(severity, hs)
  PROVE  /\ UNCHANGED call /\ UNCHANGED <<rules, hook>>
         /\ \E k \in Nat : Queue(Times(k, hs))
         /\ \E l \in Nat : notices' = notices \o [i \in 1..l |-> FALSE]
  <1> DEFINE reached(c) == {r \in DOMAIN rules : /\ severity >= rules[r].min
                                                 /\ c \in rules[r].channels}
  <1>1. \A c : Cardinality(reached(c)) \in Nat
    <2>1. DOMAIN rules = 1..Len(rules) /\ Len(rules) \in Nat
      BY LenProperties DEF WebhooksOK, WebhooksTypeOK
    <2>2. IsFiniteSet(DOMAIN rules)
      BY <2>1, FS_Interval
    <2>3. \A c : reached(c) \subseteq DOMAIN rules
      OBVIOUS
    <2> HIDE DEF reached
    <2>. QED BY <2>2, <2>3, FS_Subset, FS_CardinalityType
  <1>2. PICK k \in Nat : k = Cardinality(reached("webhook"))
    BY <1>1
  <1>3. PICK l \in Nat : l = Cardinality(reached("in_app"))
    BY <1>1
  <1>4. /\ UNCHANGED call /\ UNCHANGED <<rules, hook>>
        /\ notices' = notices \o [i \in 1..l |-> FALSE]
        /\ Queue(Times(k, hs))
    BY <1>2, <1>3 DEF OnSafetyEvent, AtOnce
  <1>. QED BY <1>4

LEMMA OnSafetyEventKeeps ==
  ASSUME CallsOK, WebhooksOK, NEW severity \in Severity, NEW n \in Nat,
         NEW hs \in [1..n -> Endpoint], OnSafetyEvent(severity, hs)
  PROVE  CallsOK' /\ Spares(WebhookCalls) /\ WebhooksOK'
  <1>1. /\ UNCHANGED call /\ UNCHANGED <<rules, hook>>
        /\ \E k \in Nat : Queue(Times(k, hs))
        /\ \E l \in Nat : notices' = notices \o [i \in 1..l |-> FALSE]
    BY QueuedBySafetyEvent
  <1>2. PICK k \in Nat : Queue(Times(k, hs))
    BY <1>1
  <1>3. PICK l \in Nat : notices' = notices \o [i \in 1..l |-> FALSE]
    BY <1>1
  <1>4. notices' \in Seq(BOOLEAN)
    <2>1. [i \in 1..l |-> FALSE] \in [1..l -> BOOLEAN]
      OBVIOUS
    <2>2. PICK f \in Seq(BOOLEAN) : f = [i \in 1..l |-> FALSE]
      BY <2>1, FunctionIsSeq
    <2>3. notices \in Seq(BOOLEAN)
      BY DEF WebhooksOK, WebhooksTypeOK
    <2>. QED BY <1>3, <2>2, <2>3, ConcatProperties
  <1>5. PICK m \in Nat : m = k * n /\ Times(k, hs) \in [1..m -> Endpoint]
    BY TimesTyped
  <1>. QED BY <1>1, <1>2, <1>4, <1>5, QueueKeeps

(* One request on deliveries moves.                                         *)
LEMMA WebhookMoved ==
  ASSUME CallsOK, NEW p \in Process, NEW c, call' = [call EXCEPT ![p] = c],
         call[p] \in {Idle} \cup WebhookCalls, c \in {Idle} \cup WebhookCalls
  PROVE  /\ CallsOK' /\ Spares(WebhookCalls)
         /\ call'[p] = c /\ \A q \in Process : q # p => call'[q] = call[q]
         /\ \A d : InBatch(d)' <=> \/ HasArrived(c, d)
                                   \/ \E q \in Process \ {p} : HasArrived(call[q], d)
         /\ \A d : InBatch(d) <=> \/ HasArrived(call[p], d)
                                  \/ \E q \in Process \ {p} : HasArrived(call[q], d)
  <1>1. /\ CallsOK' /\ Spares(WebhookCalls)
        /\ call'[p] = c /\ \A q \in Process : q # p => call'[q] = call[q]
    BY Moved1
  <1>. QED BY <1>1 DEF InBatch

LEMMA DeleteWebhookKeeps ==
  ASSUME CallsOK, WebhooksOK, NEW p \in Process, NEW h \in Endpoint, DeleteWebhook(p, h)
  PROVE  CallsOK' /\ Spares(WebhookCalls) /\ WebhooksOK'
  <1> DEFINE c == [op |-> "delete_webhook", row |-> h]
  <1>1. call[p] = Idle /\ call' = [call EXCEPT ![p] = c] /\ UNCHANGED webhookVars
    BY DEF DeleteWebhook, Begin
  <1>2. c \in DeleteCall /\ c.op = "delete_webhook"
    BY DEF DeleteCall
  <1> HIDE DEF c
  <1>3. /\ CallsOK' /\ Spares(WebhookCalls)
        /\ call'[p] = c /\ \A q \in Process : q # p => call'[q] = call[q]
        /\ \A d : InBatch(d)' <=> \/ HasArrived(c, d)
                                  \/ \E q \in Process \ {p} : HasArrived(call[q], d)
        /\ \A d : InBatch(d) <=> \/ HasArrived(call[p], d)
                                 \/ \E q \in Process \ {p} : HasArrived(call[q], d)
    BY <1>1, <1>2, WebhookMoved DEF WebhookCalls
  <1>4. \A d : ~Claims(c, d) /\ ~HasArrived(c, d) /\ ~HasArrived(call[p], d)
    BY <1>1, <1>2, NoClaim DEF Idle
  <1>5. \A d : InBatch(d)' <=> InBatch(d)
    BY <1>3, <1>4
  <1>6. \A d \in DOMAIN delivery : Settled(delivery'[d], posts'[d], InBatch(d)')
    BY <1>1, <1>5 DEF WebhooksOK, webhookVars, Settled
  <1>7. OneClaim'
    BY <1>3, <1>4 DEF WebhooksOK, OneClaim
  <1>8. \A q \in Process : WebhookCall(call[q])'
    BY <1>1, <1>3, <1>4 DEF WebhooksOK, WebhookCall, webhookVars
  <1>. QED BY <1>1, <1>3, <1>6, <1>7, <1>8 DEF WebhooksOK, WebhooksTypeOK, webhookVars

LEMMA DeliverPendingEffect ==
  ASSUME CallsOK, WebhooksOK, NEW p \in Process, NEW batch \in SUBSET Unclaimed,
         DeliverPending(p, batch)
  PROVE  /\ CallsOK' /\ Spares(WebhookCalls) /\ UNCHANGED webhookVars
         /\ \A q \in Process : q # p => call'[q] = call[q]
         /\ \A d : Claims(call'[p], d) <=> d \in batch
         /\ \A d : ~HasArrived(call'[p], d)
         /\ \A d : InBatch(d)' <=> InBatch(d)
         /\ \A d \in batch : /\ d \in DOMAIN delivery /\ delivery[d].status = "pending"
                              /\ \A q \in Process : ~Claims(call[q], d)
  <1>1. batch \subseteq DOMAIN delivery /\ batch \subseteq Nat
        /\ \A d \in batch : /\ delivery[d].status = "pending"
                            /\ \A q \in Process : ~Claims(call[q], d)
    BY DeliveryRows DEF WebhooksOK, Unclaimed, Due, Claimed, Doing, Claims
  <1>2. PICK r \in [batch -> Outcome \cup {"unsent"}] :
          r = [d \in batch |-> "unsent"] /\ \A d \in batch : r[d] = "unsent"
    <2> DEFINE r == [d \in batch |-> "unsent"]
    <2>1. r \in [batch -> Outcome \cup {"unsent"}] /\ \A d \in batch : r[d] = "unsent"
      OBVIOUS
    <2>2. r = [d \in batch |-> "unsent"]
      OBVIOUS
    <2> HIDE DEF r
    <2>. QED BY <2>1, <2>2
  <1>3. r \in Results
    BY <1>1 DEF Results
  <1> DEFINE c == [op |-> "deliver", result |-> r]
  <1>4. call[p] = Idle /\ call' = [call EXCEPT ![p] = c] /\ UNCHANGED webhookVars
    BY <1>2 DEF DeliverPending, Begin
  <1>5. c \in DeliverCall /\ c.op = "deliver" /\ c.result = r
    BY <1>3 DEF DeliverCall
  <1> HIDE DEF c
  <1>6. /\ CallsOK' /\ Spares(WebhookCalls)
        /\ call'[p] = c /\ \A q \in Process : q # p => call'[q] = call[q]
        /\ \A d : InBatch(d)' <=> \/ HasArrived(c, d)
                                  \/ \E q \in Process \ {p} : HasArrived(call[q], d)
        /\ \A d : InBatch(d) <=> \/ HasArrived(call[p], d)
                                 \/ \E q \in Process \ {p} : HasArrived(call[q], d)
    BY <1>4, <1>5, WebhookMoved DEF WebhookCalls
  <1>7. \A d : Claims(c, d) <=> d \in batch
    BY <1>2, <1>5 DEF Claims
  <1>8. \A d \in batch : c.result[d] \notin Arrived
    BY <1>2, <1>5 DEF Arrived, Outcome
  <1>9. \A d : ~HasArrived(c, d) /\ ~HasArrived(call[p], d)
    BY <1>4, <1>7, <1>8, NoClaim DEF Idle, HasArrived
  <1>10. \A d : InBatch(d)' <=> InBatch(d)
    BY <1>6, <1>9
  <1>. QED BY <1>1, <1>4, <1>6, <1>7, <1>9, <1>10

LEMMA DeliverPendingKeeps ==
  ASSUME CallsOK, WebhooksOK, NEW p \in Process, NEW batch \in SUBSET Unclaimed,
         DeliverPending(p, batch)
  PROVE  CallsOK' /\ Spares(WebhookCalls) /\ WebhooksOK'
  <1>1. /\ CallsOK' /\ Spares(WebhookCalls) /\ UNCHANGED webhookVars
        /\ \A q \in Process : q # p => call'[q] = call[q]
        /\ \A d : Claims(call'[p], d) <=> d \in batch
        /\ \A d : ~HasArrived(call'[p], d)
        /\ \A d : InBatch(d)' <=> InBatch(d)
        /\ \A d \in batch : /\ d \in DOMAIN delivery /\ delivery[d].status = "pending"
                             /\ \A q \in Process : ~Claims(call[q], d)
    BY DeliverPendingEffect
  <1>2. \A d \in DOMAIN delivery : Settled(delivery'[d], posts'[d], InBatch(d)')
    BY <1>1 DEF WebhooksOK, webhookVars, Settled
  <1>3. OneClaim'
    BY <1>1 DEF WebhooksOK, OneClaim
  <1>4. ASSUME NEW q \in Process
        PROVE  WebhookCall(call[q])'
    <2>1. CASE q = p
      BY <1>1, <2>1 DEF WebhookCall, HasArrived, webhookVars
    <2>2. CASE q # p
      BY <1>1, <2>2 DEF WebhooksOK, WebhookCall, webhookVars
    <2>. QED BY <2>1, <2>2
  <1>. QED BY <1>1, <1>2, <1>3, <1>4 DEF WebhooksOK, WebhooksTypeOK, webhookVars

(* What came of one delivery.                                               *)
LEMMA SendOneEffect ==
  ASSUME CallsOK, WebhooksOK, NEW p \in Process, NEW d \in DOMAIN delivery,
         NEW outcome \in Outcome, SendOne(p, d, outcome)
  PROVE  /\ CallsOK' /\ Spares(WebhookCalls) /\ Claims(call[p], d)
         /\ UNCHANGED <<rules, hook, notices, delivery>>
         /\ \A q \in Process : q # p => call'[q] = call[q] /\ ~Claims(call[q], d)
         /\ \A k : Claims(call'[p], k) <=> Claims(call[p], k)
         /\ \A k : k # d => (HasArrived(call'[p], k) <=> HasArrived(call[p], k))
         /\ HasArrived(call'[p], d) <=> outcome \in Arrived
         /\ ~InBatch(d)
         /\ InBatch(d)' <=> outcome \in Arrived
         /\ \A k : k # d => (InBatch(k)' <=> InBatch(k))
         /\ posts' \in Seq(PostRow) /\ DOMAIN posts' = DOMAIN posts
         /\ \A k \in DOMAIN posts : k # d => posts'[k] = posts[k]
         /\ posts'[d].forgotten = posts[d].forgotten /\ posts'[d].earlier = posts[d].earlier
         /\ posts'[d].received = posts[d].received + (IF outcome \in Arrived THEN 1 ELSE 0)
  <1>1. /\ call[p].op = "deliver" /\ d \in DOMAIN call[p].result
        /\ call[p].result[d] = "unsent"
        /\ call' = [call EXCEPT ![p] = [call[p] EXCEPT !.result[d] = outcome]]
        /\ posts' = IF outcome \in Arrived
                      THEN [posts EXCEPT ![d].received = @ + 1] ELSE posts
        /\ UNCHANGED <<rules, hook, notices, delivery>>
    BY DEF SendOne, Continue
  <1>2. PICK D \in SUBSET Nat : call[p].result \in [D -> Outcome \cup {"unsent"}]
    BY <1>1, CallOf DEF DeliverCall, Results
  <1>3. PICK r \in [D -> Outcome \cup {"unsent"}] :
          /\ r = [call[p].result EXCEPT ![d] = outcome]
          /\ r[d] = outcome /\ \A k \in D : k # d => r[k] = call[p].result[k]
    <2> DEFINE r == [call[p].result EXCEPT ![d] = outcome]
    <2>1. d \in D
      BY <1>1, <1>2
    <2>2. /\ r \in [D -> Outcome \cup {"unsent"}]
          /\ r[d] = outcome /\ \A k \in D : k # d => r[k] = call[p].result[k]
      BY <1>2, <2>1
    <2>3. r = [call[p].result EXCEPT ![d] = outcome]
      OBVIOUS
    <2> HIDE DEF r
    <2>. QED BY <2>2, <2>3
  <1>4. PICK c : c = [call[p] EXCEPT !.result = r]
    OBVIOUS
  <1>5. c \in DeliverCall /\ c.op = "deliver" /\ c.result = r
    BY <1>1, <1>3, <1>4, CallOf DEF DeliverCall, Results
  <1>6. call' = [call EXCEPT ![p] = c]
    BY <1>1, <1>3, <1>4
  <1>7. /\ CallsOK' /\ Spares(WebhookCalls)
        /\ call'[p] = c /\ \A q \in Process : q # p => call'[q] = call[q]
        /\ \A k : InBatch(k)' <=> \/ HasArrived(c, k)
                                  \/ \E q \in Process \ {p} : HasArrived(call[q], k)
        /\ \A k : InBatch(k) <=> \/ HasArrived(call[p], k)
                                 \/ \E q \in Process \ {p} : HasArrived(call[q], k)
    BY <1>1, <1>5, <1>6, WebhookMoved, CallOf DEF WebhookCalls
  <1>8. \A k : Claims(c, k) <=> Claims(call[p], k)
    BY <1>1, <1>2, <1>3, <1>5 DEF Claims
  <1>9. \A k : k # d => (HasArrived(c, k) <=> HasArrived(call[p], k))
    BY <1>1, <1>2, <1>3, <1>5, <1>8 DEF HasArrived, Claims
  <1>10. \A q \in Process \ {p} : ~Claims(call[q], d)
    BY <1>1 DEF WebhooksOK, OneClaim, Claims
  <1>11. /\ ~InBatch(d) /\ (HasArrived(c, d) <=> outcome \in Arrived)
         /\ InBatch(d)' <=> outcome \in Arrived
         /\ \A k : k # d => (InBatch(k)' <=> InBatch(k))
    <2>1. "unsent" \notin Arrived
      BY DEF Arrived, Outcome
    <2>2. ~HasArrived(call[p], d) /\ (HasArrived(c, d) <=> outcome \in Arrived)
      BY <1>1, <1>3, <1>5, <1>8, <2>1 DEF HasArrived, Claims
    <2>. QED BY <1>7, <1>9, <1>10, <2>2 DEF HasArrived
  <1>12. /\ \A k \in DOMAIN delivery : delivery[k] \in DeliveryRow /\ posts[k] \in PostRow
         /\ DOMAIN posts = DOMAIN delivery /\ DOMAIN posts = 1..Len(posts)
         /\ posts \in Seq(PostRow)
    BY DeliveryRows DEF WebhooksOK, WebhooksTypeOK, PostRow
  <1>13. /\ posts' \in Seq(PostRow) /\ DOMAIN posts' = DOMAIN posts
         /\ \A k \in DOMAIN posts : k # d => posts'[k] = posts[k]
         /\ posts'[d].forgotten = posts[d].forgotten /\ posts'[d].earlier = posts[d].earlier
         /\ posts'[d].received = posts[d].received + (IF outcome \in Arrived THEN 1 ELSE 0)
    <2>1. CASE outcome \notin Arrived
      <3>1. posts' = posts /\ posts[d].received \in Nat
        BY <1>1, <1>12, <2>1 DEF PostRow
      <3>2. posts[d].received = posts[d].received + (IF outcome \in Arrived THEN 1 ELSE 0)
        BY <2>1, <3>1
      <3>. QED BY ONLY <1>12, <3>1, <3>2
    <2>2. CASE outcome \in Arrived
      <3> PICK n \in Nat : n = posts[d].received + 1
        BY <1>12 DEF PostRow
      <3>1. PICK x : x = [posts[d] EXCEPT !.received = n]
        OBVIOUS
      <3>2. /\ x \in PostRow /\ x.received = n
            /\ x.forgotten = posts[d].forgotten /\ x.earlier = posts[d].earlier
        BY <1>12, <3>1 DEF PostRow
      <3>3. posts' = [posts EXCEPT ![d] = x]
        BY <1>1, <1>12, <2>2, <3>1
      <3>4. /\ [posts EXCEPT ![d] = x] \in Seq(PostRow)
            /\ Len([posts EXCEPT ![d] = x]) = Len(posts)
        BY <1>12, <3>2, ExceptSeq
      <3>. QED BY <1>12, <2>2, <3>2, <3>3, <3>4
    <2>. QED BY <2>1, <2>2
  <1>14. Claims(call[p], d)
    BY <1>1 DEF Claims
  <1>. QED BY <1>1, <1>7, <1>8, <1>9, <1>10, <1>11, <1>13, <1>14

LEMMA SendOneKeeps ==
  ASSUME CallsOK, WebhooksOK, NEW p \in Process, NEW d \in DOMAIN delivery,
         NEW outcome \in Outcome, SendOne(p, d, outcome)
  PROVE  CallsOK' /\ Spares(WebhookCalls) /\ WebhooksOK'
  <1>1. /\ CallsOK' /\ Spares(WebhookCalls) /\ Claims(call[p], d)
        /\ UNCHANGED <<rules, hook, notices, delivery>>
        /\ \A q \in Process : q # p => call'[q] = call[q] /\ ~Claims(call[q], d)
        /\ \A k : Claims(call'[p], k) <=> Claims(call[p], k)
        /\ \A k : k # d => (HasArrived(call'[p], k) <=> HasArrived(call[p], k))
        /\ HasArrived(call'[p], d) <=> outcome \in Arrived
        /\ ~InBatch(d)
        /\ InBatch(d)' <=> outcome \in Arrived
        /\ \A k : k # d => (InBatch(k)' <=> InBatch(k))
        /\ posts' \in Seq(PostRow) /\ DOMAIN posts' = DOMAIN posts
        /\ \A k \in DOMAIN posts : k # d => posts'[k] = posts[k]
        /\ posts'[d].forgotten = posts[d].forgotten /\ posts'[d].earlier = posts[d].earlier
        /\ posts'[d].received = posts[d].received + (IF outcome \in Arrived THEN 1 ELSE 0)
    BY SendOneEffect
  <1>2. /\ \A k \in DOMAIN delivery : delivery[k] \in DeliveryRow /\ posts[k] \in PostRow
        /\ DOMAIN posts = DOMAIN delivery
        /\ \A k \in DOMAIN delivery : Settled(delivery[k], posts[k], InBatch(k))
        /\ \A q \in Process : WebhookCall(call[q])
        /\ OneClaim /\ WebhooksTypeOK
    BY Deliveries
  <1>3. delivery[d].status = "pending"
    BY <1>1, <1>2 DEF WebhookCall
  <1>4. ASSUME NEW k \in DOMAIN delivery
        PROVE  Settled(delivery'[k], posts'[k], InBatch(k)')
    <2>1. CASE k # d
      BY <1>1, <1>2, <2>1 DEF Settled
    <2>2. CASE k = d
      <3>1. PICK row \in DeliveryRow : row = delivery[d] /\ row = delivery'[d]
        BY <1>1, <1>2
      <3>2. PICK x \in Nat, f \in Nat, e \in Nat :
              x = posts[d].received /\ f = posts[d].forgotten /\ e = posts[d].earlier
        BY <1>2 DEF PostRow
      <3>3. row.attempts \in Nat
        BY WebhooksAssumption DEF DeliveryRow
      <3>4. /\ x <= row.attempts + e + f
            /\ row.attempts # MaxAttempts /\ row.status = "pending"
        <4>1. Settled(row, posts[d], InBatch(d)) /\ row.status = "pending"
          BY <1>2, <1>3, <3>1
        <4>2. Counted(row, posts[d]) = row.attempts + e + f
          BY <3>2, <3>3, <4>1 DEF Counted
        <4>3. (IF InBatch(d) THEN 1 ELSE 0) = 0
          BY <1>1
        <4>4. /\ posts[d].received <= Counted(row, posts[d]) + (IF InBatch(d) THEN 1 ELSE 0)
              /\ row.attempts # MaxAttempts
          BY <4>1 DEF Settled
        <4>. QED BY <3>2, <3>3, <4>1, <4>2, <4>3, <4>4
      <3>5. CASE outcome \in Arrived
        <4>1. /\ InBatch(d)' /\ posts'[d].received = x + 1
              /\ posts'[d].forgotten = f /\ posts'[d].earlier = e
          BY <1>1, <3>2, <3>5
        <4>. QED BY <2>2, <3>1, <3>2, <3>3, <3>4, <4>1 DEF Settled, Counted
      <3>6. CASE outcome \notin Arrived
        <4>1. /\ ~InBatch(d)' /\ posts'[d].received = x
              /\ posts'[d].forgotten = f /\ posts'[d].earlier = e
          BY <1>1, <3>2, <3>6
        <4>. QED BY <2>2, <3>1, <3>2, <3>3, <3>4, <4>1 DEF Settled, Counted
      <3>. QED BY <3>5, <3>6
    <2>. QED BY <2>1, <2>2
  <1>5. OneClaim'
    BY <1>1, <1>2 DEF OneClaim
  <1>6. ASSUME NEW q \in Process
        PROVE  WebhookCall(call[q])'
    <2>1. CASE q = p
      <3>1. \A k : Claims(call'[p], k) => k \in DOMAIN delivery /\ delivery[k].status = "pending"
        BY <1>1, <1>2 DEF WebhookCall
      <3>2. ASSUME NEW k, Claims(call'[p], k), call'[p].result[k] \in Arrived
            PROVE  posts'[k].received > 0
        <4>1. CASE k = d
          <5>1. posts[d].received \in Nat
            BY <1>2 DEF PostRow
          <5>2. HasArrived(call'[p], d)
            BY <3>2, <4>1 DEF HasArrived
          <5>. QED BY <1>1, <4>1, <5>1, <5>2
        <4>2. CASE k # d
          <5>1. HasArrived(call[p], k)
            BY <1>1, <3>2, <4>2 DEF HasArrived
          <5>. QED BY <1>1, <1>2, <4>2, <5>1 DEF HasArrived, WebhookCall
        <4>. QED BY <4>1, <4>2
      <3>. QED BY <1>1, <2>1, <3>1, <3>2 DEF WebhookCall
    <2>2. CASE q # p
      <3>1. WebhookCall(call[q]) /\ call'[q] = call[q] /\ ~Claims(call[q], d)
        BY <1>1, <1>2, <2>2
      <3>2. /\ delivery' = delivery /\ DOMAIN posts = DOMAIN delivery
            /\ \A k \in DOMAIN posts : k # d => posts'[k] = posts[k]
        BY <1>1, <1>2
      <3>. QED BY ONLY <3>1, <3>2 DEF WebhookCall
    <2>. QED BY <2>1, <2>2
  <1>7. WebhooksTypeOK' /\ DOMAIN posts' = DOMAIN delivery'
    BY <1>1, <1>2 DEF WebhooksOK, WebhooksTypeOK, PostRow
  <1>. QED BY <1>1, <1>4, <1>5, <1>6, <1>7 DEF WebhooksOK

LEMMA SentRow ==
  ASSUME NEW row \in DeliveryRow, row.status = "pending", row.attempts # MaxAttempts,
         NEW outcome \in Outcome, NEW post \in PostRow
  PROVE  /\ Sent(row, outcome) \in DeliveryRow
         /\ Counted(Sent(row, outcome), post) = Counted(row, post) + 1
         /\ Sent(row, outcome).status \in {"pending", "delivered", "dead_letter"}
         /\ Sent(row, outcome).status = "delivered" <=> outcome = "ok"
         /\ Sent(row, outcome).status = "dead_letter"
              <=> Sent(row, outcome).attempts = MaxAttempts
  <1>1. PICK n \in Nat : n = row.attempts /\ n < MaxAttempts /\ n + 1 \in 0..MaxAttempts
    BY WebhooksAssumption DEF DeliveryRow
  <1>2. MaxAttempts \in Nat /\ post.forgotten \in Nat /\ post.earlier \in Nat
    BY WebhooksAssumption DEF PostRow
  <1>3. CASE outcome = "ok"
    <2>1. PICK s : s = [row EXCEPT !.status = "delivered"]
      OBVIOUS
    <2>2. s \in DeliveryRow /\ s.status = "delivered" /\ s.attempts = n
      BY <1>1, <2>1 DEF DeliveryRow
    <2>3. Sent(row, outcome) = s
      BY <1>3, <2>1 DEF Sent
    <2>. QED BY <1>1, <1>2, <1>3, <2>2, <2>3 DEF Counted
  <1>4. CASE outcome # "ok" /\ n + 1 >= MaxAttempts
    <2>1. PICK s : s = [row EXCEPT !.attempts = n + 1, !.status = "dead_letter"]
      OBVIOUS
    <2>2. s \in DeliveryRow /\ s.status = "dead_letter" /\ s.attempts = n + 1
      BY <1>1, <2>1 DEF DeliveryRow
    <2>3. Sent(row, outcome) = s
      BY <1>1, <1>4, <2>1 DEF Sent, DeliveryRow
    <2>4. n + 1 = MaxAttempts
      BY <1>1, <1>2, <1>4
    <2>. QED BY <1>1, <1>2, <1>4, <2>2, <2>3, <2>4 DEF Counted
  <1>5. CASE outcome # "ok" /\ ~(n + 1 >= MaxAttempts)
    <2>1. PICK s : s = [row EXCEPT !.attempts = n + 1, !.due = FALSE]
      OBVIOUS
    <2>2. s \in DeliveryRow /\ s.status = "pending" /\ s.attempts = n + 1
      BY <1>1, <2>1 DEF DeliveryRow
    <2>3. Sent(row, outcome) = s
      BY <1>1, <1>5, <2>1 DEF Sent, DeliveryRow
    <2>4. n + 1 # MaxAttempts
      BY <1>1, <1>2, <1>5
    <2>. QED BY <1>1, <1>2, <1>5, <2>2, <2>3, <2>4 DEF Counted
  <1>. QED BY <1>3, <1>4, <1>5

LEMMA RowsRewritten ==
  ASSUME WebhooksOK, NEW rows, rows = DOMAIN delivery, delivery' \in [rows -> DeliveryRow]
  PROVE  delivery' \in Seq(DeliveryRow)
  <1>1. PICK n \in Nat : rows = 1..n
    BY Deliveries
  <1>. QED BY <1>1, FunctionIsSeq

LEMMA PostsRewritten ==
  ASSUME WebhooksOK, NEW rows, rows = DOMAIN posts, posts' \in [rows -> PostRow]
  PROVE  posts' \in Seq(PostRow)
  <1>1. PICK n \in Nat : rows = 1..n
    BY Deliveries
  <1>. QED BY <1>1, FunctionIsSeq

LEMMA CommitDeliveriesEffect ==
  ASSUME CallsOK, WebhooksOK, NEW p \in Process, CommitDeliveries(p)
  PROVE  /\ CallsOK' /\ Spares(WebhookCalls)
         /\ UNCHANGED <<rules, hook, notices, posts>>
         /\ \A d : ~Claims(call'[p], d)
         /\ \A q \in Process : q # p => call'[q] = call[q]
         /\ DOMAIN delivery' = DOMAIN delivery
         /\ delivery' = [d \in DOMAIN delivery |-> delivery'[d]]
         /\ \A d \in DOMAIN delivery :
              /\ Claims(call[p], d) => /\ delivery'[d] = Sent(delivery[d], call[p].result[d])
                                       /\ call[p].result[d] \in Outcome
              /\ ~Claims(call[p], d) => delivery'[d] = delivery[d]
         /\ \A d : Claims(call[p], d) => ~InBatch(d)'
         /\ \A d : ~Claims(call[p], d) => (InBatch(d)' <=> InBatch(d))
         /\ \A q \in Process \ {p} : \A d : Claims(call[p], d) => ~Claims(call[q], d)
  <1>1. /\ call[p].op = "deliver" /\ call' = [call EXCEPT ![p] = Idle]
        /\ \A d \in DOMAIN call[p].result : call[p].result[d] # "unsent"
        /\ UNCHANGED <<rules, hook, notices, posts>>
    BY DEF CommitDeliveries, Return, Continue
  <1>2. call[p] \in DeliverCall
    BY <1>1, CallOf
  <1>3. \A d : Claims(call[p], d) => call[p].result[d] \in Outcome
    <2>1. PICK D \in SUBSET Nat : call[p].result \in [D -> Outcome \cup {"unsent"}]
      BY <1>2 DEF DeliverCall, Results
    <2>2. \A d \in D : call[p].result[d] \in Outcome \cup {"unsent"}
      BY <2>1
    <2>3. DOMAIN call[p].result = D
      BY <2>1
    <2>. QED BY <1>1, <2>2, <2>3 DEF Claims
  <1>4. /\ CallsOK' /\ Spares(WebhookCalls)
        /\ call'[p] = Idle /\ \A q \in Process : q # p => call'[q] = call[q]
        /\ \A d : InBatch(d)' <=> \/ HasArrived(Idle, d)
                                  \/ \E q \in Process \ {p} : HasArrived(call[q], d)
        /\ \A d : InBatch(d) <=> \/ HasArrived(call[p], d)
                                 \/ \E q \in Process \ {p} : HasArrived(call[q], d)
    BY <1>1, <1>2, WebhookMoved DEF WebhookCalls
  <1>5. \A d : ~Claims(Idle, d) /\ ~HasArrived(Idle, d)
    BY NoClaim DEF Idle
  <1>6. \A q \in Process \ {p} : \A d : Claims(call[p], d) => ~Claims(call[q], d)
    BY Deliveries DEF OneClaim
  <1>7. /\ DOMAIN delivery' = DOMAIN delivery
        /\ \A d \in DOMAIN delivery :
             /\ Claims(call[p], d) => delivery'[d] = Sent(delivery[d], call[p].result[d])
             /\ ~Claims(call[p], d) => delivery'[d] = delivery[d]
        /\ delivery' = [d \in DOMAIN delivery |-> delivery'[d]]
    BY <1>1 DEF CommitDeliveries, Claims
  <1>8. \A d : Claims(call[p], d) => ~InBatch(d)'
    BY <1>4, <1>5, <1>6 DEF HasArrived
  <1>9. \A d : ~Claims(call[p], d) => (InBatch(d)' <=> InBatch(d))
    BY <1>4, <1>5 DEF HasArrived
  <1>. QED BY <1>1, <1>3, <1>4, <1>5, <1>6, <1>7, <1>8, <1>9

LEMMA CommitDeliveriesKeeps ==
  ASSUME CallsOK, WebhooksOK, NEW p \in Process, CommitDeliveries(p)
  PROVE  CallsOK' /\ Spares(WebhookCalls) /\ WebhooksOK'
  <1>1. /\ CallsOK' /\ Spares(WebhookCalls)
        /\ UNCHANGED <<rules, hook, notices, posts>>
        /\ \A d : ~Claims(call'[p], d)
        /\ \A q \in Process : q # p => call'[q] = call[q]
        /\ DOMAIN delivery' = DOMAIN delivery
        /\ delivery' = [d \in DOMAIN delivery |-> delivery'[d]]
        /\ \A d \in DOMAIN delivery :
             /\ Claims(call[p], d) => /\ delivery'[d] = Sent(delivery[d], call[p].result[d])
                                      /\ call[p].result[d] \in Outcome
             /\ ~Claims(call[p], d) => delivery'[d] = delivery[d]
        /\ \A d : Claims(call[p], d) => ~InBatch(d)'
        /\ \A d : ~Claims(call[p], d) => (InBatch(d)' <=> InBatch(d))
        /\ \A q \in Process \ {p} : \A d : Claims(call[p], d) => ~Claims(call[q], d)
    BY CommitDeliveriesEffect
  <1>2. ASSUME NEW d \in DOMAIN delivery
        PROVE  delivery'[d] \in DeliveryRow /\ Settled(delivery'[d], posts'[d], InBatch(d)')
    <2>1. /\ delivery[d] \in DeliveryRow /\ posts[d] \in PostRow
          /\ Settled(delivery[d], posts[d], InBatch(d))
      BY Deliveries
    <2>2. CASE ~Claims(call[p], d)
      <3>1. InBatch(d)' <=> InBatch(d)
        BY <1>1, <2>2
      <3>. QED BY <1>1, <2>1, <2>2, <3>1 DEF Settled
    <2>3. CASE Claims(call[p], d)
      <3>1. delivery[d].status = "pending" /\ WebhookCall(call[p])
        BY <2>3, Deliveries DEF WebhookCall
      <3>2. ~InBatch(d)'
        BY <1>1, <2>3
      <3>3. PICK o \in Outcome : o = call[p].result[d]
        BY <1>1, <2>3
      <3>4. o = "ok" => posts[d].received > 0
        BY <2>3, <3>1, <3>3 DEF WebhookCall, Arrived, Outcome
      <3>5. /\ delivery[d].attempts # MaxAttempts
            /\ posts[d].received <= Counted(delivery[d], posts[d]) + (IF InBatch(d) THEN 1 ELSE 0)
        BY <2>1, <3>1 DEF Settled
      <3>6. PICK s : s = Sent(delivery[d], o)
        OBVIOUS
      <3>7. /\ s \in DeliveryRow /\ Counted(s, posts[d]) = Counted(delivery[d], posts[d]) + 1
            /\ s.status \in {"pending", "delivered", "dead_letter"}
            /\ s.status = "delivered" <=> o = "ok"
            /\ s.status = "dead_letter" <=> s.attempts = MaxAttempts
        BY <2>1, <3>1, <3>5, <3>6, SentRow
      <3>8. posts[d].received <= Counted(s, posts[d]) /\ Counted(s, posts[d]) \in Nat
        <4>1. /\ delivery[d].attempts \in Nat /\ posts[d].received \in Nat
              /\ posts[d].forgotten \in Nat /\ posts[d].earlier \in Nat
          BY <2>1, WebhooksAssumption DEF DeliveryRow, PostRow
        <4>2. Counted(delivery[d], posts[d]) \in Nat
          BY <4>1 DEF Counted
        <4>. QED BY <3>5, <3>7, <4>1, <4>2
      <3>9. delivery'[d] = s /\ posts'[d] = posts[d]
        BY <1>1, <2>3, <3>3, <3>6
      <3>. QED BY <2>1, <3>2, <3>4, <3>7, <3>8, <3>9 DEF Settled, PostRow
    <2>. QED BY <2>2, <2>3
  <1>3. delivery' \in Seq(DeliveryRow)
    <2>1. delivery' \in [DOMAIN delivery -> DeliveryRow]
      BY <1>1, <1>2
    <2>. QED BY <2>1, RowsRewritten
  <1>4. OneClaim'
    BY <1>1, Deliveries DEF OneClaim
  <1>5. ASSUME NEW q \in Process
         PROVE  WebhookCall(call[q])'
    <2>1. CASE q = p
      BY <1>1, <2>1 DEF WebhookCall
    <2>2. CASE q # p
      <3>1. WebhookCall(call[q]) /\ call'[q] = call[q]
        BY <1>1, <2>2, Deliveries
      <3>. QED BY <1>1, <2>2, <3>1 DEF WebhookCall
    <2>. QED BY <2>1, <2>2
  <1>6. WebhooksTypeOK' /\ DOMAIN posts' = DOMAIN delivery'
    BY <1>1, <1>3, Deliveries DEF WebhooksTypeOK
  <1>. QED BY <1>1, <1>2, <1>4, <1>5, <1>6 DEF WebhooksOK

(* The delete of h takes its deliveries with it, none of which is claimed.  *)
Cascade(p, h) ==
  /\ CallsOK' /\ Spares(WebhookCalls)
  /\ hook' = [hook EXCEPT ![h] = "gone"] /\ UNCHANGED <<rules, notices, posts>>
  /\ \A d : ~Claims(call'[p], d)
  /\ \A q \in Process : q # p => call'[q] = call[q]
  /\ \A q \in Process : \A d : Claims(call[q], d) => delivery[d].endpoint # h
  /\ \A d : InBatch(d)' <=> InBatch(d)
  /\ DOMAIN delivery' = DOMAIN delivery
  /\ delivery' = [d \in DOMAIN delivery |-> delivery'[d]]
  /\ \A d \in DOMAIN delivery :
       /\ delivery[d].endpoint = h => delivery'[d] = [delivery[d] EXCEPT !.status = "gone"]
       /\ delivery[d].endpoint # h => delivery'[d] = delivery[d]

LEMMA CommitDeleteWebhookEffect ==
  ASSUME CallsOK, WebhooksOK, NEW p \in Process, CommitDeleteWebhook(p)
  PROVE  \E h \in Endpoint : Cascade(p, h)
  <1>1. call[p].op = "delete_webhook" /\ call[p] \in DeleteCall
    BY CallOf DEF CommitDeleteWebhook
  <1>2. PICK h \in Endpoint : h = call[p].row
    BY <1>1 DEF DeleteCall
  <1>3. /\ call' = [call EXCEPT ![p] = Idle]
        /\ \A d \in Claimed : delivery[d].endpoint # h
        /\ hook' = [hook EXCEPT ![h] = "gone"]
        /\ delivery' = [d \in DOMAIN delivery |->
                          IF delivery[d].endpoint = h
                            THEN [delivery[d] EXCEPT !.status = "gone"] ELSE delivery[d]]
        /\ UNCHANGED <<rules, notices, posts>>
    BY <1>2 DEF CommitDeleteWebhook, Return, Continue
  <1>4. \A q \in Process : \A d : Claims(call[q], d) => delivery[d].endpoint # h
    BY <1>3 DEF Claimed, Doing, Claims
  <1>5. /\ CallsOK' /\ Spares(WebhookCalls)
        /\ call'[p] = Idle /\ \A q \in Process : q # p => call'[q] = call[q]
        /\ \A d : InBatch(d)' <=> \/ HasArrived(Idle, d)
                                  \/ \E q \in Process \ {p} : HasArrived(call[q], d)
        /\ \A d : InBatch(d) <=> \/ HasArrived(call[p], d)
                                 \/ \E q \in Process \ {p} : HasArrived(call[q], d)
    BY <1>1, <1>3, WebhookMoved DEF WebhookCalls
  <1>6. \A d : ~Claims(Idle, d) /\ ~HasArrived(Idle, d) /\ ~HasArrived(call[p], d)
    BY <1>1, NoClaim DEF Idle
  <1>7. \A d : InBatch(d)' <=> InBatch(d)
    BY <1>5, <1>6
  <1>8. /\ DOMAIN delivery' = DOMAIN delivery
        /\ \A d \in DOMAIN delivery :
             /\ delivery[d].endpoint = h => delivery'[d] = [delivery[d] EXCEPT !.status = "gone"]
             /\ delivery[d].endpoint # h => delivery'[d] = delivery[d]
        /\ delivery' = [d \in DOMAIN delivery |-> delivery'[d]]
    BY <1>3
  <1>9. \A d : ~Claims(call'[p], d)
    BY <1>5, <1>6
  <1>10. Cascade(p, h)
    BY <1>3, <1>4, <1>5, <1>7, <1>8, <1>9 DEF Cascade
  <1>. QED BY <1>10

LEMMA CommitDeleteWebhookKeeps ==
  ASSUME CallsOK, WebhooksOK, NEW p \in Process, CommitDeleteWebhook(p)
  PROVE  CallsOK' /\ Spares(WebhookCalls) /\ WebhooksOK'
  <1> PICK h \in Endpoint : Cascade(p, h)
    BY CommitDeleteWebhookEffect
  <1>1. /\ CallsOK' /\ Spares(WebhookCalls)
        /\ hook' = [hook EXCEPT ![h] = "gone"] /\ UNCHANGED <<rules, notices, posts>>
        /\ \A d : ~Claims(call'[p], d)
        /\ \A q \in Process : q # p => call'[q] = call[q]
        /\ \A q \in Process : \A d : Claims(call[q], d) => delivery[d].endpoint # h
        /\ \A d : InBatch(d)' <=> InBatch(d)
        /\ DOMAIN delivery' = DOMAIN delivery
        /\ delivery' = [d \in DOMAIN delivery |-> delivery'[d]]
        /\ \A d \in DOMAIN delivery :
             /\ delivery[d].endpoint = h => delivery'[d] = [delivery[d] EXCEPT !.status = "gone"]
             /\ delivery[d].endpoint # h => delivery'[d] = delivery[d]
    BY DEF Cascade
  <1>2. ASSUME NEW d \in DOMAIN delivery
        PROVE  delivery'[d] \in DeliveryRow /\ Settled(delivery'[d], posts'[d], InBatch(d)')
    <2>1. delivery[d] \in DeliveryRow /\ Settled(delivery[d], posts[d], InBatch(d))
      BY Deliveries
    <2>2. CASE delivery[d].endpoint = h
      <3>1. delivery'[d] \in DeliveryRow /\ delivery'[d].status = "gone"
        BY <1>1, <2>1, <2>2 DEF DeliveryRow
      <3>. QED BY <3>1 DEF Settled
    <2>3. CASE delivery[d].endpoint # h
      BY <1>1, <2>1, <2>3 DEF Settled
    <2>. QED BY <2>2, <2>3
  <1>3. delivery' \in Seq(DeliveryRow)
    <2>1. delivery' \in [DOMAIN delivery -> DeliveryRow]
      BY <1>1, <1>2
    <2>. QED BY <2>1, RowsRewritten
  <1>4. OneClaim'
    BY <1>1, Deliveries DEF OneClaim
  <1>5. ASSUME NEW q \in Process
         PROVE  WebhookCall(call[q])'
    <2>1. CASE q = p
      BY <1>1, <2>1 DEF WebhookCall
    <2>2. CASE q # p
      <3>1. WebhookCall(call[q]) /\ call'[q] = call[q]
        BY <1>1, <2>2, Deliveries
      <3>. QED BY <1>1, <3>1 DEF WebhookCall
    <2>. QED BY <2>1, <2>2
  <1>6. WebhooksTypeOK' /\ DOMAIN posts' = DOMAIN delivery'
    BY <1>1, <1>3, Deliveries DEF WebhooksTypeOK
  <1>. QED BY <1>1, <1>2, <1>4, <1>5, <1>6 DEF WebhooksOK

LEMMA ArrivedInIt ==
  ASSUME NEW p, NEW d
  PROVE  ArrivedIn(p, d) = IF HasArrived(call[p], d) THEN 1 ELSE 0
  BY DEF ArrivedIn, HasArrived, Claims

LEMMA AbortWebhooksEffect ==
  ASSUME CallsOK, WebhooksOK, NEW p \in Process, AbortWebhooks(p)
  PROVE  /\ CallsOK' /\ Spares(WebhookCalls)
         /\ UNCHANGED <<rules, hook, notices, delivery>>
         /\ \A d : ~Claims(call'[p], d)
         /\ \A q \in Process : q # p => call'[q] = call[q]
         /\ \A d : HasArrived(call[p], d) => InBatch(d) /\ ~InBatch(d)'
         /\ \A d : ~HasArrived(call[p], d) => (InBatch(d)' <=> InBatch(d))
         /\ DOMAIN posts' = DOMAIN posts /\ posts' = [d \in DOMAIN posts |-> posts'[d]]
         /\ \A d \in DOMAIN delivery :
              /\ posts'[d] \in PostRow
              /\ posts'[d].received = posts[d].received /\ posts'[d].earlier = posts[d].earlier
              /\ posts'[d].forgotten
                   = posts[d].forgotten + (IF HasArrived(call[p], d) THEN 1 ELSE 0)
  <1>1. /\ call[p].op \in {"deliver", "delete_webhook"}
        /\ call' = [call EXCEPT ![p] = Idle]
        /\ posts' = [d \in DOMAIN posts |->
                       [posts[d] EXCEPT !.forgotten = @ + ArrivedIn(p, d)]]
        /\ UNCHANGED <<rules, hook, notices, delivery>>
    BY DEF AbortWebhooks, Return, Continue
  <1>2. call[p] \in WebhookCalls
    BY <1>1, CallOf DEF WebhookCalls
  <1>3. /\ CallsOK' /\ Spares(WebhookCalls)
        /\ call'[p] = Idle /\ \A q \in Process : q # p => call'[q] = call[q]
        /\ \A d : InBatch(d)' <=> \/ HasArrived(Idle, d)
                                  \/ \E q \in Process \ {p} : HasArrived(call[q], d)
        /\ \A d : InBatch(d) <=> \/ HasArrived(call[p], d)
                                 \/ \E q \in Process \ {p} : HasArrived(call[q], d)
    BY <1>1, <1>2, WebhookMoved
  <1>4. \A d : ~Claims(Idle, d) /\ ~HasArrived(Idle, d)
    BY NoClaim DEF Idle
  <1>5. ASSUME NEW d \in DOMAIN delivery
        PROVE  /\ posts'[d] \in PostRow
               /\ posts'[d].received = posts[d].received /\ posts'[d].earlier = posts[d].earlier
               /\ posts'[d].forgotten
                    = posts[d].forgotten + (IF HasArrived(call[p], d) THEN 1 ELSE 0)
    <2>1. posts[d] \in PostRow /\ d \in DOMAIN posts
      BY Deliveries
    <2>2. PICK n \in Nat : /\ n = posts[d].forgotten + (IF HasArrived(call[p], d) THEN 1 ELSE 0)
                           /\ n = posts[d].forgotten + ArrivedIn(p, d)
      BY <2>1, ArrivedInIt DEF PostRow
    <2>3. PICK x : x = [posts[d] EXCEPT !.forgotten = n]
      OBVIOUS
    <2>4. /\ x \in PostRow /\ x.received = posts[d].received
          /\ x.earlier = posts[d].earlier /\ x.forgotten = n
      BY <2>1, <2>3 DEF PostRow
    <2>5. posts'[d] = x
      BY <1>1, <2>1, <2>2, <2>3 DEF PostRow
    <2>. QED BY <2>2, <2>4, <2>5
  <1>6. DOMAIN posts' = DOMAIN posts /\ posts' = [d \in DOMAIN posts |-> posts'[d]]
    BY <1>1
  <1>7. \A d : HasArrived(call[p], d) => InBatch(d) /\ ~InBatch(d)'
    BY <1>3, <1>4, Deliveries DEF OneClaim, HasArrived
  <1>8. \A d : ~HasArrived(call[p], d) => (InBatch(d)' <=> InBatch(d))
    BY <1>3, <1>4
  <1>. QED BY <1>1, <1>3, <1>4, <1>5, <1>6, <1>7, <1>8

LEMMA AbortWebhooksKeeps ==
  ASSUME CallsOK, WebhooksOK, NEW p \in Process, AbortWebhooks(p)
  PROVE  CallsOK' /\ Spares(WebhookCalls) /\ WebhooksOK'
  <1>1. /\ CallsOK' /\ Spares(WebhookCalls)
        /\ UNCHANGED <<rules, hook, notices, delivery>>
        /\ \A d : ~Claims(call'[p], d)
        /\ \A q \in Process : q # p => call'[q] = call[q]
        /\ \A d : HasArrived(call[p], d) => InBatch(d) /\ ~InBatch(d)'
        /\ \A d : ~HasArrived(call[p], d) => (InBatch(d)' <=> InBatch(d))
        /\ DOMAIN posts' = DOMAIN posts /\ posts' = [d \in DOMAIN posts |-> posts'[d]]
        /\ \A d \in DOMAIN delivery :
             /\ posts'[d] \in PostRow
             /\ posts'[d].received = posts[d].received /\ posts'[d].earlier = posts[d].earlier
             /\ posts'[d].forgotten
                  = posts[d].forgotten + (IF HasArrived(call[p], d) THEN 1 ELSE 0)
    BY AbortWebhooksEffect
  <1>2. ASSUME NEW d \in DOMAIN delivery
        PROVE  Settled(delivery'[d], posts'[d], InBatch(d)')
    <2>1. PICK row \in DeliveryRow, post \in PostRow :
            /\ row = delivery[d] /\ post = posts[d]
            /\ Settled(row, post, InBatch(d))
      BY Deliveries
    <2>2. /\ row.attempts \in Nat /\ post.received \in Nat
          /\ post.forgotten \in Nat /\ post.earlier \in Nat
          /\ Counted(row, post) \in Nat
      BY <2>1, WebhooksAssumption DEF DeliveryRow, PostRow, Counted
    <2>3. CASE ~HasArrived(call[p], d)
      <3>1. /\ InBatch(d)' <=> InBatch(d)
            /\ posts'[d].received = post.received
            /\ posts'[d].forgotten = post.forgotten /\ posts'[d].earlier = post.earlier
        BY <1>1, <2>1, <2>2, <2>3
      <3>. QED BY <1>1, <2>1, <3>1 DEF Settled, Counted
    <2>4. CASE HasArrived(call[p], d)
      <3>1. /\ posts'[d].received = post.received
            /\ posts'[d].forgotten = post.forgotten + 1 /\ posts'[d].earlier = post.earlier
        BY <1>1, <2>1, <2>4
      <3>2. Counted(row, posts'[d]) = Counted(row, post) + 1
        BY <2>2, <3>1 DEF Counted
      <3>3. row.status # "gone" => post.received <= Counted(row, post) + 1
        BY <2>1, <2>2 DEF Settled
      <3>4. row.status # "gone" =>
              post.received <= Counted(row, posts'[d]) + (IF InBatch(d)' THEN 1 ELSE 0)
        BY <2>2, <3>2, <3>3
      <3>5. delivery'[d] = row
        BY <1>1, <2>1
      <3>. QED BY <2>1, <3>1, <3>4, <3>5 DEF Settled
    <2>. QED BY <2>3, <2>4
  <1>3. posts' \in Seq(PostRow)
    <2>1. posts' \in [DOMAIN posts -> PostRow]
      BY <1>1, Deliveries
    <2>. QED BY <2>1, PostsRewritten
  <1>4. OneClaim'
    BY <1>1, Deliveries DEF OneClaim
  <1>5. ASSUME NEW q \in Process
         PROVE  WebhookCall(call[q])'
    <2>1. CASE q = p
      BY <1>1, <2>1 DEF WebhookCall
    <2>2. CASE q # p
      <3>1. WebhookCall(call[q]) /\ call'[q] = call[q]
        BY <1>1, <2>2, Deliveries
      <3>. QED BY <1>1, <3>1 DEF WebhookCall
    <2>. QED BY <2>1, <2>2
  <1>6. WebhooksTypeOK' /\ DOMAIN posts' = DOMAIN delivery'
    BY <1>1, <1>3, Deliveries DEF WebhooksTypeOK, PostRow
  <1>. QED BY <1>1, <1>2, <1>4, <1>5, <1>6 DEF WebhooksOK

LEMMA BackoffEndsKeeps ==
  ASSUME CallsOK, WebhooksOK, NEW d \in DOMAIN delivery, BackoffEnds(d)
  PROVE  CallsOK' /\ Spares(WebhookCalls) /\ WebhooksOK'
  <1>1. UNCHANGED call /\ UNCHANGED <<rules, hook, notices, posts>>
    BY DEF BackoffEnds, requestVars
  <1>2. delivery[d] \in DeliveryRow /\ delivery \in Seq(DeliveryRow)
    BY Deliveries DEF WebhooksTypeOK
  <1>3. PICK row : row = [delivery[d] EXCEPT !.due = TRUE]
    OBVIOUS
  <1>4. /\ row \in DeliveryRow
        /\ row.status = delivery[d].status /\ row.attempts = delivery[d].attempts
    BY <1>2, <1>3 DEF DeliveryRow
  <1>5. delivery' = [delivery EXCEPT ![d] = row]
    BY <1>3 DEF BackoffEnds
  <1>6. /\ delivery' \in Seq(DeliveryRow) /\ DOMAIN delivery' = DOMAIN delivery
        /\ delivery'[d] = row
        /\ \A k \in DOMAIN delivery : k # d => delivery'[k] = delivery[k]
    <2>1. d \in 1..Len(delivery)
      BY Deliveries
    <2>. QED BY <1>2, <1>4, <1>5, <2>1, ExceptSeq
  <1>7. \A k : InBatch(k)' <=> InBatch(k)
    BY <1>1 DEF InBatch
  <1>8. ASSUME NEW k \in DOMAIN delivery
        PROVE  Settled(delivery'[k], posts'[k], InBatch(k)')
    <2>1. Settled(delivery[k], posts[k], InBatch(k))
      BY Deliveries
    <2>2. /\ delivery'[k].status = delivery[k].status
          /\ delivery'[k].attempts = delivery[k].attempts
      BY <1>4, <1>6
    <2>. QED BY <1>1, <1>7, <2>1, <2>2 DEF Settled, Counted
  <1>9. OneClaim' /\ \A q \in Process : WebhookCall(call[q])'
    BY <1>1, <1>4, <1>6, Deliveries DEF OneClaim, WebhookCall
  <1>10. WebhooksTypeOK' /\ DOMAIN posts' = DOMAIN delivery'
    BY <1>1, <1>6, Deliveries DEF WebhooksTypeOK
  <1>. QED BY <1>1, <1>6, <1>8, <1>9, <1>10, NoneMoved DEF WebhooksOK

(* A dead letter queued again: what was counted of it moves to the history. *)
LEMMA RequeueEffect ==
  ASSUME WebhooksOK, NEW d \in DOMAIN delivery, Requeue(d)
  PROVE  /\ UNCHANGED call /\ UNCHANGED <<rules, hook, notices>>
         /\ delivery[d].status = "dead_letter" /\ ~InBatch(d)
         /\ \A q \in Process : ~Claims(call[q], d)
         /\ delivery' \in Seq(DeliveryRow) /\ DOMAIN delivery' = DOMAIN delivery
         /\ delivery'[d].status = "pending" /\ delivery'[d].attempts = 0
         /\ \A k \in DOMAIN delivery : k # d => delivery'[k] = delivery[k]
         /\ posts' \in Seq(PostRow) /\ DOMAIN posts' = DOMAIN posts
         /\ posts'[d].received = posts[d].received
         /\ posts'[d].forgotten = posts[d].forgotten
         /\ posts'[d].earlier = posts[d].earlier + delivery[d].attempts
         /\ \A k \in DOMAIN posts : k # d => posts'[k] = posts[k]
  <1>1. /\ delivery[d].status = "dead_letter"
        /\ UNCHANGED call /\ UNCHANGED <<rules, hook, notices>>
    BY DEF Requeue, AtOnce
  <1>2. /\ delivery[d] \in DeliveryRow /\ posts[d] \in PostRow
        /\ delivery \in Seq(DeliveryRow) /\ posts \in Seq(PostRow)
        /\ d \in 1..Len(delivery) /\ d \in 1..Len(posts) /\ DOMAIN posts = DOMAIN delivery
    <2>1. d \in 1..Len(delivery) /\ Len(posts) = Len(delivery)
      BY DeliveryRows DEF WebhooksOK
    <2>. QED BY <2>1, Deliveries DEF WebhooksTypeOK, PostRow
  <1>3. \A q \in Process : ~Claims(call[q], d)
    BY <1>1, Deliveries DEF WebhookCall
  <1>4. PICK half : half = [delivery[d] EXCEPT !.status = "pending"]
    OBVIOUS
  <1>5. PICK row : row = [half EXCEPT !.attempts = 0]
    OBVIOUS
  <1>6. row \in DeliveryRow /\ row.status = "pending" /\ row.attempts = 0
    <2>1. half \in DeliveryRow /\ half.status = "pending"
      BY <1>2, <1>4 DEF DeliveryRow
    <2>2. 0 \in 0..MaxAttempts
      BY WebhooksAssumption
    <2>. QED BY <1>5, <2>1, <2>2 DEF DeliveryRow
  <1>7. delivery' = [delivery EXCEPT ![d] = row]
    BY <1>2, <1>4, <1>5 DEF Requeue
  <1>8. PICK n \in Nat : n = posts[d].earlier + delivery[d].attempts
    BY <1>2, WebhooksAssumption DEF DeliveryRow, PostRow
  <1>9. PICK post : post = [posts[d] EXCEPT !.earlier = n]
    OBVIOUS
  <1>10. /\ post \in PostRow /\ post.earlier = n
         /\ post.received = posts[d].received /\ post.forgotten = posts[d].forgotten
    BY <1>2, <1>9 DEF PostRow
  <1>11. posts' = [posts EXCEPT ![d] = post]
    BY <1>2, <1>8, <1>9 DEF Requeue
  <1>12. /\ delivery' \in Seq(DeliveryRow) /\ DOMAIN delivery' = DOMAIN delivery
         /\ delivery'[d] = row
         /\ \A k \in DOMAIN delivery : k # d => delivery'[k] = delivery[k]
    BY <1>2, <1>6, <1>7, ExceptSeq
  <1>13. /\ posts' \in Seq(PostRow) /\ DOMAIN posts' = DOMAIN posts /\ posts'[d] = post
         /\ \A k \in DOMAIN posts : k # d => posts'[k] = posts[k]
    BY <1>2, <1>10, <1>11, ExceptSeq
  <1>. QED BY <1>1, <1>3, <1>6, <1>8, <1>10, <1>12, <1>13 DEF InBatch, HasArrived

LEMMA RequeueKeeps ==
  ASSUME CallsOK, WebhooksOK, NEW d \in DOMAIN delivery, Requeue(d)
  PROVE  CallsOK' /\ Spares(WebhookCalls) /\ WebhooksOK'
  <1>1. /\ UNCHANGED call /\ UNCHANGED <<rules, hook, notices>>
        /\ delivery[d].status = "dead_letter" /\ ~InBatch(d)
        /\ \A q \in Process : ~Claims(call[q], d)
        /\ delivery' \in Seq(DeliveryRow) /\ DOMAIN delivery' = DOMAIN delivery
        /\ delivery'[d].status = "pending" /\ delivery'[d].attempts = 0
        /\ \A k \in DOMAIN delivery : k # d => delivery'[k] = delivery[k]
        /\ posts' \in Seq(PostRow) /\ DOMAIN posts' = DOMAIN posts
        /\ posts'[d].received = posts[d].received
        /\ posts'[d].forgotten = posts[d].forgotten
        /\ posts'[d].earlier = posts[d].earlier + delivery[d].attempts
        /\ \A k \in DOMAIN posts : k # d => posts'[k] = posts[k]
    BY RequeueEffect
  <1>2. \A k : InBatch(k)' <=> InBatch(k)
    BY <1>1 DEF InBatch
  <1>3. ASSUME NEW k \in DOMAIN delivery
        PROVE  Settled(delivery'[k], posts'[k], InBatch(k)')
    <2>1. CASE k # d
      BY <1>1, <1>2, <2>1, Deliveries DEF Settled
    <2>2. CASE k = d
      <3>1. PICK row \in DeliveryRow, post \in PostRow :
              row = delivery[d] /\ post = posts[d] /\ Settled(row, post, InBatch(d))
        BY Deliveries
      <3>2. /\ row.attempts \in Nat /\ post.received \in Nat
            /\ post.forgotten \in Nat /\ post.earlier \in Nat /\ MaxAttempts \in Nat \ {0}
        BY <3>1, WebhooksAssumption DEF DeliveryRow, PostRow
      <3>3. post.received <= row.attempts + post.earlier + post.forgotten
        BY <1>1, <3>1, <3>2 DEF Settled, Counted
      <3>4. PICK row2, post2 : row2 = delivery'[d] /\ post2 = posts'[d]
        OBVIOUS
      <3>5. /\ row2.status = "pending" /\ row2.attempts = 0
            /\ post2.received = post.received /\ post2.forgotten = post.forgotten
            /\ post2.earlier = post.earlier + row.attempts
        BY <1>1, <3>1, <3>4
      <3>6. Settled(row2, post2, InBatch(d)')
        BY <1>1, <1>2, <3>2, <3>3, <3>5 DEF Settled, Counted
      <3>. QED BY <2>2, <3>4, <3>6
    <2>. QED BY <2>1, <2>2
  <1>4. OneClaim' /\ WebhooksTypeOK /\ DOMAIN posts = DOMAIN delivery
    BY <1>1, Deliveries DEF OneClaim
  <1>5. ASSUME NEW q \in Process
        PROVE  WebhookCall(call[q])'
    <2>1. WebhookCall(call[q]) /\ ~Claims(call[q], d)
      BY <1>1, Deliveries
    <2>. QED BY <1>1, <1>4, <2>1 DEF WebhookCall
  <1>6. WebhooksTypeOK' /\ DOMAIN posts' = DOMAIN delivery'
    BY <1>1, <1>4 DEF WebhooksTypeOK, PostRow
  <1>. QED BY <1>1, <1>3, <1>4, <1>5, <1>6, NoneMoved DEF WebhooksOK

LEMMA WebhooksStepKeeps ==
  ASSUME CallsOK, WebhooksOK, WebhooksStep
  PROVE  CallsOK' /\ Spares(WebhookCalls) /\ WebhooksOK'
  <1>1. ASSUME NEW min \in Severity, NEW channels \in SUBSET {"in_app", "webhook"},
               CreateRule(min, channels)
        PROVE  CallsOK' /\ Spares(WebhookCalls) /\ WebhooksOK'
    BY <1>1, CreateRuleKeeps
  <1>2. ASSUME NEW h \in Endpoint,
               \/ CreateWebhook(h) \/ SendTest(h)
               \/ \E status \in {"active", "inactive"} : UpdateWebhook(h, status)
        PROVE  CallsOK' /\ Spares(WebhookCalls) /\ WebhooksOK'
    BY <1>2, HookKeeps, SendTestKeeps
  <1>3. ASSUME NEW p \in Process, NEW h \in Endpoint, DeleteWebhook(p, h)
        PROVE  CallsOK' /\ Spares(WebhookCalls) /\ WebhooksOK'
    BY <1>3, DeleteWebhookKeeps
  <1>4. ASSUME NEW n \in DOMAIN notices, MarkRead(n)
        PROVE  CallsOK' /\ Spares(WebhookCalls) /\ WebhooksOK'
    BY <1>4, MarkReadKeeps
  <1>5. ASSUME NEW severity \in Severity, NEW n \in 0..Cardinality(Endpoint),
               NEW hs \in [1..n -> Endpoint], OnSafetyEvent(severity, hs)
        PROVE  CallsOK' /\ Spares(WebhookCalls) /\ WebhooksOK'
    <2>1. n \in Nat
      OBVIOUS
    <2>. QED BY <1>5, <2>1, OnSafetyEventKeeps
  <1>6. ASSUME NEW p \in Process, NEW batch \in SUBSET Unclaimed, DeliverPending(p, batch)
        PROVE  CallsOK' /\ Spares(WebhookCalls) /\ WebhooksOK'
    BY <1>6, DeliverPendingKeeps
  <1>7. ASSUME NEW p \in Process, NEW d \in DOMAIN delivery, NEW outcome \in Outcome,
               SendOne(p, d, outcome)
        PROVE  CallsOK' /\ Spares(WebhookCalls) /\ WebhooksOK'
    BY <1>7, SendOneKeeps
  <1>8. ASSUME NEW d \in DOMAIN delivery, BackoffEnds(d) \/ Requeue(d)
        PROVE  CallsOK' /\ Spares(WebhookCalls) /\ WebhooksOK'
    BY <1>8, BackoffEndsKeeps, RequeueKeeps
  <1>9. ASSUME NEW p \in Process,
               CommitDeliveries(p) \/ CommitDeleteWebhook(p) \/ AbortWebhooks(p)
        PROVE  CallsOK' /\ Spares(WebhookCalls) /\ WebhooksOK'
    BY <1>9, CommitDeliveriesKeeps, CommitDeleteWebhookKeeps, AbortWebhooksKeeps
  <1>. QED BY <1>1, <1>2, <1>3, <1>4, <1>5, <1>6, <1>7, <1>8, <1>9 DEF WebhooksStep

LEMMA AtMostOne ==
  ASSUME NEW S, \A p, q \in S : p = q
  PROVE  /\ Cardinality(S) <= 1
         /\ S # {} => Cardinality(S) = 1
         /\ S = {} => Cardinality(S) = 0
  <1>1. CASE S = {}
    BY <1>1, FS_EmptySet
  <1>2. CASE S # {}
    <2>1. PICK x : S = {x}
      BY <1>2
    <2>. QED BY <1>2, <2>1, FS_Singleton
  <1>. QED BY <1>1, <1>2

(* The invariant says what is accounted for: a set with one element at most *)
(* has the size that PostsAccountedFor counts.                              *)
LEMMA Accounted == WebhooksOK => PostsAccountedFor
  <1> SUFFICES ASSUME WebhooksOK PROVE PostsAccountedFor
    OBVIOUS
  <1> SUFFICES ASSUME NEW d \in DOMAIN delivery
               PROVE  LET row == delivery[d]
                          holders == {p \in Doing("deliver") : d \in DOMAIN call[p].result}
                          open == {p \in holders : ArrivedIn(p, d) = 1}
                      IN /\ Cardinality(holders) <= 1
                         /\ row.status # "gone" =>
                              /\ posts[d].received <= row.attempts
                                   + (IF row.status = "delivered" THEN 1 ELSE 0)
                                   + posts[d].earlier + posts[d].forgotten
                                   + Cardinality(open)
                              /\ row.status = "delivered" => posts[d].received > 0
                              /\ row.status = "dead_letter" <=> row.attempts = MaxAttempts
    BY DEF PostsAccountedFor
  <1> DEFINE holders == {p \in Doing("deliver") : d \in DOMAIN call[p].result}
             open == {p \in holders : ArrivedIn(p, d) = 1}
  <1>1. /\ holders = {p \in Process : Claims(call[p], d)}
        /\ open = {p \in Process : HasArrived(call[p], d)}
        /\ open \subseteq holders
    BY ArrivedInIt DEF Doing, Claims, HasArrived
  <1> HIDE DEF holders, open
  <1>2. \A p, q \in holders : p = q
    BY <1>1, Deliveries DEF OneClaim
  <1>3. /\ Cardinality(holders) <= 1
        /\ open # {} => Cardinality(open) = 1
        /\ open = {} => Cardinality(open) = 0
    <2>1. \A p, q \in open : p = q
      BY <1>1, <1>2
    <2>. QED BY <1>2, <2>1, AtMostOne
  <1>4. InBatch(d) <=> open # {}
    BY <1>1 DEF InBatch
  <1>5. Cardinality(open) = IF InBatch(d) THEN 1 ELSE 0
    BY <1>3, <1>4
  <1>6. Settled(delivery[d], posts[d], InBatch(d))
    BY Deliveries
  <1>7. delivery[d].status # "gone" =>
          /\ posts[d].received <= Counted(delivery[d], posts[d]) + Cardinality(open)
          /\ delivery[d].status = "delivered" => posts[d].received > 0
          /\ delivery[d].status = "dead_letter" <=> delivery[d].attempts = MaxAttempts
    BY <1>5, <1>6 DEF Settled
  <1>. QED BY <1>3, <1>7 DEF holders, open, Counted

-----------------------------------------------------------------------------
(* The three together.                                                      *)
IInv == CallsOK /\ EvidenceOK /\ CoachingOK /\ WebhooksOK

LEMMA InitIInv == Init => IInv
  <1> SUFFICES ASSUME Init PROVE IInv
    OBVIOUS
  <1>1. call = [p \in Process |-> Idle] /\ \A p \in Process : call[p] = Idle
    BY DEF Init, RequestsInit
  <1>2. CallsOK
    BY <1>1 DEF CallsOK
  <1>3. EvidenceOK
    <2>1. \A m : UnderDeletion(m) = {}
      BY <1>1, DeletesIt DEF Deletes, Idle
    <2>2. EvidenceTypeOK /\ \A m \in Media : media[m].status = "none" /\ object[m] = "none"
      BY DEF Init, EvidenceInit, EvidenceTypeOK, MediaRow
    <2>3. \A m \in Media : MediumOK(m)
      BY <2>1, <2>2 DEF MediumOK
    <2>4. \A p \in Process : EvidenceCall(call[p])
      BY <1>1 DEF EvidenceCall, Idle
    <2>. QED BY <2>2, <2>3, <2>4, EvidenceParts
  <1>4. CoachingOK
    <2>1. action = <<>> /\ DOMAIN action = {}
      BY DEF Init, CoachingInit
    <2>2. CoachingTypeOK
      BY EmptySeq DEF Init, CoachingInit, CoachingTypeOK, EventRow
    <2>3. OneActive
      BY <2>1 DEF OneActive, ActiveIn
    <2>4. \A p \in Process : CoachingCall(call[p])
      BY <1>1 DEF CoachingCall, Idle
    <2>. QED BY <2>2, <2>3, <2>4 DEF CoachingOK
  <1>5. WebhooksOK
    <2>1. WebhooksTypeOK
      BY EmptySeq DEF Init, WebhooksInit, WebhooksTypeOK
    <2>2. DOMAIN posts = DOMAIN delivery /\ DOMAIN delivery = {}
      BY DEF Init, WebhooksInit
    <2>3. \A p \in Process : \A d : ~Claims(call[p], d)
      BY <1>1, NoClaim DEF Idle
    <2>. QED BY <2>1, <2>2, <2>3 DEF WebhooksOK, WebhookCall, OneClaim
  <1>. QED BY <1>2, <1>3, <1>4, <1>5 DEF IInv

LEMMA NextIInv == IInv /\ [Next]_vars => IInv'
  <1> SUFFICES ASSUME IInv, [Next]_vars PROVE IInv'
    OBVIOUS
  <1>1. CallsOK /\ EvidenceOK /\ CoachingOK /\ WebhooksOK
    BY DEF IInv
  <1>2. /\ CoachingCalls \cap EvidenceCalls = {}
        /\ WebhookCalls \cap EvidenceCalls = {}
    BY OpOf
  <1>3. CASE CoachingStep /\ UNCHANGED <<evidenceVars, webhookVars>>
    <2>1. CallsOK' /\ Spares(CoachingCalls) /\ CoachingOK'
      BY <1>1, <1>3, CoachingStepKeeps
    <2>2. EvidenceOK'
      BY <1>1, <1>2, <1>3, <2>1, EvidenceFrame
    <2>3. WebhooksOK'
      BY <1>1, <1>3, <2>1, WebhooksFrame
    <2>. QED BY <2>1, <2>2, <2>3 DEF IInv
  <1>4. CASE EvidenceStep /\ UNCHANGED <<coachingVars, webhookVars>>
    <2>1. CallsOK' /\ Spares(EvidenceCalls) /\ EvidenceOK'
      BY <1>1, <1>4, EvidenceStepKeeps
    <2>2. CoachingOK'
      BY <1>1, <1>4, <2>1, CoachingFrame
    <2>3. WebhooksOK'
      BY <1>1, <1>4, <2>1, WebhooksFrame
    <2>. QED BY <2>1, <2>2, <2>3 DEF IInv
  <1>5. CASE WebhooksStep /\ UNCHANGED <<coachingVars, evidenceVars>>
    <2>1. CallsOK' /\ Spares(WebhookCalls) /\ WebhooksOK'
      BY <1>1, <1>5, WebhooksStepKeeps
    <2>2. CoachingOK'
      BY <1>1, <1>5, <2>1, CoachingFrame
    <2>3. EvidenceOK'
      BY <1>1, <1>2, <1>5, <2>1, EvidenceFrame
    <2>. QED BY <2>1, <2>2, <2>3 DEF IInv
  <1>6. CASE UNCHANGED vars
    <2>1. /\ UNCHANGED call
          /\ UNCHANGED evidenceVars /\ UNCHANGED coachingVars /\ UNCHANGED webhookVars
      BY <1>6 DEF vars, requestVars
    <2>2. CallsOK' /\ Spares({})
      BY <1>1, <2>1, NoneMoved
    <2>. QED BY <1>1, <2>1, <2>2, EvidenceFrame, CoachingFrame, WebhooksFrame DEF IInv
  <1>. QED BY <1>3, <1>4, <1>5, <1>6 DEF Next

(* What holds in every state: the invariant of the three parts.             *)
THEOREM EventHandlingInvariance == Spec => []IInv
  BY InitIInv, NextIInv, PTL DEF Spec

(* Every variable has its type, whoever reviews, uploads or delivers.       *)
THEOREM EventHandlingTypeCorrect == Spec => []TypeOK
  <1>1. IInv => TypeOK
    BY DEF IInv, EvidenceOK, CoachingOK, WebhooksOK, TypeOK
  <1>. QED BY <1>1, EventHandlingInvariance, PTL

(* What is offered as evidence is in the store as declared and of what was  *)
(* refused or deleted nothing is left, unless a put out of time, a failed   *)
(* removal or a completion crossing a removal has disturbed the medium.     *)
THEOREM RowsTellOfTheStore == Spec => []MediaMatchesRow
  <1>1. IInv => MediaMatchesRow
    BY DEF IInv, EvidenceOK
  <1>. QED BY <1>1, EventHandlingInvariance, PTL

(* A receiver has seen no post of a delivery that neither its row, nor a    *)
(* batch under way, nor one that died accounts for, and no two batches post *)
(* one delivery at a time.                                                  *)
THEOREM EveryPostIsAccountedFor == Spec => []PostsAccountedFor
  <1>1. IInv => PostsAccountedFor
    BY Accounted DEF IInv
  <1>. QED BY <1>1, EventHandlingInvariance, PTL

(* A review that resolves its event by coaching commits with exactly one    *)
(* active action of it, whoever inserted that action.                       *)
THEOREM ReviewsAssignOneAction == Spec => CoachingAssigned
  <1>1. IInv /\ [Next]_vars =>
          [\A p \in Process :
             call[p].op = "review" /\ call'[p] = Idle /\ event' # event /\ ~call[p].stale
             => Cardinality(ActiveIn(action', call[p].event)) = 1]_<<call, event, action>>
    <2> SUFFICES ASSUME IInv, [Next]_vars, NEW p \in Process,
                        call[p].op = "review", call'[p] = Idle, event' # event, ~call[p].stale
                 PROVE  Cardinality(ActiveIn(action', call[p].event)) = 1
      OBVIOUS
    <2>1. CoachingStep
      BY DEF Next, vars, coachingVars
    <2>. QED BY <2>1, ReviewAssigns DEF IInv
  <1>. QED BY <1>1, EventHandlingInvariance, PTL DEF CoachingAssigned, Spec

(* A finished action changes only by a request that read it before it was   *)
(* finished.                                                                *)
THEOREM FinishedActionsStay == Spec => TerminalIsFinal
  <1>1. IInv /\ [Next]_vars =>
          [\A i \in DOMAIN action :
             action[i].status \notin ActiveStatuses /\ action'[i] # action[i]
             => \E p \in OnAction(i) : call[p].stale /\ call'[p] = Idle]_<<call, action>>
    <2> SUFFICES ASSUME IInv, [Next]_vars, NEW i \in DOMAIN action,
                        action[i].status \notin ActiveStatuses, action'[i] # action[i]
                 PROVE  \E p \in OnAction(i) : call[p].stale /\ call'[p] = Idle
      OBVIOUS
    <2>1. CoachingStep
      BY DEF Next, vars, coachingVars
    <2>. QED BY <2>1, FinishedStays DEF IInv
  <1>. QED BY <1>1, EventHandlingInvariance, PTL DEF TerminalIsFinal, Spec
-----------------------------------------------------------------------------
(* Webhook delivery implements WebhookPromise.  The invariant is needed     *)
(* where a step of the promise has a guard: one batch has a delivery in     *)
(* hand, and it is pending as long.                                         *)
Held(d) == IF InBatch(d) THEN "told" ELSE "owed"

LedgerRow(row, post, held) ==
  [state |-> IF row.status # "pending" THEN row.status ELSE held,
   tries |-> row.attempts, seen |-> post.received, lost |-> post.forgotten]

LedgerIs ==
  /\ DOMAIN Ledger = DOMAIN delivery
  /\ \A d \in DOMAIN delivery : Ledger[d] = LedgerRow(delivery[d], posts[d], Held(d))
  /\ Ledger = [d \in DOMAIN Ledger |-> Ledger[d]]

LEMMA LedgerIsSo == LedgerIs
  <1>1. \A d : (\E p \in Process : ArrivedIn(p, d) = 1) <=> InBatch(d)
    BY ArrivedInIt DEF InBatch
  <1>. QED BY <1>1 DEF LedgerIs, Ledger, LedgerRow, Held

LEMMA LedgerNow ==
  /\ DOMAIN Ledger = DOMAIN delivery
  /\ \A d \in DOMAIN delivery : Ledger[d] = LedgerRow(delivery[d], posts[d], Held(d))
  /\ Ledger = [d \in DOMAIN Ledger |-> Ledger[d]]
  BY LedgerIsSo DEF LedgerIs

LEMMA LedgerThen ==
  /\ DOMAIN Ledger' = DOMAIN delivery'
  /\ \A d \in DOMAIN delivery' : Ledger'[d] = LedgerRow(delivery'[d], posts'[d], Held(d)')
  /\ Ledger' = [d \in DOMAIN Ledger' |-> Ledger'[d]]
  <1>1. LedgerIs'
    BY LedgerIsSo, PTL
  <1>. QED BY <1>1 DEF LedgerIs

(* A step that no receiver sees.                                            *)
LEMMA NothingShown ==
  ASSUME DOMAIN delivery' = DOMAIN delivery, UNCHANGED posts,
         \A d \in DOMAIN delivery : /\ delivery'[d].status = delivery[d].status
                                    /\ delivery'[d].attempts = delivery[d].attempts
                                    /\ InBatch(d)' <=> InBatch(d)
  PROVE  UNCHANGED Ledger
  <1>1. \A d \in DOMAIN Ledger : Ledger'[d] = Ledger[d]
    BY LedgerNow, LedgerThen DEF LedgerRow, Held
  <1>. QED BY <1>1, LedgerNow, LedgerThen

LEMMA QueuePromised ==
  ASSUME WebhooksOK, NEW n \in Nat, NEW hs \in [1..n -> Endpoint], Queue(hs), UNCHANGED call
  PROVE  Promise!Next
  <1>1. /\ DOMAIN posts' = DOMAIN delivery'
        /\ \A d \in DOMAIN delivery : /\ d \in DOMAIN delivery'
                                      /\ delivery'[d] = delivery[d] /\ posts'[d] = posts[d]
        /\ \A d \in DOMAIN delivery' \ DOMAIN delivery :
             /\ delivery'[d].status = "pending" /\ delivery'[d].attempts = 0
             /\ posts'[d].received = 0 /\ posts'[d].forgotten = 0 /\ posts'[d].earlier = 0
    BY QueueEffect
  <1>2. \A d : (InBatch(d)' <=> InBatch(d)) /\ Held(d)' = Held(d)
    BY DEF Held, InBatch
  <1>3. \A d : InBatch(d) => d \in DOMAIN delivery
    BY Deliveries DEF InBatch, HasArrived, WebhookCall
  <1>4. ASSUME NEW d \in DOMAIN Ledger'
        PROVE  Ledger'[d] = IF d \in DOMAIN Ledger THEN Ledger[d] ELSE Promise!Queued
    <2>1. CASE d \in DOMAIN delivery
      BY <1>1, <1>2, <2>1, LedgerNow, LedgerThen
    <2>2. CASE d \notin DOMAIN delivery
      <3>1. d \in DOMAIN delivery' \ DOMAIN delivery /\ Held(d)' = "owed"
        BY <1>2, <1>3, <2>2, LedgerThen DEF Held
      <3>2. LedgerRow(delivery'[d], posts'[d], "owed") = Promise!Queued
        BY <1>1, <3>1 DEF LedgerRow, Promise!Queued
      <3>. QED BY <2>2, <3>1, <3>2, LedgerNow, LedgerThen
    <2>. QED BY <2>1, <2>2
  <1>5. DOMAIN Ledger \subseteq DOMAIN Ledger'
    BY <1>1, LedgerNow, LedgerThen
  <1>6. Ledger' = [d \in DOMAIN Ledger' |->
                     IF d \in DOMAIN Ledger THEN Ledger[d] ELSE Promise!Queued]
    BY <1>4, LedgerThen
  <1>. QED BY <1>5, <1>6 DEF Promise!Next, Promise!Queue

LEMMA ToldRow ==
  ASSUME NEW t, NEW n \in Nat, NEW y \in Nat
  PROVE  Promise!Told([state |-> "owed", tries |-> t, seen |-> n, lost |-> y])
           = [state |-> "told", tries |-> t, seen |-> n + 1, lost |-> y]
  <1>1. PICK r : r = [state |-> "owed", tries |-> t, seen |-> n, lost |-> y]
    OBVIOUS
  <1>2. PICK u : u = [r EXCEPT !.state = "told"]
    OBVIOUS
  <1>3. u = [state |-> "told", tries |-> t, seen |-> n, lost |-> y]
    BY <1>1, <1>2
  <1>4. [u EXCEPT !.seen = n + 1] = [state |-> "told", tries |-> t, seen |-> n + 1, lost |-> y]
    BY ONLY <1>3
  <1>5. r.seen = n
    BY <1>1
  <1>. QED BY <1>1, <1>2, <1>4, <1>5 DEF Promise!Told

LEMMA LostRow ==
  ASSUME NEW t, NEW n \in Nat, NEW y \in Nat
  PROVE  Promise!Lost([state |-> "told", tries |-> t, seen |-> n, lost |-> y])
           = [state |-> "owed", tries |-> t, seen |-> n, lost |-> y + 1]
  <1>1. PICK r : r = [state |-> "told", tries |-> t, seen |-> n, lost |-> y]
    OBVIOUS
  <1>2. PICK u : u = [r EXCEPT !.state = "owed"]
    OBVIOUS
  <1>3. u = [state |-> "owed", tries |-> t, seen |-> n, lost |-> y]
    BY <1>1, <1>2
  <1>4. [u EXCEPT !.lost = y + 1] = [state |-> "owed", tries |-> t, seen |-> n, lost |-> y + 1]
    BY ONLY <1>3
  <1>5. r.lost = y
    BY <1>1
  <1>. QED BY <1>1, <1>2, <1>4, <1>5 DEF Promise!Lost

(* A post that arrives is the only one of its delivery under way.           *)
LEMMA TellPromised ==
  ASSUME CallsOK, WebhooksOK, NEW p \in Process, NEW d \in DOMAIN delivery,
         NEW outcome \in Outcome, SendOne(p, d, outcome)
  PROVE  [Promise!Next]_Ledger
  <1>1. /\ Claims(call[p], d) /\ UNCHANGED delivery /\ ~InBatch(d)
        /\ InBatch(d)' <=> outcome \in Arrived
        /\ \A k : k # d => (InBatch(k)' <=> InBatch(k))
        /\ \A k \in DOMAIN posts : k # d => posts'[k] = posts[k]
        /\ posts'[d].forgotten = posts[d].forgotten
        /\ posts'[d].received = posts[d].received + (IF outcome \in Arrived THEN 1 ELSE 0)
    BY SendOneEffect
  <1>2. /\ \A k \in DOMAIN delivery : posts[k] \in PostRow
        /\ DOMAIN posts = DOMAIN delivery /\ DOMAIN Ledger = DOMAIN delivery
        /\ DOMAIN Ledger' = DOMAIN delivery /\ delivery[d].status = "pending"
    BY <1>1, Deliveries, LedgerNow, LedgerThen DEF WebhookCall
  <1>3. ASSUME NEW k \in DOMAIN delivery, k # d
        PROVE  Ledger'[k] = Ledger[k]
    <2>1. Held(k)' = Held(k)
      BY <1>1, <1>3 DEF Held
    <2>. QED BY <1>1, <1>2, <1>3, <2>1, LedgerNow, LedgerThen
  <1>4. PICK f \in Nat, x \in Nat : f = posts[d].forgotten /\ x = posts[d].received
    BY <1>2 DEF PostRow
  <1>5. Ledger[d] = [state |-> "owed", tries |-> delivery[d].attempts, seen |-> x, lost |-> f]
    BY <1>1, <1>2, <1>4, LedgerNow DEF LedgerRow, Held
  <1>6. CASE outcome \notin Arrived
    <2>1. posts'[d].forgotten = f /\ posts'[d].received = x /\ ~InBatch(d)'
      BY <1>1, <1>4, <1>6
    <2>2. Ledger'[d] = Ledger[d]
      BY <1>1, <1>2, <1>5, <2>1, LedgerThen DEF LedgerRow, Held
    <2>. QED BY <1>2, <1>3, <2>2, LedgerNow, LedgerThen
  <1>7. CASE outcome \in Arrived
    <2>1. posts'[d].forgotten = f /\ posts'[d].received = x + 1 /\ InBatch(d)'
      BY <1>1, <1>4, <1>7
    <2>2. Ledger'[d] = [state |-> "told", tries |-> delivery[d].attempts, seen |-> x + 1,
                        lost |-> f]
      BY <1>1, <1>2, <2>1, LedgerThen DEF LedgerRow, Held
    <2>3. Ledger'[d] = Promise!Told(Ledger[d])
      BY <1>5, <2>2, ToldRow
    <2>4. Ledger' = [Ledger EXCEPT ![d] = Promise!Told(Ledger[d])]
      BY <1>2, <1>3, <2>3, LedgerNow, LedgerThen
    <2>5. Promise!Tell(d)
      BY <1>5, <2>4 DEF Promise!Tell
    <2>. QED BY <1>2, <2>5 DEF Promise!Next
  <1>. QED BY <1>6, <1>7

(* What a batch writes of a delivery is the promise's accepted or refused.  *)
LEMMA SentIsCounted ==
  ASSUME NEW row \in DeliveryRow, row.status = "pending", row.attempts # MaxAttempts,
         NEW outcome \in Outcome, NEW post, NEW held \in {"owed", "told"}
  PROVE  LedgerRow(Sent(row, outcome), post, "owed")
           = IF outcome = "ok" THEN Promise!Accepted(LedgerRow(row, post, held))
                               ELSE Promise!Refused(LedgerRow(row, post, held))
  <1>1. PICK n \in Nat : n = row.attempts /\ n < MaxAttempts
    BY WebhooksAssumption DEF DeliveryRow
  <1>2. MaxAttempts \in Nat
    BY WebhooksAssumption
  <1>3. PICK s : s = Sent(row, outcome)
    OBVIOUS
  <1>4. /\ s.attempts = IF outcome = "ok" THEN n ELSE n + 1
        /\ s.status = IF outcome = "ok" THEN "delivered"
                      ELSE IF n + 1 = MaxAttempts THEN "dead_letter" ELSE "pending"
    <2>1. CASE outcome = "ok"
      BY <1>1, <1>3, <2>1 DEF Sent, DeliveryRow
    <2>2. CASE outcome # "ok" /\ n + 1 >= MaxAttempts
      <3>1. s = [row EXCEPT !.attempts = n + 1, !.status = "dead_letter"] /\ n + 1 = MaxAttempts
        BY <1>1, <1>2, <1>3, <2>2 DEF Sent, DeliveryRow
      <3>. QED BY <2>2, <3>1 DEF DeliveryRow
    <2>3. CASE outcome # "ok" /\ ~(n + 1 >= MaxAttempts)
      <3>1. s = [row EXCEPT !.attempts = n + 1, !.due = FALSE] /\ n + 1 # MaxAttempts
        BY <1>1, <1>2, <1>3, <2>3 DEF Sent, DeliveryRow
      <3>. QED BY <2>3, <3>1 DEF DeliveryRow
    <2>. QED BY <2>1, <2>2, <2>3
  <1>5. LedgerRow(row, post, held)
          = [state |-> held, tries |-> n,
             seen |-> post.received, lost |-> post.forgotten]
    BY <1>1 DEF LedgerRow
  <1>6. CASE outcome = "ok"
    <2>1. s.status = "delivered" /\ s.attempts = n
      BY <1>4, <1>6
    <2>. QED BY <1>3, <1>5, <1>6, <2>1 DEF LedgerRow, Promise!Accepted
  <1>7. CASE outcome # "ok" /\ n + 1 = MaxAttempts
    <2>1. s.status = "dead_letter" /\ s.attempts = n + 1
      BY <1>4, <1>7
    <2>. QED BY <1>3, <1>5, <1>7, <2>1 DEF LedgerRow, Promise!Refused
  <1>8. CASE outcome # "ok" /\ n + 1 # MaxAttempts
    <2>1. s.status = "pending" /\ s.attempts = n + 1
      BY <1>4, <1>8
    <2>. QED BY <1>3, <1>5, <1>8, <2>1 DEF LedgerRow, Promise!Refused
  <1>. QED BY <1>6, <1>7, <1>8
LEMMA SettlePromised ==
  ASSUME CallsOK, WebhooksOK, NEW p \in Process, CommitDeliveries(p)
  PROVE  Promise!Next
  <1> DEFINE A == {d \in DOMAIN delivery : Claims(call[p], d) /\ call[p].result[d] = "ok"}
             R == {d \in DOMAIN delivery : Claims(call[p], d) /\ call[p].result[d] # "ok"}
  <1>1. /\ UNCHANGED posts /\ DOMAIN delivery' = DOMAIN delivery
        /\ \A d \in DOMAIN delivery :
             /\ Claims(call[p], d) => /\ delivery'[d] = Sent(delivery[d], call[p].result[d])
                                      /\ call[p].result[d] \in Outcome
             /\ ~Claims(call[p], d) => delivery'[d] = delivery[d]
        /\ \A d : Claims(call[p], d) => ~InBatch(d)'
        /\ \A d : ~Claims(call[p], d) => (InBatch(d)' <=> InBatch(d))
    BY CommitDeliveriesEffect
  <1>2. /\ DOMAIN Ledger = DOMAIN delivery /\ DOMAIN Ledger' = DOMAIN delivery
        /\ A \subseteq DOMAIN delivery /\ R \subseteq DOMAIN delivery /\ A \cap R = {}
    BY <1>1, LedgerNow, LedgerThen
  <1>3. ASSUME NEW d \in DOMAIN delivery, Claims(call[p], d)
        PROVE  /\ delivery[d] \in DeliveryRow /\ delivery[d].status = "pending"
               /\ delivery[d].attempts # MaxAttempts
    BY <1>3, Deliveries DEF WebhookCall, Settled
  <1>4. \A d \in A : Ledger[d].state = "told"
    <2> SUFFICES ASSUME NEW d \in A PROVE Ledger[d].state = "told"
      OBVIOUS
    <2>1. HasArrived(call[p], d) /\ delivery[d].status = "pending"
      BY <1>3 DEF HasArrived, Arrived, Outcome
    <2>2. InBatch(d)
      BY <2>1 DEF InBatch
    <2>. QED BY <2>1, <2>2, LedgerNow DEF LedgerRow, Held
  <1>5. \A d \in R : Ledger[d].state \in {"owed", "told"}
    BY <1>3, LedgerNow DEF LedgerRow, Held
  <1>6. ASSUME NEW d \in DOMAIN delivery
        PROVE  Ledger'[d] = IF d \in A THEN Promise!Accepted(Ledger[d])
                            ELSE IF d \in R THEN Promise!Refused(Ledger[d])
                            ELSE Ledger[d]
    <2>1. CASE ~Claims(call[p], d)
      BY <1>1, <2>1, LedgerNow, LedgerThen DEF LedgerRow, Held
    <2>2. CASE Claims(call[p], d)
      <3>1. PICK o \in Outcome : o = call[p].result[d] /\ delivery'[d] = Sent(delivery[d], o)
        BY <1>1, <2>2
      <3>2. Ledger'[d] = LedgerRow(Sent(delivery[d], o), posts[d], "owed")
        BY <1>1, <2>2, <3>1, LedgerThen DEF LedgerRow, Held
      <3>3. PICK row, post, held :
              /\ row = delivery[d] /\ post = posts[d] /\ held \in {"owed", "told"}
              /\ Ledger[d] = LedgerRow(row, post, held)
        BY LedgerNow DEF Held
      <3>4. row \in DeliveryRow /\ row.status = "pending" /\ row.attempts # MaxAttempts
        BY <1>3, <2>2, <3>3
      <3>5. LedgerRow(Sent(row, o), post, "owed")
              = IF o = "ok" THEN Promise!Accepted(LedgerRow(row, post, held))
                            ELSE Promise!Refused(LedgerRow(row, post, held))
        BY ONLY <3>3, <3>4, o \in Outcome, SentIsCounted
      <3>6. Ledger'[d] = IF o = "ok" THEN Promise!Accepted(Ledger[d])
                                     ELSE Promise!Refused(Ledger[d])
        BY ONLY <3>2, <3>3, <3>5
      <3>. QED BY <2>2, <3>1, <3>6
    <2>. QED BY <2>1, <2>2
  <1> HIDE DEF A, R
  <1>7. Ledger' = [d \in DOMAIN Ledger |-> IF d \in A THEN Promise!Accepted(Ledger[d])
                                           ELSE IF d \in R THEN Promise!Refused(Ledger[d])
                                           ELSE Ledger[d]]
    BY <1>2, <1>6, LedgerThen
  <1>8. Promise!Settle(A, R)
    BY <1>2, <1>4, <1>5, <1>7 DEF Promise!Settle
  <1>. QED BY <1>2, <1>8 DEF Promise!Next

LEMMA WithdrawPromised ==
  ASSUME CallsOK, WebhooksOK, NEW p \in Process, CommitDeleteWebhook(p)
  PROVE  Promise!Next
  <1> PICK h \in Endpoint : Cascade(p, h)
    BY CommitDeleteWebhookEffect
  <1>1. /\ DOMAIN delivery' = DOMAIN delivery /\ UNCHANGED posts
        /\ \A d \in DOMAIN delivery :
             /\ delivery[d].endpoint = h => delivery'[d] = [delivery[d] EXCEPT !.status = "gone"]
             /\ delivery[d].endpoint # h => delivery'[d] = delivery[d]
        /\ \A d : InBatch(d) => delivery[d].endpoint # h
        /\ \A d : InBatch(d)' <=> InBatch(d)
    BY DEF Cascade, InBatch, HasArrived
  <1> DEFINE W == {d \in DOMAIN delivery : delivery[d].endpoint = h}
  <1>2. /\ DOMAIN Ledger = DOMAIN delivery /\ DOMAIN Ledger' = DOMAIN delivery
        /\ W \subseteq DOMAIN delivery
    BY <1>1, LedgerNow, LedgerThen
  <1>3. \A d \in W : Ledger[d].state # "told"
    <2> SUFFICES ASSUME NEW d \in W PROVE Ledger[d].state # "told"
      OBVIOUS
    <2>1. ~InBatch(d) /\ delivery[d].status # "told"
      BY <1>1, Deliveries DEF DeliveryRow
    <2>. QED BY <2>1, LedgerNow DEF LedgerRow, Held
  <1>4. ASSUME NEW d \in DOMAIN delivery
        PROVE  Ledger'[d] = IF d \in W THEN [Ledger[d] EXCEPT !.state = "gone"] ELSE Ledger[d]
    <2>1. CASE d \notin W
      BY <1>1, <2>1, LedgerNow, LedgerThen DEF LedgerRow, Held
    <2>2. CASE d \in W
      <3>1. delivery'[d].status = "gone" /\ delivery'[d].attempts = delivery[d].attempts
        BY <1>1, <2>2, Deliveries DEF DeliveryRow
      <3>2. Ledger'[d] = [state |-> "gone", tries |-> delivery[d].attempts,
                          seen |-> posts[d].received, lost |-> posts[d].forgotten]
        BY <1>1, <3>1, LedgerThen DEF LedgerRow, Held
      <3>3. [Ledger[d] EXCEPT !.state = "gone"]
              = [state |-> "gone", tries |-> delivery[d].attempts,
                 seen |-> posts[d].received, lost |-> posts[d].forgotten]
        BY LedgerNow DEF LedgerRow, Held
      <3>. QED BY <2>2, <3>2, <3>3
    <2>. QED BY <2>1, <2>2
  <1> HIDE DEF W
  <1>5. Ledger' = [d \in DOMAIN Ledger |->
                     IF d \in W THEN [Ledger[d] EXCEPT !.state = "gone"] ELSE Ledger[d]]
    BY <1>2, <1>4, LedgerThen
  <1>6. Promise!Withdraw(W)
    BY <1>3, <1>5 DEF Promise!Withdraw
  <1>. QED BY <1>2, <1>6 DEF Promise!Next

LEMMA LosePromised ==
  ASSUME CallsOK, WebhooksOK, NEW p \in Process, AbortWebhooks(p)
  PROVE  Promise!Next
  <1> DEFINE L == {d \in DOMAIN delivery : HasArrived(call[p], d)}
  <1>1. /\ UNCHANGED delivery
        /\ \A d \in DOMAIN delivery :
             /\ posts'[d].received = posts[d].received
             /\ posts'[d].forgotten
                  = posts[d].forgotten + (IF HasArrived(call[p], d) THEN 1 ELSE 0)
        /\ \A d : HasArrived(call[p], d) => InBatch(d) /\ ~InBatch(d)'
        /\ \A d : ~HasArrived(call[p], d) => (InBatch(d)' <=> InBatch(d))
    BY AbortWebhooksEffect
  <1>2. /\ DOMAIN Ledger = DOMAIN delivery /\ DOMAIN Ledger' = DOMAIN delivery
        /\ L \subseteq DOMAIN delivery
        /\ \A d \in DOMAIN delivery : posts[d] \in PostRow
    BY <1>1, Deliveries, LedgerNow, LedgerThen
  <1>3. ASSUME NEW d \in L
        PROVE  /\ Ledger[d] = [state |-> "told", tries |-> delivery[d].attempts,
                               seen |-> posts[d].received, lost |-> posts[d].forgotten]
               /\ Ledger'[d] = [state |-> "owed", tries |-> delivery[d].attempts,
                                seen |-> posts[d].received, lost |-> posts[d].forgotten + 1]
    <2>1. d \in DOMAIN delivery /\ HasArrived(call[p], d) /\ InBatch(d) /\ ~InBatch(d)'
      BY <1>1
    <2>2. delivery[d].status = "pending"
      BY <2>1, Deliveries DEF HasArrived, WebhookCall
    <2>. QED BY <1>1, <2>1, <2>2, LedgerNow, LedgerThen DEF LedgerRow, Held
  <1>4. ASSUME NEW d \in DOMAIN delivery
        PROVE  Ledger'[d] = IF d \in L THEN Promise!Lost(Ledger[d]) ELSE Ledger[d]
    <2>1. posts[d].received \in Nat /\ posts[d].forgotten \in Nat
      BY <1>2 DEF PostRow
    <2>2. CASE d \in L
      <3>1. PICK x \in Nat, f \in Nat : x = posts[d].received /\ f = posts[d].forgotten
        BY <2>1
      <3> DEFINE t == delivery[d].attempts
      <3>2. /\ Ledger[d] = [state |-> "told", tries |-> t, seen |-> x, lost |-> f]
            /\ Ledger'[d] = [state |-> "owed", tries |-> t, seen |-> x, lost |-> f + 1]
        BY <1>3, <2>2, <3>1
      <3> HIDE DEF t
      <3>3. Ledger'[d] = Promise!Lost(Ledger[d])
        BY ONLY <3>2, x \in Nat, f \in Nat, LostRow
      <3>. QED BY <2>2, <3>3
    <2>3. CASE d \notin L
      <3>1. posts'[d].forgotten = posts[d].forgotten /\ posts'[d].received = posts[d].received
        BY <1>1, <2>1, <2>3
      <3>2. Held(d)' = Held(d)
        BY <1>1, <2>3 DEF Held
      <3>3. /\ Ledger[d] = LedgerRow(delivery[d], posts[d], Held(d))
            /\ Ledger'[d] = LedgerRow(delivery[d], posts'[d], Held(d)')
        BY <1>1, LedgerNow, LedgerThen
      <3>. QED BY <2>3, <3>1, <3>2, <3>3 DEF LedgerRow
    <2>. QED BY <2>2, <2>3
  <1>5. \A d \in L : Ledger[d].state = "told"
    <2> SUFFICES ASSUME NEW d \in L PROVE Ledger[d].state = "told"
      OBVIOUS
    <2>1. Ledger[d] = [state |-> "told", tries |-> delivery[d].attempts,
                       seen |-> posts[d].received, lost |-> posts[d].forgotten]
      BY <1>3
    <2>. QED BY ONLY <2>1
  <1> HIDE DEF L
  <1>6. Ledger' = [d \in DOMAIN Ledger |->
                     IF d \in L THEN Promise!Lost(Ledger[d]) ELSE Ledger[d]]
    BY <1>2, <1>4, LedgerThen
  <1>7. Promise!Lose(L)
    BY <1>5, <1>6 DEF Promise!Lose
  <1>. QED BY <1>2, <1>7 DEF Promise!Next

(* A dead letter that is queued again is owed from the first attempt on.    *)
LEMMA RequeuePromised ==
  ASSUME WebhooksOK, NEW d \in DOMAIN delivery, Requeue(d)
  PROVE  Promise!Next
  <1>1. /\ UNCHANGED call /\ delivery[d].status = "dead_letter" /\ ~InBatch(d)
        /\ DOMAIN delivery' = DOMAIN delivery
        /\ delivery'[d].status = "pending" /\ delivery'[d].attempts = 0
        /\ \A k \in DOMAIN delivery : k # d => delivery'[k] = delivery[k]
        /\ posts'[d].received = posts[d].received
        /\ posts'[d].forgotten = posts[d].forgotten
        /\ \A k \in DOMAIN posts : k # d => posts'[k] = posts[k]
    BY RequeueEffect
  <1>2. DOMAIN posts = DOMAIN delivery
    BY Deliveries
  <1>3. \A k : InBatch(k)' <=> InBatch(k)
    BY <1>1 DEF InBatch
  <1>4. \A k \in DOMAIN Ledger : k # d => Ledger'[k] = Ledger[k]
    <2>1. \A k : Held(k)' = Held(k)
      BY <1>3 DEF Held
    <2>. QED BY <1>1, <1>2, <2>1, LedgerNow, LedgerThen
  <1>5. PICK r : r = Ledger[d]
    OBVIOUS
  <1>6. r = [state |-> "dead_letter", tries |-> delivery[d].attempts,
             seen |-> posts[d].received, lost |-> posts[d].forgotten]
    BY <1>1, <1>5, LedgerNow DEF LedgerRow
  <1>7. Ledger'[d] = [state |-> "owed", tries |-> 0,
                      seen |-> posts[d].received, lost |-> posts[d].forgotten]
    BY <1>1, <1>3, LedgerThen DEF LedgerRow, Held
  <1>8. Promise!Requeued(r) = Ledger'[d]
    <2>1. PICK x, y, t : x = posts[d].received /\ y = posts[d].forgotten /\ t = delivery[d].attempts
      OBVIOUS
    <2>2. PICK u : u = [r EXCEPT !.state = "owed"]
      OBVIOUS
    <2>3. u = [state |-> "owed", tries |-> t, seen |-> x, lost |-> y]
      BY <1>6, <2>1, <2>2
    <2>4. [u EXCEPT !.tries = 0] = [state |-> "owed", tries |-> 0, seen |-> x, lost |-> y]
      BY ONLY <2>3
    <2>. QED BY <1>7, <2>1, <2>2, <2>4 DEF Promise!Requeued
  <1>9. Ledger' = [Ledger EXCEPT ![d] = Promise!Requeued(Ledger[d])]
    BY <1>1, <1>4, <1>5, <1>8, LedgerNow, LedgerThen
  <1>10. Ledger[d].state = "dead_letter" /\ d \in DOMAIN Ledger
    BY <1>5, <1>6, LedgerNow
  <1>. QED BY <1>9, <1>10 DEF Promise!Next, Promise!Requeue

(* The requests of the other parts have no deliveries in hand.              *)
LEMMA SparesBatches ==
  ASSUME NEW own, Spares(own), own \subseteq CoachingCalls \cup EvidenceCalls
  PROVE  \A d : InBatch(d)' <=> InBatch(d)
  <1>1. \A q \in Process :
          \/ call'[q] = call[q]
          \/ call[q].op # "deliver" /\ call'[q].op # "deliver"
    BY OpOf DEF Spares
  <1>2. \A q \in Process : \A d : HasArrived(call'[q], d) <=> HasArrived(call[q], d)
    BY <1>1, NoClaim
  <1>. QED BY <1>2 DEF InBatch

LEMMA WebhooksStepPromised ==
  ASSUME CallsOK, WebhooksOK, WebhooksStep
  PROVE  [Promise!Next]_Ledger
  <1>1. ASSUME UNCHANGED <<call, delivery, posts>>
        PROVE  UNCHANGED Ledger
    BY <1>1, NothingShown DEF InBatch
  <1>2. ASSUME NEW min \in Severity, NEW channels \in SUBSET {"in_app", "webhook"},
               CreateRule(min, channels)
        PROVE  UNCHANGED Ledger
    BY <1>1, <1>2 DEF CreateRule, AtOnce
  <1>3. ASSUME NEW h \in Endpoint, NEW status, CreateWebhook(h) \/ UpdateWebhook(h, status)
        PROVE  UNCHANGED Ledger
    BY <1>1, <1>3 DEF CreateWebhook, UpdateWebhook, AtOnce
  <1>4. ASSUME NEW h \in Endpoint, SendTest(h)
        PROVE  Promise!Next
    <2>1. PICK n \in Nat : n = 1
      OBVIOUS
    <2>2. <<h>> \in [1..n -> Endpoint]
      BY <2>1
    <2>3. Queue(<<h>>) /\ UNCHANGED call
      BY <1>4 DEF SendTest, AtOnce
    <2>. QED BY <2>2, <2>3, QueuePromised
  <1>5. ASSUME NEW p \in Process, NEW h \in Endpoint, DeleteWebhook(p, h)
        PROVE  UNCHANGED Ledger
    <2> DEFINE c == [op |-> "delete_webhook", row |-> h]
    <2>1. /\ UNCHANGED <<delivery, posts>> /\ call[p] = Idle
          /\ call' = [call EXCEPT ![p] = c]
      BY <1>5 DEF DeleteWebhook, Begin, webhookVars
    <2>2. c \in WebhookCalls /\ c.op # "deliver"
      BY DEF WebhookCalls, DeleteCall
    <2> HIDE DEF c
    <2>3. \A d : ~HasArrived(c, d) /\ ~HasArrived(call[p], d)
      BY <2>1, <2>2, NoClaim DEF Idle
    <2>4. \A d : InBatch(d)' <=> InBatch(d)
      BY <2>1, <2>2, <2>3, WebhookMoved
    <2>. QED BY <2>1, <2>4, NothingShown
  <1>6. ASSUME NEW n \in DOMAIN notices, MarkRead(n)
        PROVE  UNCHANGED Ledger
    BY <1>1, <1>6 DEF MarkRead, AtOnce
  <1>7. ASSUME NEW severity \in Severity, NEW n \in 0..Cardinality(Endpoint),
               NEW hs \in [1..n -> Endpoint], OnSafetyEvent(severity, hs)
        PROVE  Promise!Next
    <2>1. n \in Nat
      OBVIOUS
    <2>2. UNCHANGED call /\ \E k \in Nat : Queue(Times(k, hs))
      BY <1>7, <2>1, QueuedBySafetyEvent
    <2>3. PICK k \in Nat : Queue(Times(k, hs))
      BY <2>2
    <2>4. PICK m \in Nat : Times(k, hs) \in [1..m -> Endpoint]
      BY <2>1, TimesTyped
    <2>. QED BY <2>2, <2>3, <2>4, QueuePromised
  <1>8. ASSUME NEW p \in Process, NEW batch \in SUBSET Unclaimed, DeliverPending(p, batch)
        PROVE  UNCHANGED Ledger
    <2>1. UNCHANGED <<delivery, posts>> /\ \A d : InBatch(d)' <=> InBatch(d)
      BY <1>8, DeliverPendingEffect DEF webhookVars
    <2>. QED BY <2>1, NothingShown
  <1>9. ASSUME NEW d \in DOMAIN delivery, BackoffEnds(d)
        PROVE  UNCHANGED Ledger
    <2>1. UNCHANGED <<call, posts>> /\ delivery' = [delivery EXCEPT ![d].due = TRUE]
      BY <1>9 DEF BackoffEnds, requestVars
    <2>2. \A k \in DOMAIN delivery : delivery[k] \in DeliveryRow
      BY Deliveries
    <2>3. /\ DOMAIN delivery' = DOMAIN delivery
          /\ \A k \in DOMAIN delivery : /\ delivery'[k].status = delivery[k].status
                                        /\ delivery'[k].attempts = delivery[k].attempts
      BY <2>1, <2>2 DEF DeliveryRow
    <2>. QED BY <2>1, <2>3, NothingShown DEF InBatch
  <1>10. ASSUME NEW p \in Process, NEW d \in DOMAIN delivery, NEW outcome \in Outcome,
                SendOne(p, d, outcome)
         PROVE  [Promise!Next]_Ledger
    BY <1>10, TellPromised
  <1>11. ASSUME NEW p \in Process,
                CommitDeliveries(p) \/ CommitDeleteWebhook(p) \/ AbortWebhooks(p)
         PROVE  Promise!Next
    BY <1>11, SettlePromised, WithdrawPromised, LosePromised
  <1>12. ASSUME NEW h \in Endpoint,
                \/ CreateWebhook(h) \/ SendTest(h)
                \/ \E status \in {"active", "inactive"} : UpdateWebhook(h, status)
         PROVE  [Promise!Next]_Ledger
    BY <1>3, <1>4, <1>12
  <1>13. ASSUME NEW d \in DOMAIN delivery, Requeue(d)
         PROVE  Promise!Next
    BY <1>13, RequeuePromised
  <1>. QED BY <1>2, <1>5, <1>6, <1>7, <1>8, <1>9, <1>10, <1>11, <1>12, <1>13 DEF WebhooksStep

(* Webhook delivery implements its promise: each step of any part is one of *)
(* WebhookPromise or shows nothing of it, for any number of batches.        *)
THEOREM PromiseKept == Spec => ImplementsPromise
  <1>1. Init => Promise!Init
    BY LedgerNow DEF Init, WebhooksInit, Promise!Init
  <1>2. ASSUME IInv, [Next]_vars
        PROVE  [Promise!Next]_Ledger
    <2>1. CallsOK /\ WebhooksOK
      BY <1>2 DEF IInv
    <2>2. ASSUME UNCHANGED <<delivery, posts>>, \A d : InBatch(d)' <=> InBatch(d)
          PROVE  UNCHANGED Ledger
      BY <2>2, NothingShown
    <2>3. CASE CoachingStep /\ UNCHANGED <<evidenceVars, webhookVars>>
      <3>1. Spares(CoachingCalls)
        BY <1>2, <2>3, CoachingStepKeeps DEF IInv
      <3>2. \A d : InBatch(d)' <=> InBatch(d)
        BY <3>1, SparesBatches
      <3>. QED BY <2>2, <2>3, <3>2 DEF webhookVars
    <2>4. CASE EvidenceStep /\ UNCHANGED <<coachingVars, webhookVars>>
      <3>1. Spares(EvidenceCalls)
        BY <1>2, <2>4, EvidenceStepKeeps DEF IInv
      <3>2. \A d : InBatch(d)' <=> InBatch(d)
        BY <3>1, SparesBatches
      <3>. QED BY <2>2, <2>4, <3>2 DEF webhookVars
    <2>5. CASE WebhooksStep
      BY <2>1, <2>5, WebhooksStepPromised
    <2>6. CASE UNCHANGED vars
      <3>1. UNCHANGED <<delivery, posts, call>>
        BY <2>6 DEF vars, webhookVars, requestVars
      <3>. QED BY <2>2, <3>1 DEF InBatch
    <2>. QED BY <1>2, <2>3, <2>4, <2>5, <2>6 DEF Next
  <1>. QED BY <1>1, <1>2, EventHandlingInvariance, PTL DEF Spec, ImplementsPromise
================================================================================
