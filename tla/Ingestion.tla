------------------------------ MODULE Ingestion ------------------------------
(***************************************************************************)
(* Ingestion of events for one organization, beside the fleet registry     *)
(* that decides which vehicles are known: API clients and their keys, data *)
(* sources, and batches of envelopes                                       *)
(* (application/ingestion/service.py, application/api_clients/service.py). *)
(*                                                                         *)
(* A batch is one transaction of many statements: it reads the data source *)
(* and the vehicles once, then inserts its events one by one, each insert  *)
(* ON CONFLICT DO NOTHING, which waits while another transaction has an    *)
(* uncommitted row of the same key, and at the end commits rows, outbox    *)
(* events and counters together or not at all.  An import of CSV rows is a *)
(* batch like another.                                                     *)
(***************************************************************************)
EXTENDS Fleet, FiniteSetsExt

CONSTANTS
  Client, Token,  (* API clients and their keys. *)
  Source,         (* Keys of data sources, and sources that envelopes name. *)
  EventId,        (* event_id: the producer's, or the one of events without. *)
  Envelopes,      (* What producers send: a subset of Envelope. *)
  Files,          (* What is imported: rows of CSV files. *)
  MaxBatch        (* _MAX_BATCH, small. *)

VARIABLES
  client, token,
  source,     (* Each data source and its counters. *)
  inbox,      (* ingest_events by natural key. *)
  published,  (* ingest.event_accepted events enqueued for a key. *)
  answered,   (* History: the outcomes of committed batches, by key. *)
  total,      (* History: the outcomes of committed batches, by source. *)
  overtaken   (* History: the counters written from a stale value. *)

clientVars == <<client, token>>
batchVars == <<source, inbox, published, answered, total, overtaken>>
ingestionVars == <<fleetVars, clientVars, batchVars>>

-----------------------------------------------------------------------------
(* Data *)

(* The first thing wrong with an envelope: its schema_version, its fields   *)
(* or event_type, the payload of a position, its time; or nothing.          *)
Form == {"version", "shape", "position", "time", "good"}

Envelope == [source : Source, id : EventId, vehicle : Vehicle, form : Form]

(* A line of a CSV file that is empty is no row.                            *)
Blank == [form |-> "blank"]

ASSUME IngestionAssumption ==
  /\ Envelopes \subseteq Envelope
  /\ Files \subseteq Seq(Envelope \cup {Blank})
  /\ MaxBatch \in Nat

Key == Source \X EventId

Outcome == {"accepted", "duplicate", "quarantined"}

IngestRow == {"none", "accepted", "quarantined"}

NoCounts == [o \in Outcome |-> 0]

DataSource == [exists : BOOLEAN, count : [Outcome -> Nat]]

TokenRow == [status : {"none", "live", "over"}, ingest : BOOLEAN]

IngestionInit ==
  /\ FleetInit
  /\ client = {}
  /\ token = [t \in Token |-> [status |-> "none", ingest |-> FALSE]]
  /\ source = [s \in Source |-> [exists |-> FALSE, count |-> NoCounts]]
  /\ inbox = [k \in Key |-> "none"]
  /\ published = [k \in Key |-> 0]
  /\ answered = [k \in Key |-> NoCounts]
  /\ total = [s \in Source |-> NoCounts]
  /\ overtaken = {}

-----------------------------------------------------------------------------
(* API clients and data sources *)

CreateClient(c) ==
  /\ c \notin client
  /\ client' = client \cup {c}
  /\ AtOnce("client")
  /\ UNCHANGED <<registryVars, planVars, token, batchVars>>

(* scopes: ingest:write, evidence:write or both.                            *)
IssueToken(t, ingest) ==
  /\ client # {}
  /\ token[t].status = "none"
  /\ token' = [token EXCEPT ![t] = [status |-> "live", ingest |-> ingest]]
  /\ AtOnce("client")
  /\ UNCHANGED <<registryVars, planVars, client, batchVars>>

(* Revoked, or past its expires_at.                                         *)
RevokeToken(t) ==
  /\ token[t].status = "live"
  /\ token' = [token EXCEPT ![t].status = "over"]
  /\ AtOnce("client")
  /\ UNCHANGED <<registryVars, planVars, client, batchVars>>

(* Looked up first and inserted then: a concurrent one of the same key      *)
(* fails by the unique constraint instead.                                  *)
CreateDataSource(s) ==
  /\ ~source[s].exists
  /\ source' = [source EXCEPT ![s].exists = TRUE]
  /\ AtOnce("client")
  /\ UNCHANGED <<registryVars, planVars, clientVars,
                 inbox, published, answered, total, overtaken>>

VerifyToken(t) == token[t].status = "live"

(* The rate limit of a client is in RateLimit.                              *)
IngestAuth(t) == VerifyToken(t) /\ token[t].ingest

-----------------------------------------------------------------------------
(* A batch *)

(* What the schema, the envelope, the payload and the clock let pass; the   *)
(* rejection reasons are told apart only by what is stored.                 *)
Parsed(e) == e.form \notin {"version", "shape"}

Accepts(e, known) == e.form = "good" /\ e.vehicle \in known

(* An event that is not parsed is stored under the key of its data source.  *)
NaturalKey(e, s) == <<IF Parsed(e) THEN e.source ELSE s, e.id>>

(* rows: inserted and not committed; stale: counters another batch has      *)
(* written since source was read.                                           *)
NewBatch(s, events) ==
  [op |-> "ingest", source |-> s, todo |-> events, read |-> FALSE,
   known |-> {}, base |-> source[s].count, rows |-> {}, outcomes |-> <<>>,
   stale |-> {}]

IngestEvents(p, s, events) ==
  /\ \E t \in Token : IngestAuth(t)
  /\ source[s].exists
  /\ Begin(p, "batch", NewBatch(s, events))
  /\ UNCHANGED <<registryVars, planVars, clientVars, batchVars>>

(* A row has a cell for every field of the envelope it has: an empty cell   *)
(* is a field left out, a cell of the payload a number if it looks like one.*)
CsvToEnvelopes(file) == SelectSeq(file, LAMBDA row : row.form # "blank")

IngestCsv(p, s, file) ==
  LET events == CsvToEnvelopes(file)
  IN /\ Len(events) \in 1..MaxBatch
     /\ IngestEvents(p, s, events)

Ingesting(p) == call[p].op = "ingest"

KnownVehicles(p) ==
  /\ Ingesting(p) /\ ~call[p].read
  /\ call' = [call EXCEPT ![p].known = Registered, ![p].read = TRUE]
  /\ UNCHANGED <<registryVars, planVars, budget, clientVars, batchVars>>

Inserted(p, k) == \E r \in call[p].rows : r.key = k

(* The unique constraint on (organization_id, source, external_event_id).   *)
Conflict(p, k) == inbox[k] # "none" \/ Inserted(p, k)

Waits(p, k) == \E q \in Process \ {p} : Ingesting(q) /\ Inserted(q, k)

Stored(p, k, status, outcome) ==
  call' = [call EXCEPT
             ![p].todo = Tail(@),
             ![p].rows = IF Conflict(p, k) THEN @
                         ELSE @ \cup {[key |-> k, status |-> status]},
             ![p].outcomes = Append(@, [key |-> k, outcome |-> outcome])]

(* With the insert's result not looked at.                                  *)
StoreAcceptedAlways(p, k) == Stored(p, k, "accepted", "accepted")

StoreAccepted(p, k) ==
  Stored(p, k, "accepted", IF Conflict(p, k) THEN "duplicate" ELSE "accepted")

(* An event with a conflict is answered as quarantined and not stored.      *)
StoreQuarantine(p, k) == Stored(p, k, "quarantined", "quarantined")

IngestOne(p) ==
  /\ Ingesting(p) /\ call[p].read /\ call[p].todo # <<>>
  /\ LET e == Head(call[p].todo)
         k == NaturalKey(e, call[p].source)
     IN /\ ~Waits(p, k)
        /\ IF Accepts(e, call[p].known) THEN StoreAccepted(p, k)
                                        ELSE StoreQuarantine(p, k)
  /\ UNCHANGED <<registryVars, planVars, budget, clientVars, batchVars>>

(* How many of the events of keys were answered with o.                     *)
Outcomes(p, keys, o) ==
  Cardinality({i \in DOMAIN call[p].outcomes :
                 /\ call[p].outcomes[i].key \in keys
                 /\ call[p].outcomes[i].outcome = o})

Counted(p) == [o \in Outcome |-> Outcomes(p, Key, o)]

(* With every column in the UPDATE.                                         *)
WrittenWhole(p) ==
  [o \in Outcome |-> call[p].base[o] + Counted(p)[o]]

(* The UPDATE names the columns whose value has changed, and sets them to   *)
(* what was read plus what was counted.                                     *)
Written(p) ==
  [o \in Outcome |-> IF Counted(p)[o] = 0 THEN source[call[p].source].count[o]
                     ELSE call[p].base[o] + Counted(p)[o]]

Changed(p) == {o \in Outcome : Counted(p)[o] # 0}

CommitBatch(p) ==
  /\ Ingesting(p) /\ call[p].read /\ call[p].todo = <<>>
  /\ LET s == call[p].source
         of(k, o) == Outcomes(p, {k}, o)
     IN /\ inbox' = [k \in Key |->
                       IF Inserted(p, k)
                         THEN (CHOOSE r \in call[p].rows : r.key = k).status
                         ELSE inbox[k]]
        /\ published' = [k \in Key |-> published[k] + of(k, "accepted")]
        /\ answered' = [k \in Key |->
                          [o \in Outcome |-> answered[k][o] + of(k, o)]]
        /\ source' = [source EXCEPT ![s].count = Written(p)]
        /\ total' = [total EXCEPT ![s] =
                       [o \in Outcome |-> @[o] + Counted(p)[o]]]
        /\ overtaken' = overtaken \cup
                          ({s} \X (call[p].stale \cap Changed(p)))
        /\ call' = [q \in Process |->
                      IF q = p THEN Idle
                      ELSE IF Ingesting(q) /\ call[q].source = s
                        THEN [call[q] EXCEPT !.stale = @ \cup Changed(p)]
                        ELSE call[q]]
  /\ UNCHANGED <<registryVars, planVars, budget, clientVars>>

(* An error, a lost connection or a deadlock between two batches with the   *)
(* same events in another order: all of the transaction is rolled back.     *)
Abort(p) ==
  /\ call[p].op \in {"ingest", "create_vehicle", "end_assignment"}
  /\ Return(p)
  /\ UNCHANGED <<registryVars, planVars, clientVars, batchVars>>

IngestStep ==
  \/ \E c \in Client : CreateClient(c)
  \/ \E t \in Token : RevokeToken(t) \/ \E ingest \in BOOLEAN : IssueToken(t, ingest)
  \/ \E s \in Source : CreateDataSource(s)
  \/ \E p \in Process, s \in Source, n \in 1..MaxBatch :
       \E events \in [1..n -> Envelopes] : IngestEvents(p, s, events)
  \/ \E p \in Process, s \in Source, file \in Files : IngestCsv(p, s, file)
  \/ \E p \in Process :
       KnownVehicles(p) \/ IngestOne(p) \/ CommitBatch(p) \/ Abort(p)

IngestionStep ==
  \/ FleetStep /\ UNCHANGED <<clientVars, batchVars>>
  \/ IngestStep

-----------------------------------------------------------------------------
IngestionTypeOK ==
  /\ FleetTypeOK
  /\ client \subseteq Client
  /\ token \in [Token -> TokenRow]
  /\ source \in [Source -> DataSource]
  /\ inbox \in [Key -> IngestRow]
  /\ published \in [Key -> Nat]
  /\ answered \in [Key -> [Outcome -> Nat]]
  /\ total \in [Source -> [Outcome -> Nat]]
  /\ overtaken \subseteq Source \X Outcome

(* However batches overlap, repeat an event or fail half-way: an event is   *)
(* answered "accepted" exactly once if its row is accepted and never        *)
(* otherwise, the outbox has exactly one event for it, committed with the   *)
(* row, and nothing is answered at all, not even "duplicate", unless the    *)
(* key has a row (ingestion/service.py:167).  So sending a batch again      *)
(* until it is answered loses nothing and doubles nothing; and an event     *)
(* whose key a quarantined one has taken is a duplicate that is never       *)
(* processed.                                                               *)
AcknowledgedOnce ==
  \A k \in Key :
    /\ published[k] = IF inbox[k] = "accepted" THEN 1 ELSE 0
    /\ answered[k]["accepted"] = published[k]
    /\ (\E o \in Outcome : answered[k][o] > 0) <=> inbox[k] # "none"

(* The counters of a data source are read and written by requests that do   *)
(* not lock it (ingestion/service.py:74): each is the number of outcomes    *)
(* answered unless a batch wrote it from a value another had changed since, *)
(* and even then it never counts too many.                                  *)
CountersAddUp ==
  \A s \in Source, o \in Outcome :
    /\ source[s].count[o] <= total[s][o]
    /\ <<s, o>> \notin overtaken => source[s].count[o] = total[s][o]
=============================================================================
