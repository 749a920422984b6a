----------------------------- MODULE LiveUpdates -----------------------------
(***************************************************************************)
(* Live updates of one organization: NOTIFY by the worker, the hub of an   *)
(* API replica (infrastructure/realtime.py), and the streams it serves     *)
(* (api/routers/v1/operations.py).                                         *)
(*                                                                         *)
(* A notification is delivered when its transaction commits, to the        *)
(* connections that listen then, in order; a connection that is lost loses *)
(* the ones on their way.  The hub puts each into a bounded queue of every *)
(* stream and drops it where the queue is full.  A stream waits for its    *)
(* queue, collects what else arrives, and reads the state anew.            *)
(***************************************************************************)
EXTENDS Requests, SequencesExt

CONSTANTS
  Stream,     (* Connections of clients. *)
  QueueSize   (* _QUEUE_SIZE, small. *)

ASSUME LiveAssumption == QueueSize \in Nat \ {0}

VARIABLES
  positions,  (* How often the live positions have changed. *)
  alerts,     (* How many safety events have been announced. *)
  hub,        (* Whether the hub listens. *)
  wire,       (* Notifications on their way to the hub. *)
  stream      (* Each stream. *)

liveVars == <<positions, alerts, hub, wire, stream>>

Kind == {"positions", "safety_event"}

(* shown, told: what of positions and alerts the client has been sent.      *)
(* missed, unheard: no notification came of a later change of positions, or *)
(* of a safety event.                                                       *)
Closed == [step |-> "closed", queue |-> <<>>, kinds |-> {}, shown |-> 0,
           told |-> 0, missed |-> FALSE, unheard |-> FALSE]

LiveInit ==
  /\ positions = 0 /\ alerts = 0
  /\ hub = "down"
  /\ wire = <<>>
  /\ stream = [s \in Stream |-> Closed]

Subscribed(s) == stream[s].step # "closed"

(* The streams, when notifications of the kinds lost reach none of them.    *)
Deaf(lost) ==
  [s \in Stream |->
     IF Subscribed(s)
       THEN [stream[s] EXCEPT !.missed = @ \/ "positions" \in lost,
                              !.unheard = @ \/ "safety_event" \in lost]
       ELSE stream[s]]

-----------------------------------------------------------------------------
(* The worker *)

NotifyLive(kind) ==
  IF hub = "listening" THEN wire' = Append(wire, kind) /\ UNCHANGED stream
                       ELSE stream' = Deaf({kind}) /\ UNCHANGED wire

(* A batch commits that has processed an ingested event.                    *)
PositionsChange ==
  /\ positions' = positions + 1
  /\ NotifyLive("positions")
  /\ AtOnce("live")
  /\ UNCHANGED <<alerts, hub>>

(* A batch commits that has handled safety.event_created.                   *)
SafetyEventCreated ==
  /\ alerts' = alerts + 1
  /\ NotifyLive("safety_event")
  /\ AtOnce("live")
  /\ UNCHANGED <<positions, hub>>

(* Trips change that nobody notifies of: the scheduler marks one stale.     *)
PositionsChangeSilently ==
  /\ positions' = positions + 1
  /\ stream' = Deaf({"positions"})
  /\ AtOnce("live")
  /\ UNCHANGED <<alerts, hub, wire>>

-----------------------------------------------------------------------------
(* The hub *)

(* A slow consumer misses the update.                                       *)
Put(c, kind) ==
  IF c.step = "closed" THEN c
  ELSE IF Len(c.queue) < QueueSize THEN [c EXCEPT !.queue = Append(@, kind)]
  ELSE [c EXCEPT !.unheard = @ \/ kind = "safety_event"]

OnNotification ==
  /\ wire # <<>>
  /\ stream' = [s \in Stream |-> Put(stream[s], Head(wire))]
  /\ wire' = Tail(wire)
  /\ UNCHANGED <<requestVars, positions, alerts, hub>>

(* After the first attempt or a back-off.                                   *)
Listen ==
  /\ hub = "down"
  /\ hub' = "listening"
  /\ AtOnce("hub")
  /\ UNCHANGED <<positions, alerts, wire, stream>>

LoseHub ==
  /\ hub = "listening"
  /\ hub' = "down"
  /\ wire' = <<>>
  /\ stream' = Deaf(ToSet(wire))
  /\ UNCHANGED <<requestVars, positions, alerts>>

-----------------------------------------------------------------------------
(* A stream *)

Move(s, c) == /\ stream' = [stream EXCEPT ![s] = c]
              /\ UNCHANGED <<positions, alerts, hub, wire>>

(* The queue is there before anything is read.  Safety events from before   *)
(* are for the client to load.                                              *)
OpenStream(s) ==
  /\ stream[s].step = "closed"
  /\ Move(s, [Closed EXCEPT !.step = "first", !.told = alerts])
  /\ AtOnce("stream")

(* What the client has been sent once the positions are read and, if the    *)
(* kinds call for it, it has been told of safety events.                    *)
Updated(c) ==
  LET heard == "safety_event" \in c.kinds
  IN [c EXCEPT !.step = "waiting", !.kinds = {},
               !.shown = positions, !.missed = FALSE,
               !.told = IF heard THEN alerts ELSE @,
               !.unheard = @ /\ ~heard]

(* With the queue emptied after the state is read.                          *)
SendAndClear(s) ==
  /\ stream[s].step \in {"first", "sending"}
  /\ Move(s, [Updated(stream[s]) EXCEPT !.queue = <<>>])
  /\ UNCHANGED requestVars

(* The first snapshot, or one after an update.                              *)
Snapshot(s) ==
  /\ stream[s].step \in {"first", "sending"}
  /\ Move(s, Updated(stream[s]))
  /\ UNCHANGED requestVars

Wake(s) ==
  /\ stream[s].step = "waiting" /\ stream[s].queue # <<>>
  /\ Move(s, [stream[s] EXCEPT !.step = "coalescing",
                               !.kinds = {Head(stream[s].queue)},
                               !.queue = Tail(@)])
  /\ UNCHANGED requestVars

Coalesce(s) ==
  /\ stream[s].step = "coalescing"
  /\ Move(s, [stream[s] EXCEPT !.step = "sending",
                               !.kinds = @ \cup ToSet(stream[s].queue),
                               !.queue = <<>>])
  /\ UNCHANGED requestVars

(* Nothing came for _FALLBACK_REFRESH_SECONDS.                              *)
Refresh(s) ==
  /\ stream[s].step = "waiting" /\ stream[s].queue = <<>>
  /\ Move(s, Updated(stream[s]))
  /\ UNCHANGED requestVars

(* The client is gone, max_seconds are over, or revalidation finds that the *)
(* token, the account or the membership has ended.                          *)
EndStream(s) ==
  /\ Subscribed(s)
  /\ Move(s, Closed)
  /\ UNCHANGED requestVars

LiveStep ==
  \/ PositionsChange \/ SafetyEventCreated \/ PositionsChangeSilently
  \/ OnNotification \/ Listen \/ LoseHub
  \/ \E s \in Stream : \/ OpenStream(s) \/ Snapshot(s) \/ Wake(s)
                       \/ Coalesce(s) \/ Refresh(s) \/ EndStream(s)

-----------------------------------------------------------------------------
StreamState ==
  [step : {"closed", "first", "waiting", "coalescing", "sending"},
   queue : Seq(Kind), kinds : SUBSET Kind, shown : Nat, told : Nat,
   missed : BOOLEAN, unheard : BOOLEAN]

LiveTypeOK ==
  /\ positions \in Nat /\ alerts \in Nat
  /\ hub \in {"down", "listening"}
  /\ wire \in Seq(Kind)
  /\ stream \in [Stream -> StreamState]

(* No wake-up is lost between two sides that do not wait for each other: a  *)
(* stream that waits while its client has an old state will be woken for    *)
(* it, by its queue or by what is on its way, or the change was one that no *)
(* notification came of.  For positions a full queue is no such change: it  *)
(* still wakes the stream, which reads them all ("A slow consumer only      *)
(* misses coalesced updates; it re-reads state.", realtime.py:131).  For    *)
(* safety events it is.                                                     *)
NoLostWakeup ==
  \A s \in Stream :
    LET c == stream[s]
        coming == ToSet(c.queue) \cup ToSet(wire)
    IN c.step = "waiting" =>
         /\ c.shown < positions => coming # {} \/ c.missed
         /\ c.told < alerts => "safety_event" \in coming \/ c.unheard
=============================================================================
