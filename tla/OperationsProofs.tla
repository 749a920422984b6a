--------------------------- MODULE OperationsProofs ---------------------------
(***************************************************************************)
(* Proofs about the operations side of the service, for any vehicles,      *)
(* sources, keys, windows, streams, incidents, organizations, processes    *)
(* and bounds.                                                             *)
(*                                                                         *)
(* The parts write different tables and share the processes: the inductive *)
(* invariant has a part for each of them, and a step of one keeps the      *)
(* parts of the others because it leaves their requests alone (Spares).    *)
(***************************************************************************)
EXTENDS Operations, FoldLemmas, SequenceTheorems

Calls == call = [p \in Process |-> call[p]]

(* A step that only touches requests whose operation is in own, and idle    *)
(* processes.                                                               *)
Spares(own) ==
  \A q \in Process :
    \/ call'[q] = call[q]
    \/ call[q].op \in own \cup {"idle"} /\ call'[q].op \in own \cup {"idle"}

LEMMA Moved ==
  ASSUME Calls, NEW p \in Process, NEW c, call' = [call EXCEPT ![p] = c],
         NEW own, call[p].op \in own \cup {"idle"}, c.op \in own \cup {"idle"}
  PROVE  /\ Calls' /\ Spares(own)
         /\ call'[p] = c /\ \A q \in Process : q # p => call'[q] = call[q]
  BY DEF Calls, Spares

LEMMA Began ==
  ASSUME Calls, NEW p \in Process, NEW area, NEW c, Begin(p, area, c),
         NEW own, c.op \in own
  PROVE  /\ Calls' /\ Spares(own) /\ call[p] = Idle /\ call[p].op = "idle"
         /\ call'[p] = c /\ \A q \in Process : q # p => call'[q] = call[q]
  <1>1. call[p] = Idle /\ call' = [call EXCEPT ![p] = c] /\ Idle.op = "idle"
    BY DEF Begin, Idle
  <1>. QED BY <1>1, Moved

LEMMA Returned ==
  ASSUME Calls, NEW p \in Process, Return(p), NEW own, call[p].op \in own
  PROVE  /\ Calls' /\ Spares(own)
         /\ call'[p].op = "idle" /\ \A q \in Process : q # p => call'[q] = call[q]
  <1>1. call' = [call EXCEPT ![p] = Idle] /\ Idle.op = "idle"
    BY DEF Return, Continue, Idle
  <1>. QED BY <1>1, Moved

LEMMA Continued ==
  ASSUME Calls, NEW p \in Process, NEW c, Continue(p, c),
         NEW own, call[p].op \in own, c.op \in own
  PROVE  /\ Calls' /\ Spares(own)
         /\ call'[p] = c /\ \A q \in Process : q # p => call'[q] = call[q]
  <1>1. call' = [call EXCEPT ![p] = c]
    BY DEF Continue
  <1>. QED BY <1>1, Moved

LEMMA NoneMoved ==
  ASSUME Calls, UNCHANGED call, NEW own
  PROVE  Calls' /\ Spares(own)
  BY DEF Calls, Spares

-----------------------------------------------------------------------------
(* The container.  Until it looks at its processes all that it has started  *)
(* run or have stopped by themselves; it stops looking at them because it   *)
(* was told to or because one of them had stopped; and of the ones it has   *)
(* waited for none is alive.                                                *)
Started(n) == \A i \in 1..n : child[Specs[i]].state # "none"

Waited(n) == \A i \in 1..n : ~Alive(Specs[i])

SupervisorOK ==
  /\ SupervisorTypeOK
  /\ stage \in {"off", "migrate"} =>
       exitCode = 0 /\ ~stopping /\ \A c \in Child : child[c].state = "none"
  /\ stage \in {"start", "check", "poll"} =>
       \A c \in Child : /\ child[c].state # "asked"
                        /\ child[c].state = "exited" => c \in alone
  /\ stage = "start" => exitCode = 0 /\ Started(at - 1)
  /\ stage \in {"check", "poll", "terminate", "wait"} =>
       /\ Started(Len(Specs))
       /\ exitCode # 0 => stopping /\ alone # {}
  /\ stopping /\ exitCode = 0 => signaled
  /\ stage \in {"terminate", "wait"} => stopping
  /\ stage = "wait" => Waited(at - 1)
  /\ stage = "returned" =>
       /\ \A c \in Child : ~Alive(c)
       /\ exitCode = 0 => signaled
       /\ exitCode # 0 => alone # {} \/ \A c \in Child : child[c].state = "none"

LEMMA SpecsAre ==
  /\ Len(Specs) \in Nat /\ Len(Specs) >= 1
  /\ \A i \in 1..Len(Specs) : Specs[i] \in Child
  /\ \A c \in Child : \E i \in 1..Len(Specs) : c = Specs[i]
  BY SupervisorAssumption DEF Child

LEMMA SupervisorStarts ==
  ASSUME SupervisorInit
  PROVE  SupervisorOK
  <1>1. at = 1 /\ 1 \in 1..Len(Specs) /\ DOMAIN Specs = 1..Len(Specs)
    BY SpecsAre, SupervisorAssumption DEF SupervisorInit
  <1>2. child \in [Child -> ChildRow] /\ \A c \in Child : child[c].state = "none"
    BY DEF SupervisorInit, ChildRow
  <1>. QED BY <1>1, <1>2 DEF SupervisorInit, SupervisorOK, SupervisorTypeOK

(* The process of the loop goes on to the next, or the loop is over.        *)
LEMMA Advanced ==
  ASSUME NEW after, Advance(after), at \in 1..Len(Specs)
  PROVE  \/ at < Len(Specs) /\ at' = at + 1 /\ at' \in 1..Len(Specs) /\ stage' = stage
         \/ at = Len(Specs) /\ at' = 1 /\ at' \in 1..Len(Specs) /\ stage' = after
  BY SpecsAre DEF Advance, GoTo

LEMMA SupervisorKept ==
  ASSUME SupervisorOK, SupervisorStep
  PROVE  SupervisorOK'
  <1>0. at \in 1..Len(Specs) /\ DOMAIN Specs = 1..Len(Specs) /\ Specs[at] \in Child
    BY SpecsAre, SupervisorAssumption DEF SupervisorOK, SupervisorTypeOK
  <1>1. ASSUME NEW migrate \in BOOLEAN, Serve(migrate)
        PROVE  SupervisorOK'
    BY <1>0, <1>1, SpecsAre DEF Serve, GoTo, SupervisorOK, SupervisorTypeOK, Started, Alive
  <1>2. ASSUME NEW code \in {0, 1}, RunStep(code)
        PROVE  SupervisorOK'
    BY <1>0, <1>2, SpecsAre DEF RunStep, GoTo, SupervisorOK, SupervisorTypeOK, Started, Alive
  <1>3. ASSUME NEW code \in {0, 1}, NEW c \in Child, Exit(c, code)
        PROVE  SupervisorOK'
    BY <1>0, <1>3, SpecsAre DEF Exit, SupervisorOK, SupervisorTypeOK, Started, Waited, Alive, ChildRow
  <1>4. ASSUME StartChild
        PROVE  SupervisorOK'
    <2>1. CASE GoTo("raised") /\ UNCHANGED child
      BY <1>0, <1>4, <2>1, SpecsAre DEF StartChild, GoTo, SupervisorOK, SupervisorTypeOK
    <2>2. CASE /\ child' = [child EXCEPT ![Specs[at]].state = "running"]
               /\ Advance("check")
      <3>1. /\ child' \in [Child -> ChildRow]
            /\ child'[Specs[at]].state = "running"
            /\ \A c \in Child : child'[c].state = child[c].state \/ child'[c].state = "running"
        BY <1>0, <2>2 DEF SupervisorOK, SupervisorTypeOK, ChildRow
      <3>2. \A i \in 1..at : child'[Specs[i]].state # "none"
        BY <1>0, <1>4, <3>1, SpecsAre DEF Started, SupervisorOK, StartChild
      <3>3. /\ exitCode = 0 /\ exitCode' = 0
            /\ \A c \in Child : /\ child'[c].state # "asked"
                               /\ child'[c].state = "exited" => c \in alone'
        BY <1>4, <3>1 DEF StartChild, SupervisorOK
      <3>4. CASE at < Len(Specs)
        <4>1. at' = at + 1 /\ at' \in 1..Len(Specs) /\ stage' = "start"
          BY <1>0, <1>4, <2>2, <3>4, SpecsAre DEF Advance, StartChild
        <4>2. \A i \in 1..(at' - 1) : child'[Specs[i]].state # "none"
          BY <1>0, <3>2, <4>1, SpecsAre
        <4>. QED BY <1>0, <1>4, <3>1, <3>3, <4>1, <4>2 DEF StartChild, SupervisorOK,
               SupervisorTypeOK, Started
      <3>5. CASE at = Len(Specs)
        <4>1. at' = 1 /\ at' \in 1..Len(Specs) /\ stage' = "check"
          BY <1>0, <2>2, <3>5, SpecsAre DEF Advance, GoTo
        <4>. QED BY <1>0, <1>4, <3>1, <3>2, <3>3, <3>5, <4>1 DEF StartChild, SupervisorOK,
               SupervisorTypeOK, Started
      <3>6. at < Len(Specs) \/ at = Len(Specs)
        <4>1. PICK n \in Nat : n = Len(Specs)
          BY SpecsAre
        <4>2. at \in 1..n
          BY <1>0, <4>1
        <4>3. at < n \/ at = n
          BY <4>2
        <4>. QED BY <4>1, <4>3
      <3>. QED BY <3>4, <3>5, <3>6
    <2>. QED BY <1>4, <2>1, <2>2 DEF StartChild
  <1>5. ASSUME HandleSignal
        PROVE  SupervisorOK'
    BY <1>0, <1>5, SpecsAre DEF HandleSignal, SupervisorOK, SupervisorTypeOK, Started, Waited, Alive
  <1>6. ASSUME CheckStopping
        PROVE  SupervisorOK'
    BY <1>0, <1>6, SpecsAre DEF CheckStopping, GoTo, SupervisorOK, SupervisorTypeOK, Started,
       Waited, Alive
  <1>7. ASSUME Poll
        PROVE  SupervisorOK'
    <2>1. CASE Alive(Specs[at])
      BY <1>0, <1>7, <2>1, SpecsAre, Advanced DEF Poll, SupervisorOK, SupervisorTypeOK, Started
    <2>2. CASE ~Alive(Specs[at])
      <3>1. Specs[at] \in alone /\ child[Specs[at]].code \in {0, 1}
        BY <1>0, <1>7, <2>2 DEF Poll, SupervisorOK, SupervisorTypeOK, Started, Alive, ChildRow
      <3>2. exitCode' = 1 /\ stopping' /\ stage' = "check" /\ at' = 1 /\ at' \in 1..Len(Specs)
        BY <1>0, <1>7, <2>2, <3>1, SpecsAre DEF Poll, GoTo, StatusFor
      <3>. QED BY <1>0, <1>7, <3>1, <3>2 DEF Poll, SupervisorOK, SupervisorTypeOK, Started
    <2>. QED BY <2>1, <2>2
  <1>8. ASSUME Terminate
        PROVE  SupervisorOK'
    BY <1>0, <1>8, SpecsAre, Advanced DEF Terminate, SupervisorOK, SupervisorTypeOK, Started,
       Waited, Alive, ChildRow
  <1>9. ASSUME WaitOrKill
        PROVE  SupervisorOK'
    BY <1>0, <1>9, SpecsAre, Advanced DEF WaitOrKill, SupervisorOK, SupervisorTypeOK, Started,
       Waited, Alive, ChildRow
  <1>. QED BY <1>1, <1>2, <1>3, <1>4, <1>5, <1>6, <1>7, <1>8, <1>9 DEF SupervisorStep

LEMMA SupervisorFrame ==
  ASSUME SupervisorOK, UNCHANGED supervisorVars
  PROVE  SupervisorOK'
  BY DEF SupervisorOK, SupervisorTypeOK, supervisorVars, Started, Waited, Alive

LEMMA SupervisorCalls ==
  ASSUME Calls, SupervisorStep, NEW own
  PROVE  Calls' /\ Spares(own)
  <1>1. UNCHANGED call
    BY DEF SupervisorStep, Serve, RunStep, Exit, StartChild, HandleSignal, CheckStopping, Poll,
       Terminate, WaitOrKill, AtOnce, requestVars
  <1>. QED BY <1>1, NoneMoved

-----------------------------------------------------------------------------
(* Live updates.  What a stream that is not up to date waits for is in its  *)
(* queue, on its way, or among the kinds it has taken out of its queue; for *)
(* positions any notification in the queue will do.                         *)
StreamOK(c) ==
  /\ c.step \in {"closed", "first", "waiting"} => c.kinds = {}
  /\ c.step = "waiting" /\ c.shown < positions =>
       c.queue # <<>> \/ "positions" \in ToSet(wire) \/ c.missed
  /\ c.step # "closed" /\ c.told < alerts =>
       \/ "safety_event" \in ToSet(c.queue) \/ "safety_event" \in ToSet(wire)
       \/ "safety_event" \in c.kinds \/ c.unheard

LiveOK == LiveTypeOK /\ \A s \in Stream : StreamOK(stream[s])

(* The contents of a sequence.                                              *)
LEMMA Contents ==
  ASSUME NEW S, NEW s \in Seq(S)
  PROVE  /\ \A x \in S : Append(s, x) \in Seq(S) /\ ToSet(Append(s, x)) = ToSet(s) \cup {x}
         /\ s # <<>> => /\ Head(s) \in S /\ Tail(s) \in Seq(S)
                        /\ ToSet(s) = {Head(s)} \cup ToSet(Tail(s))
         /\ ToSet(<<>>) = {} /\ <<>> \in Seq(S)
         /\ ToSet(s) \subseteq S /\ (ToSet(s) = {} <=> s = <<>>) /\ Len(s) \in Nat
         /\ Len(s) > 0 => s # <<>>
  <1>0. Len(s) \in Nat /\ DOMAIN s = 1..Len(s) /\ \A i \in 1..Len(s) : s[i] \in S
    OBVIOUS
  <1>1. ASSUME NEW x \in S
        PROVE  Append(s, x) \in Seq(S) /\ ToSet(Append(s, x)) = ToSet(s) \cup {x}
    <2>1. /\ Append(s, x) \in Seq(S) /\ Len(Append(s, x)) = Len(s) + 1
          /\ DOMAIN Append(s, x) = 1..(Len(s) + 1)
          /\ \A i \in 1..Len(s) : Append(s, x)[i] = s[i]
          /\ Append(s, x)[Len(s) + 1] = x
      BY AppendProperties
    <2>2. \A i \in 1..(Len(s) + 1) : i \in 1..Len(s) \/ i = Len(s) + 1
      BY <1>0
    <2>3. Len(s) + 1 \in 1..(Len(s) + 1) /\ \A i \in 1..Len(s) : i \in 1..(Len(s) + 1)
      BY <1>0
    <2>. QED BY <1>0, <2>1, <2>2, <2>3 DEF ToSet
  <1>2. ASSUME s # <<>>
        PROVE  /\ Head(s) \in S /\ Tail(s) \in Seq(S)
               /\ ToSet(s) = {Head(s)} \cup ToSet(Tail(s))
    <2>1. /\ Head(s) \in S /\ Tail(s) \in Seq(S) /\ Head(s) = s[1] /\ 1 \in 1..Len(s)
          /\ Len(Tail(s)) = Len(s) - 1 /\ \A i \in 1..Len(Tail(s)) : Tail(s)[i] = s[i + 1]
      BY <1>2, HeadTailProperties, EmptySeq
    <2>2. DOMAIN Tail(s) = 1..(Len(s) - 1)
      BY <2>1
    <2>3. \A i \in 1..Len(s) : i = 1 \/ i - 1 \in 1..(Len(s) - 1)
      BY <1>0
    <2>4. \A i \in 1..(Len(s) - 1) : i + 1 \in 1..Len(s) /\ Tail(s)[i] = s[i + 1]
      BY <1>0, <2>1
    <2>5. \A i \in 1..Len(s) : i = 1 \/ s[i] = Tail(s)[i - 1]
      BY <1>0, <2>3, <2>4
    <2>6. PICK t : t = Tail(s)
      OBVIOUS
    <2>7. \A x : x \in ToSet(t) <=> \E i \in 1..(Len(s) - 1) : x = t[i]
      BY <2>2, <2>6 DEF ToSet
    <2>8. \A x : x \in ToSet(s) <=> \E i \in 1..Len(s) : x = s[i]
      BY <1>0 DEF ToSet
    <2>9. ASSUME NEW x \in ToSet(s)
          PROVE  x = Head(s) \/ x \in ToSet(t)
      <3>1. PICK i \in 1..Len(s) : x = s[i]
        BY <2>8
      <3>. QED BY <3>1, <2>1, <2>3, <2>5, <2>6, <2>7
    <2>10. ASSUME NEW x \in ToSet(t)
           PROVE  x \in ToSet(s)
      <3>1. PICK i \in 1..(Len(s) - 1) : x = t[i]
        BY <2>7
      <3>. QED BY <3>1, <2>4, <2>6, <2>8
    <2>11. Head(s) \in ToSet(s)
      BY <2>1, <2>8
    <2>. QED BY <2>1, <2>6, <2>9, <2>10, <2>11
  <1>3. ToSet(<<>>) = {} /\ <<>> \in Seq(S)
    BY DEF ToSet
  <1>4. ToSet(s) \subseteq S /\ (ToSet(s) = {} <=> s = <<>>)
    <2>1. s # <<>> => 1 \in 1..Len(s)
      BY <1>0, EmptySeq
    <2>. QED BY <1>0, <1>3, <2>1 DEF ToSet
  <1>. QED BY <1>0, <1>1, <1>2, <1>3, <1>4, EmptySeq

LEMMA LiveStarts ==
  ASSUME LiveInit
  PROVE  LiveOK
  <1>1. Closed \in StreamState
    BY DEF Closed, StreamState
  <1>2. stream \in [Stream -> StreamState] /\ \A s \in Stream : stream[s] = Closed
    BY <1>1 DEF LiveInit
  <1>. QED BY <1>2 DEF LiveInit, LiveOK, LiveTypeOK, StreamOK, Closed

LEMMA LiveFrame ==
  ASSUME LiveOK, UNCHANGED liveVars
  PROVE  LiveOK'
  BY DEF LiveOK, LiveTypeOK, StreamOK, liveVars

(* What a lost notification changes.                                        *)
LEMMA DeafStreams ==
  ASSUME stream \in [Stream -> StreamState], NEW lost, NEW d, d = Deaf(lost)
  PROVE  /\ d \in [Stream -> StreamState]
         /\ \A s \in Stream :
              /\ d[s].step = stream[s].step /\ d[s].queue = stream[s].queue
              /\ d[s].kinds = stream[s].kinds
              /\ d[s].shown = stream[s].shown /\ d[s].told = stream[s].told
              /\ stream[s].missed => d[s].missed
              /\ stream[s].unheard => d[s].unheard
              /\ stream[s].step # "closed" /\ "positions" \in lost => d[s].missed
              /\ stream[s].step # "closed" /\ "safety_event" \in lost => d[s].unheard
  <1>1. ASSUME NEW s \in Stream
        PROVE  /\ d[s] \in StreamState
               /\ d[s].step = stream[s].step /\ d[s].queue = stream[s].queue
               /\ d[s].kinds = stream[s].kinds
               /\ d[s].shown = stream[s].shown /\ d[s].told = stream[s].told
               /\ stream[s].missed => d[s].missed
               /\ stream[s].unheard => d[s].unheard
               /\ stream[s].step # "closed" /\ "positions" \in lost => d[s].missed
               /\ stream[s].step # "closed" /\ "safety_event" \in lost => d[s].unheard
    <2>0. stream[s] \in StreamState
      OBVIOUS
    <2>1. CASE stream[s].step = "closed"
      BY <2>0, <2>1 DEF Deaf, Subscribed
    <2>2. CASE stream[s].step # "closed"
      <3>1. PICK m, u \in BOOLEAN : /\ m <=> (stream[s].missed \/ "positions" \in lost)
                                    /\ u <=> (stream[s].unheard \/ "safety_event" \in lost)
        OBVIOUS
      <3>2. d[s] = [stream[s] EXCEPT !.missed = m, !.unheard = u]
        BY <2>0, <2>2, <3>1 DEF Deaf, Subscribed, StreamState
      <3>. QED BY <2>0, <3>1, <3>2 DEF StreamState
    <2>. QED BY <2>1, <2>2
  <1>2. d \in [Stream -> StreamState]
    BY <1>1 DEF Deaf
  <1>. QED BY <1>1, <1>2

(* What the worker changes, it announces or the streams are deaf to it.     *)
LEMMA Notified ==
  ASSUME LiveOK, NEW kind \in Kind, NotifyLive(kind),
         positions' \in Nat, alerts' \in Nat, hub' \in {"down", "listening"},
         kind # "positions" => positions' = positions,
         kind # "safety_event" => alerts' = alerts
  PROVE  LiveOK'
  <1>0. wire \in Seq(Kind) /\ stream \in [Stream -> StreamState]
    BY DEF LiveOK, LiveTypeOK
  <1>1. CASE wire' = Append(wire, kind) /\ UNCHANGED stream
    <2>1. wire' \in Seq(Kind) /\ ToSet(wire') = ToSet(wire) \cup {kind}
      BY <1>0, <1>1, Contents
    <2>2. \A s \in Stream : StreamOK(stream[s])'
      BY <1>1, <2>1 DEF LiveOK, StreamOK, Kind
    <2>. QED BY <1>1, <2>1, <2>2 DEF LiveOK, LiveTypeOK
  <1>2. CASE stream' = Deaf({kind}) /\ UNCHANGED wire
    <2>1. stream' \in [Stream -> StreamState]
      BY <1>0, <1>2, DeafStreams
    <2>2. \A s \in Stream : StreamOK(stream[s])'
      BY <1>0, <1>2, DeafStreams DEF LiveOK, StreamOK, Kind
    <2>. QED BY <1>2, <2>1, <2>2 DEF LiveOK, LiveTypeOK
  <1>. QED BY <1>1, <1>2 DEF NotifyLive

(* One stream goes on.                                                      *)
LEMMA StreamMoved ==
  ASSUME LiveOK, NEW s \in Stream, NEW c \in StreamState, Move(s, c), StreamOK(c)
  PROVE  LiveOK'
  <1>1. stream' \in [Stream -> StreamState]
    BY DEF Move, LiveOK, LiveTypeOK
  <1>2. \A r \in Stream : stream'[r] = IF r = s THEN c ELSE stream[r]
    BY DEF Move, LiveOK, LiveTypeOK
  <1>3. \A r \in Stream : StreamOK(stream[r])'
    BY <1>2 DEF Move, LiveOK, StreamOK
  <1>. QED BY <1>1, <1>3 DEF Move, LiveOK, LiveTypeOK

LEMMA UpdatedStream ==
  ASSUME LiveOK, NEW c \in StreamState, StreamOK(c), c.step # "closed", NEW d, d = Updated(c)
  PROVE  d \in StreamState /\ StreamOK(d)
  <1>1. PICK t \in Nat : t = IF "safety_event" \in c.kinds THEN alerts ELSE c.told
    BY DEF LiveOK, LiveTypeOK, StreamState
  <1>2. PICK u \in BOOLEAN : u <=> c.unheard /\ ~("safety_event" \in c.kinds)
    OBVIOUS
  <1>3. d = [c EXCEPT !.step = "waiting", !.kinds = {}, !.shown = positions, !.missed = FALSE,
                      !.told = t, !.unheard = u]
    BY <1>1, <1>2 DEF Updated, StreamState
  <1>4. positions \in Nat
    BY DEF LiveOK, LiveTypeOK
  <1>5. d \in StreamState
    BY <1>3, <1>4 DEF StreamState
  <1>6. /\ d.step = "waiting" /\ d.kinds = {} /\ d.shown = positions /\ d.told = t
        /\ d.unheard = u /\ d.queue = c.queue
    BY <1>3 DEF StreamState
  <1>7. StreamOK(d)
    BY <1>1, <1>2, <1>4, <1>6 DEF StreamOK, LiveOK, LiveTypeOK
  <1>. QED BY <1>5, <1>7

LEMMA LiveKept ==
  ASSUME LiveOK, LiveStep
  PROVE  LiveOK'
  <1>0. /\ wire \in Seq(Kind) /\ stream \in [Stream -> StreamState]
        /\ positions \in Nat /\ alerts \in Nat /\ hub \in {"down", "listening"}
        /\ "positions" \in Kind /\ "safety_event" \in Kind /\ QueueSize \in Nat
        /\ QueueSize > 0
    BY LiveAssumption DEF LiveOK, LiveTypeOK, Kind
  <1>1. CASE PositionsChange
    BY <1>0, <1>1, Notified DEF PositionsChange
  <1>2. CASE SafetyEventCreated
    BY <1>0, <1>2, Notified DEF SafetyEventCreated
  <1>3. CASE PositionsChangeSilently
    <2>1. stream' \in [Stream -> StreamState]
      BY <1>0, <1>3, DeafStreams DEF PositionsChangeSilently
    <2>2. \A s \in Stream : StreamOK(stream[s])'
      BY <1>0, <1>3, DeafStreams DEF PositionsChangeSilently, LiveOK, StreamOK
    <2>. QED BY <1>0, <1>3, <2>1, <2>2 DEF PositionsChangeSilently, LiveOK, LiveTypeOK
  <1>4. CASE OnNotification
    <2>1. PICK kind \in Kind : kind = Head(wire)
      BY <1>0, <1>4, Contents DEF OnNotification
    <2>2. wire' \in Seq(Kind) /\ ToSet(wire) = {kind} \cup ToSet(wire')
      BY <1>0, <1>4, <2>1, Contents DEF OnNotification
    <2>3. ASSUME NEW s \in Stream
          PROVE  stream'[s] \in StreamState /\ StreamOK(stream[s])'
      <3>0. /\ stream[s] \in StreamState /\ StreamOK(stream[s])
            /\ stream'[s] = Put(stream[s], kind) /\ stream[s].queue \in Seq(Kind)
        BY <1>0, <1>4, <2>1 DEF OnNotification, LiveOK, StreamState
      <3>1. CASE stream[s].step = "closed"
        BY <1>4, <3>0, <3>1, <2>2 DEF Put, StreamOK, OnNotification
      <3>2. CASE stream[s].step # "closed" /\ Len(stream[s].queue) < QueueSize
        <4>0. PICK q : q = Append(stream[s].queue, kind)
          OBVIOUS
        <4>1. /\ q \in Seq(Kind) /\ q = Append(stream[s].queue, kind)
              /\ ToSet(q) = ToSet(stream[s].queue) \cup {kind}
          BY <3>0, <4>0, Contents
        <4>2. stream'[s] = [stream[s] EXCEPT !.queue = q]
          BY <3>0, <3>2, <4>1 DEF Put
        <4>3. q # <<>>
          <5>1. kind \in ToSet(q)
            BY <4>1
          <5>. QED BY <4>1, <5>1, Contents
        <4>. QED BY <1>4, <3>0, <2>2, <4>1, <4>2, <4>3 DEF StreamOK, StreamState, OnNotification
      <3>3. CASE stream[s].step # "closed" /\ ~(Len(stream[s].queue) < QueueSize)
        <4>1. PICK u \in BOOLEAN : u <=> stream[s].unheard \/ kind = "safety_event"
          OBVIOUS
        <4>2. stream'[s] = [stream[s] EXCEPT !.unheard = u]
          BY <3>0, <3>3, <4>1 DEF Put, StreamState
        <4>3. stream[s].queue # <<>>
          <5>1. Len(stream[s].queue) \in Nat
            BY <3>0, Contents
          <5>2. Len(stream[s].queue) > 0
            BY <1>0, <3>3, <5>1
          <5>. QED BY <3>0, <5>2, Contents
        <4>. QED BY <1>4, <3>0, <2>2, <4>1, <4>2, <4>3 DEF StreamOK, StreamState, OnNotification
      <3>. QED BY <3>1, <3>2, <3>3
    <2>4. stream' \in [Stream -> StreamState]
      BY <1>4, <2>3 DEF OnNotification
    <2>. QED BY <1>0, <1>4, <2>2, <2>3, <2>4 DEF OnNotification, LiveOK, LiveTypeOK
  <1>5. CASE Listen
    <2>1. \A s \in Stream : StreamOK(stream[s])'
      BY <1>5 DEF Listen, LiveOK, StreamOK
    <2>. QED BY <1>0, <1>5, <2>1 DEF Listen, LiveOK, LiveTypeOK
  <1>6. CASE LoseHub
    <2>1. wire' \in Seq(Kind) /\ ToSet(wire') = {} /\ ToSet(wire) \subseteq Kind
      BY <1>0, <1>6, Contents DEF LoseHub
    <2>2. stream' \in [Stream -> StreamState]
      BY <1>0, <1>6, DeafStreams DEF LoseHub
    <2>3. \A s \in Stream : StreamOK(stream[s])'
      BY <1>0, <1>6, <2>1, DeafStreams DEF LoseHub, LiveOK, StreamOK
    <2>. QED BY <1>0, <1>6, <2>1, <2>2, <2>3 DEF LoseHub, LiveOK, LiveTypeOK
  <1>7. ASSUME NEW s \in Stream, OpenStream(s)
        PROVE  LiveOK'
    <2>1. PICK c : c = [Closed EXCEPT !.step = "first", !.told = alerts]
      OBVIOUS
    <2>2. c \in StreamState /\ c.step = "first" /\ c.told = alerts /\ c.kinds = {}
      <3>1. <<>> \in Seq(Kind)
        OBVIOUS
      <3>. QED BY <1>0, <2>1, <3>1 DEF Closed, StreamState
    <2>3. StreamOK(c)
      BY <1>0, <2>2 DEF StreamOK
    <2>. QED BY <1>7, <2>1, <2>2, <2>3, StreamMoved DEF OpenStream
  <1>8. ASSUME NEW s \in Stream, Snapshot(s) \/ Refresh(s)
        PROVE  LiveOK'
    <2>1. PICK c : c = Updated(stream[s])
      OBVIOUS
    <2>2. stream[s] \in StreamState /\ StreamOK(stream[s]) /\ stream[s].step # "closed"
      BY <1>0, <1>8 DEF LiveOK, Snapshot, Refresh
    <2>. QED BY <1>8, <2>1, <2>2, UpdatedStream, StreamMoved DEF Snapshot, Refresh
  <1>9. ASSUME NEW s \in Stream, Wake(s)
        PROVE  LiveOK'
    <2>1. stream[s] \in StreamState /\ StreamOK(stream[s]) /\ stream[s].queue \in Seq(Kind)
      BY <1>0 DEF LiveOK, StreamState
    <2>0. PICK k, q : k = Head(stream[s].queue) /\ q = Tail(stream[s].queue)
      OBVIOUS
    <2>2. /\ k = Head(stream[s].queue) /\ q = Tail(stream[s].queue)
          /\ k \in Kind /\ q \in Seq(Kind)
          /\ ToSet(stream[s].queue) = {k} \cup ToSet(q)
      BY <1>9, <2>0, <2>1, Contents DEF Wake
    <2>3. PICK c : c = [stream[s] EXCEPT !.step = "coalescing", !.kinds = {k}, !.queue = q]
      OBVIOUS
    <2>4. /\ c \in StreamState /\ c.step = "coalescing" /\ c.kinds = {k} /\ c.queue = q
          /\ c.told = stream[s].told /\ c.unheard = stream[s].unheard
      BY <2>1, <2>2, <2>3 DEF StreamState
    <2>5. StreamOK(c)
      BY <1>9, <2>1, <2>2, <2>4 DEF StreamOK, Wake
    <2>. QED BY <1>9, <2>2, <2>3, <2>4, <2>5, StreamMoved DEF Wake
  <1>10. ASSUME NEW s \in Stream, Coalesce(s)
         PROVE  LiveOK'
    <2>1. stream[s] \in StreamState /\ StreamOK(stream[s]) /\ stream[s].queue \in Seq(Kind)
      BY <1>0 DEF LiveOK, StreamState
    <2>2. PICK K \in SUBSET Kind : K = stream[s].kinds \cup ToSet(stream[s].queue)
      <3>1. stream[s].kinds \subseteq Kind
        BY <2>1 DEF StreamState
      <3>2. ToSet(stream[s].queue) \subseteq Kind
        BY <2>1, Contents
      <3>. QED BY <3>1, <3>2
    <2>3. PICK c : c = [stream[s] EXCEPT !.step = "sending", !.kinds = K, !.queue = <<>>]
      OBVIOUS
    <2>4. /\ c \in StreamState /\ c.step = "sending" /\ c.kinds = K
          /\ c.told = stream[s].told /\ c.unheard = stream[s].unheard
      BY <2>1, <2>3, Contents DEF StreamState
    <2>5. StreamOK(c)
      BY <1>10, <2>1, <2>2, <2>4 DEF StreamOK, Coalesce
    <2>. QED BY <1>10, <2>2, <2>3, <2>4, <2>5, StreamMoved DEF Coalesce
  <1>11. ASSUME NEW s \in Stream, EndStream(s)
         PROVE  LiveOK'
    <2>1. Closed \in StreamState /\ StreamOK(Closed)
      BY DEF Closed, StreamState, StreamOK
    <2>. QED BY <1>11, <2>1, StreamMoved DEF EndStream
  <1>. QED BY <1>1, <1>2, <1>3, <1>4, <1>5, <1>6, <1>7, <1>8, <1>9, <1>10, <1>11 DEF LiveStep

LEMMA LiveCalls ==
  ASSUME Calls, LiveStep, NEW own
  PROVE  Calls' /\ Spares(own)
  <1>1. UNCHANGED call
    BY DEF LiveStep, PositionsChange, SafetyEventCreated, PositionsChangeSilently, OnNotification,
       Listen, LoseHub, OpenStream, Snapshot, Wake, Coalesce, Refresh, EndStream, AtOnce, requestVars
  <1>. QED BY <1>1, NoneMoved

-----------------------------------------------------------------------------
(* The fleet registry.  A request that has counted the vehicles makes the   *)
(* sum of vehicles and requests what it may be at most, and the vehicle it  *)
(* inserts takes its place in the sum.                                      *)
fleetOps == {"create_vehicle", "end_assignment"}

CreateVehicleCall == [op : {"create_vehicle"}, vehicle : Vehicle, fleet : Group \cup {None}]

EndCall == [op : {"end_assignment"}, row : Nat]

FleetCall(c) == /\ c.op = "create_vehicle" => c \in CreateVehicleCall
                /\ c.op = "end_assignment" => c \in EndCall

FleetOK == FleetTypeOK /\ OverrunBounded /\ \A p \in Process : FleetCall(call[p])

(* Sets of vehicles and of processes can be counted.                        *)
LEMMA Countable ==
  /\ \A S \in SUBSET Vehicle : IsFiniteSet(S) /\ Cardinality(S) \in Nat
  /\ \A S \in SUBSET Process : /\ IsFiniteSet(S) /\ Cardinality(S) \in Nat
                               /\ Cardinality(S) <= Cardinality(Process)
  /\ Cardinality(Process) \in Nat /\ Cardinality(Process) > 0
  <1>1. IsFiniteSet(Vehicle) /\ IsFiniteSet(Process) /\ Process # {}
    BY FleetAssumption, RequestsAssumption
  <1>2. Cardinality(Process) \in Nat /\ Cardinality(Process) # 0
    BY <1>1, FS_CardinalityType, FS_EmptySet
  <1>. QED BY <1>1, <1>2, FS_Subset, FS_CardinalityType

LEMMA Sets ==
  Creating \in SUBSET Process /\ Registered \in SUBSET Vehicle
  BY DEF Creating, Registered

LEMMA FleetStarts ==
  ASSUME RequestsInit, FleetInit
  PROVE  FleetOK
  <1>1. FleetTypeOK
    <2>1. <<>> \in Seq(AssignmentRow)
      OBVIOUS
    <2>. QED BY <2>1 DEF FleetInit, FleetTypeOK, VehicleRow, DriverRow, DeviceRow, CameraRow,
           SubscriptionState
  <1>2. \A p \in Process : call[p].op = "idle"
    BY DEF RequestsInit, Idle
  <1>3. Creating = {} /\ Registered = {}
    BY <1>2 DEF Creating, Registered, FleetInit
  <1>4. Cardinality({}) = 0
    BY FS_EmptySet
  <1>5. limit \in Nat \cup {-1}
    BY <1>1, FleetAssumption DEF FleetTypeOK
  <1>6. OverrunBounded
    BY <1>3, <1>4, <1>5, Countable DEF OverrunBounded
  <1>. QED BY <1>1, <1>2, <1>6 DEF FleetOK, FleetCall

(* Fewer requests and no more vehicles.                                     *)
LEMMA OverrunKept ==
  ASSUME FleetOK, Creating' \subseteq Creating, Registered' \subseteq Registered,
         UNCHANGED <<limit, lowered>>
  PROVE  OverrunBounded'
  <1>1. PICK a, b, c, d, n \in Nat :
          /\ a = Cardinality(Registered) /\ b = Cardinality(Creating) /\ n = Cardinality(Process)
          /\ c = Cardinality(Registered') /\ d = Cardinality(Creating')
    BY Countable, Sets
  <1>2. c <= a /\ d <= b
    BY <1>1, Countable, Sets, FS_Subset
  <1>3. limit \in Nat \cup {-1}
    BY FleetAssumption DEF FleetOK, FleetTypeOK
  <1>4. limit >= 0 /\ ~lowered => a + b < limit + n
    BY <1>1 DEF FleetOK, OverrunBounded
  <1>5. limit >= 0 /\ ~lowered => c + d < limit + n
    BY <1>2, <1>3, <1>4
  <1>. QED BY <1>1, <1>5 DEF OverrunBounded

LEMMA CreatingKept ==
  ASSUME NEW own, Spares(own), own \cap fleetOps = {}
  PROVE  /\ Creating' = Creating
         /\ (\A p \in Process : FleetCall(call[p])) => \A p \in Process : FleetCall(call'[p])
  <1>1. \A q \in Process : call'[q] = call[q] \/ (call[q].op \notin fleetOps /\ call'[q].op \notin fleetOps)
    BY DEF Spares, fleetOps
  <1>. QED BY <1>1 DEF Creating, FleetCall, fleetOps

LEMMA FleetFrame ==
  ASSUME FleetOK, NEW own, Spares(own), own \cap fleetOps = {}, UNCHANGED fleetVars
  PROVE  FleetOK'
  <1>1. UNCHANGED <<registryVars, planVars>>
    BY DEF fleetVars
  <1>2. FleetTypeOK' /\ Registered' = Registered /\ UNCHANGED <<limit, lowered>>
    BY <1>1 DEF FleetOK, FleetTypeOK, registryVars, planVars, Registered
  <1>3. Creating' = Creating /\ \A p \in Process : FleetCall(call'[p])
    BY CreatingKept DEF FleetOK
  <1>4. OverrunBounded'
    BY <1>2, <1>3, OverrunKept
  <1>. QED BY <1>2, <1>3, <1>4 DEF FleetOK, FleetCall

(* A request that leaves the vehicles registered as they are, by itself.    *)
LEMMA RegistryKept ==
  ASSUME FleetOK, UNCHANGED call, FleetTypeOK', Registered' = Registered,
         UNCHANGED <<limit, lowered>>
  PROVE  FleetOK'
  <1>1. Creating' = Creating
    BY DEF Creating
  <1>2. OverrunBounded'
    BY <1>1, OverrunKept
  <1>. QED BY <1>2 DEF FleetOK, FleetCall

LEMMA FleetBegins ==
  ASSUME Calls, FleetOK, NEW p \in Process, NEW c, Begin(p, "registry", c),
         c.op \in fleetOps, FleetCall(c), UNCHANGED fleetVars
  PROVE  /\ Calls' /\ Spares(fleetOps) /\ FleetTypeOK' /\ Registered' = Registered
         /\ \A q \in Process : FleetCall(call'[q])
         /\ call[p].op = "idle" /\ call'[p] = c /\ \A q \in Process : q # p => call'[q] = call[q]
  <1>1. /\ Calls' /\ Spares(fleetOps) /\ call[p].op = "idle" /\ call'[p] = c
        /\ \A q \in Process : q # p => call'[q] = call[q]
    BY Began
  <1>2. FleetTypeOK' /\ Registered' = Registered
    BY DEF fleetVars, FleetOK, FleetTypeOK, registryVars, planVars, Registered
  <1>3. \A q \in Process : FleetCall(call[q])
    BY DEF FleetOK
  <1>4. \A q \in Process : FleetCall(call'[q])
    BY <1>1, <1>3
  <1>. QED BY <1>1, <1>2, <1>4

(* A request ends, whatever it was.                                         *)
LEMMA FleetEnds ==
  ASSUME Calls, FleetOK, NEW p \in Process, Return(p), call[p].op \in fleetOps
  PROVE  /\ Calls' /\ Spares(fleetOps)
         /\ \A q \in Process : FleetCall(call'[q])
         /\ Creating' = Creating \ {p}
  <1>1. /\ Calls' /\ Spares(fleetOps) /\ call'[p].op = "idle"
        /\ \A q \in Process : q # p => call'[q] = call[q]
    BY Returned
  <1>2. \A q \in Process : FleetCall(call[q])
    BY DEF FleetOK
  <1>3. FleetCall(call'[p])
    BY <1>1 DEF FleetCall
  <1>. QED BY <1>1, <1>2, <1>3 DEF Creating

LEMMA CreateVehicleKept ==
  ASSUME Calls, FleetOK, NEW p \in Process, NEW v \in Vehicle, NEW g \in Group \cup {None},
         CreateVehicle(p, v, g)
  PROVE  FleetOK' /\ Calls' /\ Spares(fleetOps)
  <1>1. PICK c : c = [op |-> "create_vehicle", vehicle |-> v, fleet |-> g]
    OBVIOUS
  <1>2. c.op = "create_vehicle" /\ FleetCall(c) /\ c.op \in fleetOps
    BY <1>1 DEF FleetCall, CreateVehicleCall, fleetOps
  <1>3. Begin(p, "registry", c) /\ UNCHANGED fleetVars
    BY <1>1 DEF CreateVehicle, fleetVars
  <1>4. /\ Calls' /\ Spares(fleetOps) /\ FleetTypeOK' /\ Registered' = Registered
        /\ \A q \in Process : FleetCall(call'[q])
    BY <1>2, <1>3, FleetBegins
  <1>5. PICK a, b, n \in Nat : /\ a = Cardinality(Registered) /\ b = Cardinality(Creating')
                               /\ n = Cardinality(Process) /\ b <= n
    <2>1. Creating' \in SUBSET Process
      BY DEF Creating
    <2>. QED BY <2>1, Countable, Sets
  <1>6. limit \in Nat \cup {-1} /\ limit' = limit /\ (limit >= 0 => a < limit)
    BY <1>3, <1>5, FleetAssumption
       DEF FleetOK, FleetTypeOK, fleetVars, planVars, CreateVehicle, EnforceVehicleLimit
  <1>7. limit >= 0 => a + b < limit + n
    BY <1>5, <1>6
  <1>8. OverrunBounded'
    BY <1>4, <1>5, <1>6, <1>7 DEF OverrunBounded
  <1>. QED BY <1>4, <1>8 DEF FleetOK

LEMMA InsertVehicleKept ==
  ASSUME Calls, FleetOK, NEW p \in Process, InsertVehicle(p)
  PROVE  FleetOK' /\ Calls' /\ Spares(fleetOps)
  <1>1. PICK v, g : v = call[p].vehicle /\ g = call[p].fleet
    OBVIOUS
  <1>2. call[p].op = "create_vehicle" /\ v \in Vehicle /\ g \in Group \cup {None} /\ p \in Creating
    <2>1. call[p].op = "create_vehicle" /\ FleetCall(call[p])
      BY DEF InsertVehicle, FleetOK
    <2>2. call[p] \in CreateVehicleCall
      BY <2>1 DEF FleetCall
    <2>. QED BY <1>1, <2>1, <2>2 DEF CreateVehicleCall, Creating
  <1>3. /\ Calls' /\ Spares(fleetOps) /\ \A q \in Process : FleetCall(call'[q])
        /\ Creating' = Creating \ {p}
    <2>1. call[p].op \in fleetOps
      BY <1>2 DEF fleetOps
    <2>. QED BY <2>1, FleetEnds DEF InsertVehicle
  <1>4. /\ vehicle' = IF v \in Registered THEN vehicle
                      ELSE [vehicle EXCEPT ![v] = [status |-> "active", fleet |-> g]]
        /\ UNCHANGED <<driver, fleet, device, camera, assignment, limit, subscription, lowered>>
    BY <1>1 DEF InsertVehicle, planVars
  <1>5. vehicle \in [Vehicle -> VehicleRow]
    BY DEF FleetOK, FleetTypeOK
  <1>6. vehicle' \in [Vehicle -> VehicleRow] /\ Registered' \subseteq Registered \cup {v}
    <2>1. [status |-> "active", fleet |-> g] \in VehicleRow
      BY <1>2 DEF VehicleRow
    <2>. QED BY <1>4, <1>5, <2>1 DEF Registered
  <1>7. FleetTypeOK'
    BY <1>4, <1>6 DEF FleetOK, FleetTypeOK
  <1>8. PICK a, b, c, d, n \in Nat :
          /\ a = Cardinality(Registered) /\ b = Cardinality(Creating) /\ n = Cardinality(Process)
          /\ c = Cardinality(Registered') /\ d = Cardinality(Creating')
    <2>1. Registered' \in SUBSET Vehicle /\ Creating' \in SUBSET Process
      BY DEF Registered, Creating
    <2>. QED BY <2>1, Countable, Sets
  <1>9. d = b - 1
    <2>1. IsFiniteSet(Creating)
      BY Countable, Sets
    <2>. QED BY <1>2, <1>3, <1>8, <2>1, FS_RemoveElement
  <1>10. c <= a + 1
    <2>1. IsFiniteSet(Registered)
      BY Countable, Sets
    <2>2. IsFiniteSet(Registered \cup {v}) /\ Cardinality(Registered \cup {v}) <= a + 1
      BY <2>1, <1>8, FS_AddElement
    <2>3. c <= Cardinality(Registered \cup {v}) /\ Cardinality(Registered \cup {v}) \in Nat
      BY <1>6, <1>8, <2>2, FS_Subset, FS_CardinalityType
    <2>. QED BY <2>2, <2>3
  <1>11. limit \in Nat \cup {-1}
    BY FleetAssumption DEF FleetOK, FleetTypeOK
  <1>12. limit >= 0 /\ ~lowered => a + b < limit + n
    BY <1>8 DEF FleetOK, OverrunBounded
  <1>13. limit >= 0 /\ ~lowered => c + d < limit + n
    BY <1>9, <1>10, <1>11, <1>12
  <1>14. OverrunBounded'
    BY <1>4, <1>8, <1>13 DEF OverrunBounded
  <1>. QED BY <1>3, <1>7, <1>14 DEF FleetOK

LEMMA AssignmentsKept ==
  ASSUME Calls, FleetOK,
         \/ \E d \in Driver, v \in Vehicle : AssignDriver(d, v)
         \/ \E p \in Process, i \in DOMAIN assignment : CloseAssignment(p, i)
         \/ \E p \in Process : EndAssignment(p)
  PROVE  FleetOK' /\ Calls' /\ Spares(fleetOps)
  <1>0. assignment \in Seq(AssignmentRow) /\ DOMAIN assignment \subseteq Nat
    BY DEF FleetOK, FleetTypeOK
  <1>1. ASSUME NEW d \in Driver, NEW v \in Vehicle, AssignDriver(d, v)
        PROVE  FleetOK' /\ Calls' /\ Spares(fleetOps)
    <2>1. PICK r : r = [driver |-> d, vehicle |-> v, ends |-> 0]
      OBVIOUS
    <2>2. r \in AssignmentRow
      BY <2>1 DEF AssignmentRow
    <2>3. /\ assignment' = Append(assignment, r) /\ UNCHANGED call
          /\ UNCHANGED <<vehicle, driver, fleet, device, camera, limit, subscription, lowered>>
      BY <1>1, <2>1 DEF AssignDriver, AtOnce, planVars
    <2>4. assignment' \in Seq(AssignmentRow)
      BY <1>0, <2>2, <2>3, AppendProperties
    <2>5. FleetTypeOK' /\ Registered' = Registered
      BY <2>3, <2>4 DEF FleetOK, FleetTypeOK, Registered
    <2>. QED BY <2>3, <2>5, RegistryKept, NoneMoved
  <1>2. ASSUME NEW p \in Process, NEW i \in DOMAIN assignment, CloseAssignment(p, i)
        PROVE  FleetOK' /\ Calls' /\ Spares(fleetOps)
    <2>1. PICK c : c = [op |-> "end_assignment", row |-> i]
      OBVIOUS
    <2>2. c.op = "end_assignment" /\ FleetCall(c) /\ c.op \in fleetOps
      BY <1>0, <2>1 DEF FleetCall, EndCall, fleetOps
    <2>3. Begin(p, "registry", c) /\ UNCHANGED fleetVars
      BY <1>2, <2>1 DEF CloseAssignment, fleetVars
    <2>4. /\ Calls' /\ Spares(fleetOps) /\ FleetTypeOK' /\ Registered' = Registered
          /\ \A q \in Process : FleetCall(call'[q])
          /\ call[p].op = "idle" /\ call'[p] = c /\ \A q \in Process : q # p => call'[q] = call[q]
      BY <2>2, <2>3, FleetBegins
    <2>5. Creating' \subseteq Creating
      BY <2>2, <2>4 DEF Creating
    <2>6. OverrunBounded'
      BY <2>3, <2>4, <2>5, OverrunKept DEF fleetVars, planVars
    <2>. QED BY <2>4, <2>6 DEF FleetOK
  <1>3. ASSUME NEW p \in Process, EndAssignment(p)
        PROVE  FleetOK' /\ Calls' /\ Spares(fleetOps)
    <2>1. /\ Calls' /\ Spares(fleetOps) /\ \A q \in Process : FleetCall(call'[q])
          /\ Creating' = Creating \ {p}
      <3>1. call[p].op \in fleetOps /\ Return(p)
        BY <1>3 DEF EndAssignment, fleetOps
      <3>. QED BY <3>1, FleetEnds
    <2>2. PICK i : i = call[p].row
      OBVIOUS
    <2>3. /\ assignment' = [assignment EXCEPT ![i].ends = @ + 1]
          /\ UNCHANGED <<vehicle, driver, fleet, device, camera, limit, subscription, lowered>>
      BY <1>3, <2>2 DEF EndAssignment, planVars
    <2>4. assignment' \in Seq(AssignmentRow)
      <3>1. \A r \in AssignmentRow : [r EXCEPT !.ends = @ + 1] \in AssignmentRow
        BY DEF AssignmentRow
      <3>2. CASE i \in DOMAIN assignment
        <4>1. assignment[i] \in AssignmentRow
          BY <1>0, <3>2
        <4>2. PICK r : r = [assignment[i] EXCEPT !.ends = @ + 1]
          OBVIOUS
        <4>3. r \in AssignmentRow /\ assignment' = [assignment EXCEPT ![i] = r]
          BY <2>3, <3>1, <4>1, <4>2
        <4>. QED BY <1>0, <3>2, <4>3, ExceptSeq
      <3>3. CASE i \notin DOMAIN assignment
        <4>1. assignment = [j \in DOMAIN assignment |-> assignment[j]]
          BY <1>0
        <4>2. assignment' = assignment
          BY <2>3, <3>3, <4>1
        <4>. QED BY <1>0, <4>2
      <3>. QED BY <3>2, <3>3
    <2>5. FleetTypeOK' /\ Registered' = Registered
      BY <2>3, <2>4 DEF FleetOK, FleetTypeOK, Registered
    <2>6. OverrunBounded'
      BY <2>1, <2>3, <2>5, OverrunKept
    <2>. QED BY <2>1, <2>5, <2>6 DEF FleetOK
  <1>. QED BY <1>1, <1>2, <1>3

LEMMA PlanKept ==
  ASSUME Calls, FleetOK, (\E n \in Limits : ChangePlan(n)) \/ TrialEnds
  PROVE  FleetOK' /\ Calls' /\ Spares(fleetOps)
  <1>1. ASSUME NEW n \in Limits, ChangePlan(n)
        PROVE  FleetOK' /\ Calls' /\ Spares(fleetOps)
    <2>1. /\ limit' = n /\ subscription' = "active" /\ UNCHANGED call
          /\ UNCHANGED <<vehicle, driver, fleet, device, camera, assignment>>
      BY <1>1 DEF ChangePlan, AtOnce, registryVars
    <2>2. lowered' = (lowered \/ (n >= 0 /\ (limit < 0 \/ n < limit)))
      BY <1>1 DEF ChangePlan
    <2>3. lowered' \in BOOLEAN
      BY <2>2
    <2>4. FleetTypeOK' /\ Registered' = Registered /\ Creating' = Creating
      BY <2>1, <2>3 DEF FleetOK, FleetTypeOK, SubscriptionState, Registered, Creating
    <2>5. PICK a, b, m \in Nat :
            /\ a = Cardinality(Registered) /\ b = Cardinality(Creating) /\ m = Cardinality(Process)
      BY Countable, Sets
    <2>6. limit \in Nat \cup {-1} /\ n \in Nat \cup {-1}
      BY FleetAssumption DEF FleetOK, FleetTypeOK
    <2>7. limit >= 0 /\ ~lowered => a + b < limit + m
      BY <2>5 DEF FleetOK, OverrunBounded
    <2>8. n >= 0 /\ ~lowered' => limit >= 0 /\ n >= limit /\ ~lowered
      <3>1. PICK smaller \in BOOLEAN : smaller <=> (n >= 0 /\ (limit < 0 \/ n < limit))
        OBVIOUS
      <3>2. ~lowered' => ~smaller /\ ~lowered
        BY <2>2, <3>1
      <3>3. n >= 0 /\ ~smaller => limit >= 0 /\ n >= limit
        BY <2>6, <3>1
      <3>. QED BY <3>2, <3>3
    <2>9. n >= 0 /\ ~lowered' => a + b < n + m
      BY <2>6, <2>7, <2>8
    <2>10. OverrunBounded'
      BY <2>1, <2>4, <2>5, <2>9 DEF OverrunBounded
    <2>. QED BY <2>1, <2>4, <2>10, NoneMoved DEF FleetOK, FleetCall
  <1>2. ASSUME TrialEnds
        PROVE  FleetOK' /\ Calls' /\ Spares(fleetOps)
    <2>1. /\ subscription' = "ended" /\ UNCHANGED call
          /\ UNCHANGED <<vehicle, driver, fleet, device, camera, assignment, limit, lowered>>
      BY <1>2 DEF TrialEnds, AtOnce, registryVars
    <2>2. FleetTypeOK' /\ Registered' = Registered
      BY <2>1 DEF FleetOK, FleetTypeOK, SubscriptionState, Registered
    <2>. QED BY <2>1, <2>2, RegistryKept, NoneMoved
  <1>. QED BY <1>1, <1>2

LEMMA RowsKept ==
  ASSUME Calls, FleetOK,
         \/ \E v \in Vehicle, row \in VehicleRow : UpdateVehicle(v, row)
         \/ \E g \in Group : CreateFleet(g)
         \/ \E d \in Driver : CreateDriver(d)
         \/ \E x \in Device, v \in Vehicle \cup {None} : CreateDevice(x, v)
         \/ \E x \in Device, row \in DeviceRow : UpdateDevice(x, row)
         \/ \E c \in Camera, v \in Vehicle \cup {None}, x \in Device \cup {None} :
              CreateCamera(c, v, x)
         \/ \E c \in Camera, row \in CameraRow : UpdateCamera(c, row)
  PROVE  FleetOK' /\ Calls' /\ Spares(fleetOps)
  <1>0. FleetTypeOK
    BY DEF FleetOK
  <1>1. ASSUME NEW v \in Vehicle, NEW row \in VehicleRow, UpdateVehicle(v, row)
        PROVE  UNCHANGED <<call, limit, lowered>> /\ FleetTypeOK' /\ Registered' = Registered
    BY <1>0, <1>1 DEF UpdateVehicle, AtOnce, planVars, FleetTypeOK, Registered
  <1>2. ASSUME NEW g \in Group, CreateFleet(g)
        PROVE  UNCHANGED <<call, limit, lowered>> /\ FleetTypeOK' /\ Registered' = Registered
    BY <1>0, <1>2 DEF CreateFleet, AtOnce, planVars, FleetTypeOK, Registered
  <1>3. ASSUME NEW d \in Driver, CreateDriver(d)
        PROVE  UNCHANGED <<call, limit, lowered>> /\ FleetTypeOK' /\ Registered' = Registered
    BY <1>0, <1>3 DEF CreateDriver, AtOnce, planVars, FleetTypeOK, Registered, DriverRow
  <1>4. ASSUME NEW x \in Device, NEW v \in Vehicle \cup {None}, CreateDevice(x, v)
        PROVE  UNCHANGED <<call, limit, lowered>> /\ FleetTypeOK' /\ Registered' = Registered
    <2>1. [status |-> "active", vehicle |-> v] \in DeviceRow
      BY DEF DeviceRow
    <2>. QED BY <1>0, <1>4, <2>1 DEF CreateDevice, AtOnce, planVars, FleetTypeOK, Registered
  <1>5. ASSUME NEW x \in Device, NEW row \in DeviceRow, UpdateDevice(x, row)
        PROVE  UNCHANGED <<call, limit, lowered>> /\ FleetTypeOK' /\ Registered' = Registered
    BY <1>0, <1>5 DEF UpdateDevice, AtOnce, planVars, FleetTypeOK, Registered
  <1>6. ASSUME NEW c \in Camera, NEW v \in Vehicle \cup {None}, NEW x \in Device \cup {None},
               CreateCamera(c, v, x)
        PROVE  UNCHANGED <<call, limit, lowered>> /\ FleetTypeOK' /\ Registered' = Registered
    <2>1. [status |-> "active", vehicle |-> v, device |-> x] \in CameraRow
      BY DEF CameraRow
    <2>. QED BY <1>0, <1>6, <2>1 DEF CreateCamera, AtOnce, planVars, FleetTypeOK, Registered
  <1>7. ASSUME NEW c \in Camera, NEW row \in CameraRow, UpdateCamera(c, row)
        PROVE  UNCHANGED <<call, limit, lowered>> /\ FleetTypeOK' /\ Registered' = Registered
    BY <1>0, <1>7 DEF UpdateCamera, AtOnce, planVars, FleetTypeOK, Registered
  <1>8. UNCHANGED <<call, limit, lowered>> /\ FleetTypeOK' /\ Registered' = Registered
    BY <1>1, <1>2, <1>3, <1>4, <1>5, <1>6, <1>7
  <1>. QED BY <1>8, RegistryKept, NoneMoved

LEMMA FleetKept ==
  ASSUME Calls, FleetOK, FleetStep
  PROVE  FleetOK' /\ Calls' /\ Spares(fleetOps)
  BY CreateVehicleKept, InsertVehicleKept, AssignmentsKept, PlanKept, RowsKept DEF FleetStep

-----------------------------------------------------------------------------
(* Ingestion.  What a batch has inserted and not committed is nobody else's *)
(* and not committed by anybody; an outcome "accepted" stands for the row   *)
(* it has inserted, and any outcome for a row that there is or will be.     *)
(* What a batch has read of a counter is no more than the outcomes          *)
(* answered, and still right unless another batch has changed it.           *)
ingestOps == {"ingest"}

batchFields == {"op", "source", "todo", "read", "known", "base", "rows", "outcomes", "stale"}

Has(c, k) == \E r \in c.rows : r.key = k

Answers(s) == \E K : s \in Seq([key : K, outcome : Outcome])

RowsOK(c) ==
  /\ DOMAIN c = batchFields
  /\ c.source \in Source /\ c.base \in [Outcome -> Nat] /\ c.stale \subseteq Outcome
  /\ Answers(c.outcomes)
  /\ \A r1, r2 \in c.rows : r1.key = r2.key => r1 = r2
  /\ \A r \in c.rows :
       /\ r.status \in {"accepted", "quarantined"}
       /\ \E i \in DOMAIN c.outcomes :
            /\ c.outcomes[i].key = r.key
            /\ r.status = "accepted" => c.outcomes[i].outcome = "accepted"
  /\ \A i \in DOMAIN c.outcomes : c.outcomes[i].outcome = "accepted" =>
       /\ \E r \in c.rows : r.key = c.outcomes[i].key /\ r.status = "accepted"
       /\ \A j \in DOMAIN c.outcomes :
            c.outcomes[j] = c.outcomes[i] => i = j

Fresh(c) ==
  /\ \A r \in c.rows : r.key \in Key => inbox[r.key] = "none"
  /\ \A i \in DOMAIN c.outcomes :
       LET k == c.outcomes[i].key IN k \in Key => Has(c, k) \/ inbox[k] # "none"

CountsOK(c) ==
  \A o \in Outcome : /\ c.base[o] <= total[c.source][o]
                     /\ o \notin c.stale => c.base[o] = source[c.source].count[o]

Apart == \A p, q \in Process : p # q /\ Ingesting(p) /\ Ingesting(q) =>
           \A k : ~(Has(call[p], k) /\ Has(call[q], k))

BatchesOK == /\ Apart
             /\ \A p \in Process : Ingesting(p) =>
                  RowsOK(call[p]) /\ Fresh(call[p]) /\ CountsOK(call[p])

BatchTypes == /\ client \subseteq Client
              /\ token \in [Token -> TokenRow]
              /\ source \in [Source -> DataSource]
              /\ inbox \in [Key -> IngestRow]
              /\ published \in [Key -> Nat]
              /\ answered \in [Key -> [Outcome -> Nat]]
              /\ total \in [Source -> [Outcome -> Nat]]
              /\ overtaken \subseteq Source \X Outcome

IngestionOK == BatchTypes /\ AcknowledgedOnce /\ CountersAddUp /\ BatchesOK

LEMMA IngestionStarts ==
  ASSUME RequestsInit, IngestionInit
  PROVE  IngestionOK
  <1>1. NoCounts \in [Outcome -> Nat] /\ \A o \in Outcome : NoCounts[o] = 0
    BY DEF NoCounts
  <1>2. BatchTypes
    BY <1>1 DEF IngestionInit, BatchTypes, TokenRow, DataSource, IngestRow
  <1>3. "accepted" \in Outcome
    BY DEF Outcome
  <1>4. AcknowledgedOnce
    BY <1>1, <1>3 DEF IngestionInit, AcknowledgedOnce
  <1>5. CountersAddUp
    BY <1>1 DEF IngestionInit, CountersAddUp
  <1>6. \A p \in Process : ~Ingesting(p)
    BY DEF RequestsInit, Idle, Ingesting
  <1>. QED BY <1>2, <1>4, <1>5, <1>6 DEF IngestionOK, BatchesOK, Apart

LEMMA BatchesFrame ==
  ASSUME BatchesOK, NEW own, Spares(own), "ingest" \notin own,
         UNCHANGED <<source, inbox, total>>
  PROVE  BatchesOK'
  <1>1. \A q \in Process : call'[q] = call[q] \/ (call[q].op # "ingest" /\ call'[q].op # "ingest")
    BY DEF Spares
  <1>2. \A q \in Process : Ingesting(q)' => Ingesting(q) /\ call'[q] = call[q]
    BY <1>1 DEF Ingesting
  <1>3. Apart'
    BY <1>2 DEF BatchesOK, Apart, Has
  <1>4. ASSUME NEW p \in Process, Ingesting(p)'
        PROVE  RowsOK(call[p])' /\ Fresh(call[p])' /\ CountsOK(call[p])'
    <2>1. RowsOK(call[p]) /\ Fresh(call[p]) /\ CountsOK(call[p]) /\ call'[p] = call[p]
      BY <1>2, <1>4 DEF BatchesOK
    <2>3. PICK c : c = call[p]
      OBVIOUS
    <2>4. RowsOK(c) /\ Fresh(c) /\ CountsOK(c) /\ call'[p] = c
      BY <2>1, <2>3
    <2>2. RowsOK(call[p])'
      BY <2>4
    <2>5. Fresh(c)'
      BY <2>4 DEF Fresh, Has
    <2>6. CountsOK(c)'
      BY <2>4 DEF CountsOK
    <2>7. Fresh(call[p])'
      BY <2>4, <2>5 DEF Fresh, Has
    <2>8. CountsOK(call[p])'
      BY <2>4, <2>6 DEF CountsOK
    <2>. QED BY <2>2, <2>7, <2>8
  <1>. QED BY <1>3, <1>4 DEF BatchesOK

LEMMA IngestionFrame ==
  ASSUME IngestionOK, NEW own, Spares(own), "ingest" \notin own,
         UNCHANGED <<clientVars, batchVars>>
  PROVE  IngestionOK'
  <1>1. UNCHANGED <<client, token, source, inbox, published, answered, total, overtaken>>
    BY DEF clientVars, batchVars
  <1>2. BatchTypes' /\ AcknowledgedOnce' /\ CountersAddUp'
    BY <1>1 DEF IngestionOK, BatchTypes, AcknowledgedOnce, CountersAddUp
  <1>3. BatchesOK'
    BY <1>1, BatchesFrame DEF IngestionOK
  <1>. QED BY <1>2, <1>3 DEF IngestionOK

LEMMA Becomes ==
  ASSUME NEW p \in Process, NEW c, call'[p] = c, RowsOK(c), Fresh(c)', CountsOK(c)'
  PROVE  RowsOK(call[p])' /\ Fresh(call[p])' /\ CountsOK(call[p])'
  <1>1. RowsOK(call[p])'
    OBVIOUS
  <1>2. Fresh(call[p])'
    BY DEF Fresh, Has
  <1>3. CountsOK(call[p])'
    BY DEF CountsOK
  <1>. QED BY <1>1, <1>2, <1>3

(* A batch moves and the rows of the others, the events and the counters    *)
(* stay as they are.                                                        *)
LEMMA OneBatchMoves ==
  ASSUME Calls, BatchesOK, UNCHANGED <<source, inbox, total>>, NEW p \in Process, NEW c,
         call'[p] = c, \A q \in Process : q # p => call'[q] = call[q],
         c.op = "ingest" =>
           /\ RowsOK(c) /\ Fresh(c) /\ CountsOK(c)
           /\ \A q \in Process : q # p /\ Ingesting(q) => \A k : ~(Has(c, k) /\ Has(call[q], k))
  PROVE  BatchesOK'
  <1>1. \A q \in Process : q # p /\ Ingesting(q)' => Ingesting(q)
    BY DEF Ingesting
  <1>2. ASSUME NEW d, Fresh(d) /\ CountsOK(d)
        PROVE  Fresh(d)' /\ CountsOK(d)'
    BY <1>2 DEF Fresh, CountsOK, Has
  <1>3. ASSUME NEW q \in Process, Ingesting(q)'
        PROVE  RowsOK(call[q])' /\ Fresh(call[q])' /\ CountsOK(call[q])'
    <2>1. CASE q = p
      <3>1. c.op = "ingest"
        BY <1>3, <2>1 DEF Ingesting
      <3>. QED BY <2>1, <3>1, <1>2, Becomes
    <2>2. CASE q # p
      <3>1. PICK d : d = call[q]
        OBVIOUS
      <3>2. RowsOK(d) /\ Fresh(d) /\ CountsOK(d) /\ call'[q] = d
        BY <2>2, <3>1, <1>1, <1>3 DEF BatchesOK
      <3>. QED BY <3>2, <1>2, Becomes
    <2>. QED BY <2>1, <2>2
  <1>4. ASSUME NEW q \in Process, NEW r \in Process, q # r, Ingesting(q)', Ingesting(r)', NEW k,
               Has(call[q], k)', Has(call[r], k)'
        PROVE  FALSE
    <2>1. CASE q # p /\ r # p
      BY <1>1, <1>4, <2>1 DEF BatchesOK, Apart, Has
    <2>2. CASE q = p
      <3>1. c.op = "ingest" /\ Has(c, k) /\ Ingesting(r) /\ Has(call[r], k)
        BY <1>1, <1>4, <2>2 DEF Ingesting, Has
      <3>. QED BY <1>4, <2>2, <3>1
    <2>3. CASE r = p
      <3>1. c.op = "ingest" /\ Has(c, k) /\ Ingesting(q) /\ Has(call[q], k)
        BY <1>1, <1>4, <2>3 DEF Ingesting, Has
      <3>. QED BY <1>4, <2>3, <3>1
    <2>. QED BY <2>1, <2>2, <2>3
  <1>5. Apart'
    BY <1>4 DEF Apart
  <1>. QED BY <1>3, <1>5 DEF BatchesOK

(* A request that writes no event and no counter, by itself.                *)
LEMMA ClientKept ==
  ASSUME Calls, FleetOK, IngestionOK,
         \/ \E c \in Client : CreateClient(c)
         \/ \E t \in Token : RevokeToken(t) \/ \E ingest \in BOOLEAN : IssueToken(t, ingest)
  PROVE  FleetOK' /\ IngestionOK' /\ Calls' /\ Spares(ingestOps \cup fleetOps)
  <1>1. UNCHANGED <<call, registryVars, planVars, batchVars>>
    BY DEF CreateClient, RevokeToken, IssueToken, AtOnce
  <1>2. client \subseteq Client /\ token \in [Token -> TokenRow]
    BY DEF IngestionOK, BatchTypes
  <1>3. client' \subseteq Client /\ token' \in [Token -> TokenRow]
    <2>1. ASSUME NEW c \in Client, CreateClient(c)
          PROVE  client' \subseteq Client /\ token' \in [Token -> TokenRow]
      BY <1>2, <2>1 DEF CreateClient
    <2>2. ASSUME NEW t \in Token, RevokeToken(t)
          PROVE  client' \subseteq Client /\ token' \in [Token -> TokenRow]
      <3>1. PICK r : r = [token[t] EXCEPT !.status = "over"]
        OBVIOUS
      <3>2. r \in TokenRow
        BY <1>2, <3>1 DEF TokenRow
      <3>. QED BY <1>2, <2>2, <3>1, <3>2 DEF RevokeToken, clientVars
    <2>3. ASSUME NEW t \in Token, NEW ingest \in BOOLEAN, IssueToken(t, ingest)
          PROVE  client' \subseteq Client /\ token' \in [Token -> TokenRow]
      <3>1. PICK r : r = [status |-> "live", ingest |-> ingest]
        OBVIOUS
      <3>2. r \in TokenRow
        BY <3>1 DEF TokenRow
      <3>. QED BY <1>2, <2>3, <3>1, <3>2 DEF IssueToken
    <2>. QED BY <2>1, <2>2, <2>3
  <1>4. UNCHANGED <<source, inbox, published, answered, total, overtaken>>
    BY <1>1 DEF batchVars
  <1>5. BatchTypes'
    BY <1>3, <1>4 DEF IngestionOK, BatchTypes
  <1>6. AcknowledgedOnce' /\ CountersAddUp'
    BY <1>4 DEF IngestionOK, AcknowledgedOnce, CountersAddUp
  <1>7. Calls' /\ Spares({}) /\ Spares(ingestOps \cup fleetOps)
    BY <1>1, NoneMoved
  <1>8. BatchesOK'
    BY <1>4, <1>7, BatchesFrame DEF IngestionOK
  <1>9. FleetOK'
    BY <1>1, <1>7, FleetFrame DEF fleetVars
  <1>. QED BY <1>5, <1>6, <1>7, <1>8, <1>9 DEF IngestionOK

LEMMA CreateDataSourceKept ==
  ASSUME Calls, FleetOK, IngestionOK, NEW s \in Source, CreateDataSource(s)
  PROVE  FleetOK' /\ IngestionOK' /\ Calls' /\ Spares(ingestOps \cup fleetOps)
  <1>1. UNCHANGED <<call, registryVars, planVars, clientVars, inbox, published, answered, total,
                    overtaken>>
    BY DEF CreateDataSource, AtOnce
  <1>2. source' = [source EXCEPT ![s].exists = TRUE] /\ source \in [Source -> DataSource]
    BY DEF CreateDataSource, IngestionOK, BatchTypes
  <1>3. source' \in [Source -> DataSource] /\ \A x \in Source : source'[x].count = source[x].count
    BY <1>2 DEF DataSource
  <1>4. BatchTypes'
    BY <1>1, <1>3 DEF IngestionOK, BatchTypes, clientVars
  <1>5. AcknowledgedOnce' /\ CountersAddUp'
    BY <1>1, <1>3 DEF IngestionOK, AcknowledgedOnce, CountersAddUp
  <1>6. Calls' /\ Spares({}) /\ Spares(ingestOps \cup fleetOps)
    BY <1>1, NoneMoved
  <1>7. ASSUME NEW p \in Process, Ingesting(p)'
        PROVE  RowsOK(call[p])' /\ Fresh(call[p])' /\ CountsOK(call[p])'
    <2>1. PICK c : c = call[p]
      OBVIOUS
    <2>2. RowsOK(c) /\ Fresh(c) /\ CountsOK(c) /\ call'[p] = c
      BY <1>1, <1>7, <2>1 DEF IngestionOK, BatchesOK, Ingesting
    <2>3. Fresh(c)'
      BY <1>1, <2>2 DEF Fresh
    <2>4. c.source \in Source
      BY <2>2 DEF RowsOK
    <2>5. CountsOK(c)'
      BY <1>1, <1>3, <2>2, <2>4 DEF CountsOK
    <2>. QED BY <2>2, <2>3, <2>5, Becomes
  <1>8. Apart'
    BY <1>1 DEF IngestionOK, BatchesOK, Apart, Ingesting, Has
  <1>9. FleetOK'
    BY <1>1, <1>6, FleetFrame DEF fleetVars
  <1>. QED BY <1>4, <1>5, <1>6, <1>7, <1>8, <1>9 DEF IngestionOK, BatchesOK

(* A step of a batch that writes nothing but what it keeps for itself.      *)
LEMMA BatchStep ==
  ASSUME Calls, FleetOK, IngestionOK, UNCHANGED <<registryVars, planVars, clientVars, batchVars>>,
         NEW p \in Process, NEW c,
         Calls', Spares(ingestOps), call'[p] = c, \A q \in Process : q # p => call'[q] = call[q],
         c.op = "ingest" =>
           /\ RowsOK(c) /\ Fresh(c) /\ CountsOK(c)
           /\ \A q \in Process : q # p /\ Ingesting(q) => \A k : ~(Has(c, k) /\ Has(call[q], k))
  PROVE  FleetOK' /\ IngestionOK' /\ Calls' /\ Spares(ingestOps \cup fleetOps)
  <1>1. UNCHANGED <<client, token, source, inbox, published, answered, total, overtaken>>
    BY DEF clientVars, batchVars
  <1>2. BatchTypes' /\ AcknowledgedOnce' /\ CountersAddUp'
    BY <1>1 DEF IngestionOK, BatchTypes, AcknowledgedOnce, CountersAddUp
  <1>3. BatchesOK'
    BY <1>1, OneBatchMoves DEF IngestionOK
  <1>4. FleetOK'
    BY FleetFrame DEF fleetVars, ingestOps, fleetOps
  <1>5. Spares(ingestOps \cup fleetOps)
    BY DEF Spares
  <1>. QED BY <1>2, <1>3, <1>4, <1>5 DEF IngestionOK

LEMMA IngestEventsKept ==
  ASSUME Calls, FleetOK, IngestionOK, NEW p \in Process, NEW s \in Source, NEW events,
         IngestEvents(p, s, events)
  PROVE  FleetOK' /\ IngestionOK' /\ Calls' /\ Spares(ingestOps \cup fleetOps)
  <1>1. PICK c : c = NewBatch(s, events)
    OBVIOUS
  <1>2. /\ c.op = "ingest" /\ DOMAIN c = batchFields /\ c.source = s /\ c.base = source[s].count
        /\ c.rows = {} /\ c.outcomes = <<>> /\ c.stale = {}
    BY <1>1 DEF NewBatch, batchFields
  <1>3. /\ Calls' /\ Spares(ingestOps) /\ call'[p] = c
        /\ \A q \in Process : q # p => call'[q] = call[q]
    BY <1>1, <1>2, Began DEF IngestEvents, ingestOps
  <1>4. source[s].count \in [Outcome -> Nat] /\ \A o \in Outcome : source[s].count[o] <= total[s][o]
    BY DEF IngestionOK, BatchTypes, DataSource, CountersAddUp
  <1>5. RowsOK(c) /\ Fresh(c) /\ CountsOK(c) /\ \A k : ~Has(c, k)
    <2>1. <<>> \in Seq([key : Key, outcome : Outcome]) /\ DOMAIN <<>> = {}
      OBVIOUS
    <2>. QED BY <1>2, <1>4, <2>1 DEF RowsOK, Fresh, CountsOK, Has, Answers
  <1>. QED BY <1>3, <1>5, BatchStep DEF IngestEvents

LEMMA KnownVehiclesKept ==
  ASSUME Calls, FleetOK, IngestionOK, NEW p \in Process, KnownVehicles(p)
  PROVE  FleetOK' /\ IngestionOK' /\ Calls' /\ Spares(ingestOps \cup fleetOps)
  <1>1. PICK b : b = call[p]
    OBVIOUS
  <1>2. RowsOK(b) /\ Fresh(b) /\ CountsOK(b) /\ b.op = "ingest"
    BY <1>1 DEF IngestionOK, BatchesOK, KnownVehicles, Ingesting
  <1>3. DOMAIN b = batchFields
    BY <1>2 DEF RowsOK
  <1>4. PICK c : c = [b EXCEPT !.known = Registered, !.read = TRUE]
    OBVIOUS
  <1>5. /\ c.op = "ingest" /\ DOMAIN c = batchFields /\ c.source = b.source /\ c.base = b.base
        /\ c.rows = b.rows /\ c.outcomes = b.outcomes /\ c.stale = b.stale
    BY <1>2, <1>3, <1>4 DEF batchFields
  <1>6. call' = [call EXCEPT ![p] = c]
    BY <1>1, <1>4 DEF KnownVehicles, Calls
  <1>7. /\ Calls' /\ Spares(ingestOps) /\ call'[p] = c
        /\ \A q \in Process : q # p => call'[q] = call[q]
    <2>1. call[p].op \in ingestOps \cup {"idle"} /\ c.op \in ingestOps \cup {"idle"}
      BY <1>1, <1>2, <1>5 DEF ingestOps
    <2>. QED BY <1>6, <2>1, Moved
  <1>8. RowsOK(c)
    BY <1>2, <1>5 DEF RowsOK
  <1>9. Fresh(c) /\ CountsOK(c) /\ \A k : Has(c, k) => Has(b, k)
    BY <1>2, <1>5 DEF Fresh, CountsOK, Has
  <1>10. \A q \in Process : q # p /\ Ingesting(q) => \A k : ~(Has(c, k) /\ Has(call[q], k))
    <2>1. Ingesting(p)
      BY DEF KnownVehicles
    <2>. QED BY <1>1, <1>9, <2>1 DEF IngestionOK, BatchesOK, Apart
  <1>. QED BY <1>7, <1>8, <1>9, <1>10, BatchStep DEF KnownVehicles, ingestionVars

LEMMA WiderSeq ==
  ASSUME NEW S, NEW T, S \subseteq T, NEW s \in Seq(S)
  PROVE  s \in Seq(T)
  <1>1. Len(s) \in Nat /\ s \in [1..Len(s) -> S]
    OBVIOUS
  <1>2. s \in [1..Len(s) -> T]
    BY <1>1
  <1>. QED BY <1>1, <1>2

(* An event is answered, and inserted if there is no row of its key.        *)
LEMMA AnswerAdded ==
  ASSUME NEW b, RowsOK(b), Fresh(b), NEW k, NEW status \in {"accepted", "quarantined"},
         NEW outcome \in Outcome, NEW conflict \in BOOLEAN,
         conflict = (inbox[k] # "none" \/ Has(b, k)),
         outcome = "accepted" => ~conflict /\ status = "accepted",
         ~conflict /\ status = "accepted" => outcome = "accepted",
         NEW c, DOMAIN c = batchFields,
         c.source = b.source, c.base = b.base, c.stale = b.stale,
         c.rows = IF conflict THEN b.rows ELSE b.rows \cup {[key |-> k, status |-> status]},
         c.outcomes = Append(b.outcomes, [key |-> k, outcome |-> outcome])
  PROVE  RowsOK(c) /\ Fresh(c)
  <1>1. PICK K : b.outcomes \in Seq([key : K, outcome : Outcome])
    BY DEF RowsOK, Answers
  <1>2. PICK L : L = K \cup {k}
    OBVIOUS
  <1>3. b.outcomes \in Seq([key : L, outcome : Outcome])
    <2>1. PICK S, T : S = [key : K, outcome : Outcome] /\ T = [key : L, outcome : Outcome]
      OBVIOUS
    <2>2. S \subseteq T
      BY <1>2, <2>1
    <2>3. b.outcomes \in Seq(S)
      BY <1>1, <2>1
    <2>4. b.outcomes \in Seq(T)
      BY <2>2, <2>3, WiderSeq
    <2>. QED BY <2>1, <2>4
  <1>4. PICK a : a = [key |-> k, outcome |-> outcome]
    OBVIOUS
  <1>5. a \in [key : L, outcome : Outcome] /\ a.key = k /\ a.outcome = outcome
    BY <1>2, <1>4
  <1>6. PICK old : old = b.outcomes
    OBVIOUS
  <1>7. PICK new : new = c.outcomes
    OBVIOUS
  <1>8. PICK n \in Nat : n = Len(old)
    BY <1>3, <1>6
  <1>9. /\ new \in Seq([key : L, outcome : Outcome])
        /\ DOMAIN old = 1..n /\ DOMAIN new = 1..(n + 1)
        /\ \A i \in 1..n : new[i] = old[i]
        /\ new[n + 1] = a
    BY <1>3, <1>4, <1>5, <1>6, <1>7, <1>8, AppendProperties
  <1>10. \A i \in DOMAIN new : (i \in DOMAIN old /\ new[i] = old[i]) \/ (i = n + 1 /\ new[i] = a)
    BY <1>8, <1>9
  <1>11. /\ \A i \in DOMAIN old : i \in DOMAIN new /\ i # n + 1
         /\ n + 1 \in DOMAIN new
    BY <1>8, <1>9
  <1>12. PICK row : row = [key |-> k, status |-> status]
    OBVIOUS
  <1>13. /\ row.key = k /\ row.status = status
         /\ c.rows = IF conflict THEN b.rows ELSE b.rows \cup {row}
    BY <1>12
  <1>14. \A i \in DOMAIN old : old[i].outcome = "accepted" =>
           /\ \E r \in b.rows : r.key = old[i].key /\ r.status = "accepted"
           /\ \A j \in DOMAIN old : old[j] = old[i] => i = j
    BY <1>6 DEF RowsOK
  <1>15. \A r \in b.rows :
           /\ r.status \in {"accepted", "quarantined"}
           /\ \E i \in DOMAIN old : /\ old[i].key = r.key
                                    /\ r.status = "accepted" => old[i].outcome = "accepted"
    BY <1>6 DEF RowsOK
  <1>16. b.rows \subseteq c.rows
    BY <1>13
  <1>17. \A r1, r2 \in c.rows : r1.key = r2.key => r1 = r2
    <2>1. \A r1, r2 \in b.rows : r1.key = r2.key => r1 = r2
      BY DEF RowsOK
    <2>2. ~conflict => \A r \in b.rows : r.key # k
      BY DEF Has
    <2>. QED BY <1>13, <2>1, <2>2
  <1>18. ASSUME NEW r \in c.rows
         PROVE  /\ r.status \in {"accepted", "quarantined"}
                /\ \E i \in DOMAIN new : /\ new[i].key = r.key
                                         /\ r.status = "accepted" => new[i].outcome = "accepted"
    <2>1. CASE r \in b.rows
      BY <2>1, <1>9, <1>11, <1>15
    <2>2. CASE ~conflict /\ r = row
      BY <2>2, <1>5, <1>9, <1>11, <1>13
    <2>. QED BY <2>1, <2>2, <1>13
  <1>19. ASSUME NEW i \in DOMAIN new, new[i].outcome = "accepted"
         PROVE  /\ \E r \in c.rows : r.key = new[i].key /\ r.status = "accepted"
                /\ \A j \in DOMAIN new : new[j] = new[i] => i = j
    <2>1. CASE i \in DOMAIN old /\ new[i] = old[i]
      <3>1. \E r \in b.rows : r.key = new[i].key /\ r.status = "accepted"
        BY <2>1, <1>14, <1>19
      <3>2. new[i] # a
        BY <1>5, <1>19, <3>1 DEF Has
      <3>. QED BY <2>1, <3>1, <3>2, <1>10, <1>14, <1>16, <1>19
    <2>2. CASE i = n + 1 /\ new[i] = a
      <3>1. ~conflict /\ status = "accepted"
        BY <1>5, <1>19, <2>2
      <3>2. row \in c.rows /\ row.key = new[i].key /\ row.status = "accepted"
        BY <3>1, <1>5, <1>13, <2>2
      <3>3. \A j \in DOMAIN old : old[j] # a
        <4>1. a.key = k /\ a.outcome = "accepted" /\ ~Has(b, k)
          BY <3>1, <1>5, <1>19, <2>2
        <4>. QED BY <4>1, <1>14 DEF Has
      <3>. QED BY <2>2, <3>2, <3>3, <1>10
    <2>. QED BY <2>1, <2>2, <1>10
  <1>20. RowsOK(c)
    <2>1. Answers(c.outcomes)
      BY <1>7, <1>9 DEF Answers
    <2>2. c.source \in Source /\ c.base \in [Outcome -> Nat] /\ c.stale \subseteq Outcome
      BY DEF RowsOK
    <2>. QED BY <1>7, <1>17, <1>18, <1>19, <2>1, <2>2 DEF RowsOK
  <1>21. \A r \in c.rows : r.key \in Key => inbox[r.key] = "none"
    BY <1>13 DEF Fresh
  <1>22. ASSUME NEW i \in DOMAIN new, new[i].key \in Key
         PROVE  Has(c, new[i].key) \/ inbox[new[i].key] # "none"
    <2>1. CASE i \in DOMAIN old /\ new[i] = old[i]
      BY <2>1, <1>6, <1>16, <1>22 DEF Fresh, Has
    <2>2. CASE new[i] = a
      BY <2>2, <1>5, <1>13, <1>16 DEF Has
    <2>. QED BY <2>1, <2>2, <1>10
  <1>. QED BY <1>7, <1>20, <1>21, <1>22 DEF Fresh

LEMMA IngestOneKept ==
  ASSUME Calls, FleetOK, IngestionOK, NEW p \in Process, IngestOne(p)
  PROVE  FleetOK' /\ IngestionOK' /\ Calls' /\ Spares(ingestOps \cup fleetOps)
  <1>1. PICK b : b = call[p]
    OBVIOUS
  <1>2. RowsOK(b) /\ Fresh(b) /\ CountsOK(b) /\ b.op = "ingest" /\ Ingesting(p)
    BY <1>1 DEF IngestionOK, BatchesOK, IngestOne, Ingesting
  <1>3. DOMAIN b = batchFields
    BY <1>2 DEF RowsOK
  <1>4. PICK e, k : e = Head(call[p].todo) /\ k = NaturalKey(e, call[p].source)
    OBVIOUS
  <1>5. ~Waits(p, k) /\ (StoreAccepted(p, k) \/ StoreQuarantine(p, k))
    BY <1>4 DEF IngestOne
  <1>6. PICK conflict \in BOOLEAN : conflict = (inbox[k] # "none" \/ Has(b, k))
    OBVIOUS
  <1>7. Conflict(p, k) <=> conflict
    BY <1>1, <1>6 DEF Conflict, Inserted, Has
  <1>8. \E status \in {"accepted", "quarantined"}, outcome \in Outcome :
          /\ Stored(p, k, status, outcome)
          /\ outcome = "accepted" => ~conflict /\ status = "accepted"
          /\ ~conflict /\ status = "accepted" => outcome = "accepted"
    <2>1. {"accepted", "duplicate", "quarantined"} \subseteq Outcome
      BY DEF Outcome
    <2>2. CASE StoreAccepted(p, k)
      BY <2>1, <2>2, <1>7 DEF StoreAccepted
    <2>3. CASE StoreQuarantine(p, k)
      BY <2>1, <2>3 DEF StoreQuarantine
    <2>. QED BY <1>5, <2>2, <2>3
  <1>9. PICK status \in {"accepted", "quarantined"}, outcome \in Outcome :
          /\ Stored(p, k, status, outcome)
          /\ outcome = "accepted" => ~conflict /\ status = "accepted"
          /\ ~conflict /\ status = "accepted" => outcome = "accepted"
    BY <1>8
  <1>10. PICK rows : rows = IF conflict THEN b.rows ELSE b.rows \cup {[key |-> k, status |-> status]}
    OBVIOUS
  <1>11. PICK outcomes : outcomes = Append(b.outcomes, [key |-> k, outcome |-> outcome])
    OBVIOUS
  <1>12. PICK c : c = [b EXCEPT !.todo = Tail(b.todo), !.rows = rows, !.outcomes = outcomes]
    OBVIOUS
  <1>13. /\ c.op = "ingest" /\ DOMAIN c = batchFields /\ c.source = b.source /\ c.base = b.base
         /\ c.rows = rows /\ c.outcomes = outcomes /\ c.stale = b.stale
    BY <1>2, <1>3, <1>12 DEF batchFields
  <1>14. call' = [call EXCEPT ![p] = c]
    <2>1. call' = [call EXCEPT ![p].todo = Tail(@),
                     ![p].rows = IF conflict THEN @ ELSE @ \cup {[key |-> k, status |-> status]},
                     ![p].outcomes = Append(@, [key |-> k, outcome |-> outcome])]
      BY <1>7, <1>9 DEF Stored
    <2>. QED BY <2>1, <1>1, <1>3, <1>10, <1>11, <1>12 DEF Calls, batchFields
  <1>15. /\ Calls' /\ Spares(ingestOps) /\ call'[p] = c
         /\ \A q \in Process : q # p => call'[q] = call[q]
    <2>1. call[p].op \in ingestOps \cup {"idle"} /\ c.op \in ingestOps \cup {"idle"}
      BY <1>1, <1>2, <1>13 DEF ingestOps
    <2>. QED BY <1>14, <2>1, Moved
  <1>16. RowsOK(c) /\ Fresh(c)
    BY <1>2, <1>6, <1>9, <1>10, <1>11, <1>13, AnswerAdded
  <1>17. CountsOK(c)
    BY <1>2, <1>13 DEF CountsOK
  <1>18. ASSUME NEW q \in Process, q # p, Ingesting(q), NEW x
         PROVE  ~(Has(c, x) /\ Has(call[q], x))
    <2>1. ~(Has(b, x) /\ Has(call[q], x))
      BY <1>1, <1>2, <1>18 DEF IngestionOK, BatchesOK, Apart
    <2>2. ~Has(call[q], k)
      BY <1>5, <1>18 DEF Waits, Inserted, Has
    <2>3. Has(c, x) => Has(b, x) \/ x = k
      BY <1>10, <1>13 DEF Has
    <2>. QED BY <2>1, <2>2, <2>3
  <1>. QED BY <1>15, <1>16, <1>17, <1>18, BatchStep DEF IngestOne

(* What the outcomes of a batch count up to.                                *)
Row(c, k, status) == \E r \in c.rows : r.key = k /\ r.status = status

Answered(c, k, o) == \E i \in DOMAIN c.outcomes : c.outcomes[i].key = k /\ c.outcomes[i].outcome = o

LEMMA AnswersAre ==
  ASSUME NEW s, Answers(s)
  PROVE  \E n \in Nat :
           /\ DOMAIN s = 1..n
           /\ \A i \in 1..n : s[i].outcome \in Outcome
           /\ \A i, j \in 1..n : s[i].key = s[j].key /\ s[i].outcome = s[j].outcome => s[i] = s[j]
  <1>1. PICK K : s \in Seq([key : K, outcome : Outcome])
    BY DEF Answers
  <1>2. PICK S : S = [key : K, outcome : Outcome]
    OBVIOUS
  <1>3. s \in Seq(S)
    BY <1>1, <1>2
  <1>4. PICK n \in Nat : n = Len(s)
    BY <1>3
  <1>5. DOMAIN s = 1..n /\ \A i \in 1..n : s[i] \in S
    BY <1>3, <1>4
  <1>6. \A x, y \in S : x.outcome \in Outcome /\ (x.key = y.key /\ x.outcome = y.outcome => x = y)
    BY <1>2
  <1>. QED BY <1>5, <1>6

LEMMA Counting ==
  ASSUME NEW p \in Process, RowsOK(call[p])
  PROVE  /\ \A keys, o : Outcomes(p, keys, o) \in Nat
         /\ \A k, o : Outcomes(p, {k}, o) > 0 <=> Answered(call[p], k, o)
         /\ \A k : Outcomes(p, {k}, "accepted") = IF Row(call[p], k, "accepted") THEN 1 ELSE 0
  <1>1. PICK c : c = call[p]
    OBVIOUS
  <1>2. RowsOK(c)
    BY <1>1
  <1>4. PICK s : s = c.outcomes
    OBVIOUS
  <1>3. Answers(s)
    BY <1>2, <1>4 DEF RowsOK
  <1>6. PICK n \in Nat :
          /\ DOMAIN s = 1..n
          /\ \A i, j \in 1..n : s[i].key = s[j].key /\ s[i].outcome = s[j].outcome => s[i] = s[j]
    BY <1>3, AnswersAre
  <1>7. IsFiniteSet(1..n)
    BY FS_Interval
  <1> DEFINE places(keys, o) == {i \in DOMAIN s : s[i].key \in keys /\ s[i].outcome = o}
  <1>8. ASSUME NEW keys, NEW o
        PROVE  /\ Outcomes(p, keys, o) = Cardinality(places(keys, o))
               /\ IsFiniteSet(places(keys, o)) /\ Cardinality(places(keys, o)) \in Nat
    <2>1. places(keys, o) \subseteq 1..n
      BY <1>6
    <2>2. IsFiniteSet(places(keys, o)) /\ Cardinality(places(keys, o)) \in Nat
      BY <2>1, <1>7, FS_Subset, FS_CardinalityType
    <2>. QED BY <2>2, <1>1, <1>4 DEF Outcomes
  <1>9. ASSUME NEW k, NEW o
        PROVE  places({k}, o) # {} <=> Answered(c, k, o)
    BY <1>4 DEF Answered
  <1>. HIDE DEF places
  <1>10. ASSUME NEW k, NEW o
         PROVE  Outcomes(p, {k}, o) > 0 <=> Answered(call[p], k, o)
    <2>1. PICK P : P = places({k}, o)
      OBVIOUS
    <2>2. IsFiniteSet(P) /\ Cardinality(P) \in Nat /\ Outcomes(p, {k}, o) = Cardinality(P)
      BY <1>8, <2>1
    <2>3. Cardinality(P) = 0 <=> P = {}
      BY <2>2, FS_EmptySet
    <2>4. P # {} <=> Answered(c, k, o)
      BY <1>9, <2>1
    <2>5. Outcomes(p, {k}, o) > 0 <=> Answered(c, k, o)
      BY <2>2, <2>3, <2>4
    <2>. QED BY <1>1, <2>5
  <1>11. ASSUME NEW k
         PROVE  Outcomes(p, {k}, "accepted") = IF Row(call[p], k, "accepted") THEN 1 ELSE 0
    <2>1. CASE Row(c, k, "accepted")
      <3>1. PICK i \in DOMAIN s : s[i].key = k /\ s[i].outcome = "accepted"
        BY <2>1, <1>2, <1>4 DEF Row, RowsOK
      <3>2. \A j \in DOMAIN s : s[j] = s[i] => i = j
        BY <1>2, <1>4, <3>1 DEF RowsOK
      <3>3. \A j \in DOMAIN s : s[j].key = k /\ s[j].outcome = "accepted" => s[j] = s[i]
        BY <1>6, <3>1
      <3>4. places({k}, "accepted") = {i}
        BY <3>1, <3>2, <3>3 DEF places
      <3>5. Outcomes(p, {k}, "accepted") = Cardinality(places({k}, "accepted"))
        BY <1>8
      <3>6. Cardinality({i}) = 1
        BY FS_Singleton
      <3>. QED BY <1>1, <2>1, <3>4, <3>5, <3>6
    <2>2. CASE ~Row(c, k, "accepted")
      <3>1. \A i \in DOMAIN s : s[i].outcome = "accepted" => Row(c, s[i].key, "accepted")
        BY <1>2, <1>4 DEF RowsOK, Row
      <3>2. places({k}, "accepted") = {}
        BY <2>2, <3>1 DEF places
      <3>. QED BY <1>1, <1>8, <2>2, <3>2, FS_EmptySet
    <2>. QED BY <2>1, <2>2
  <1>. QED BY <1>8, <1>10, <1>11

(* The events of a batch that commits: each has its row, its outbox event   *)
(* and its outcome.                                                         *)
LEMMA EventsCommitted ==
  ASSUME IngestionOK, NEW p \in Process, CommitBatch(p)
  PROVE  /\ inbox' \in [Key -> IngestRow] /\ published' \in [Key -> Nat]
         /\ answered' \in [Key -> [Outcome -> Nat]]
         /\ AcknowledgedOnce'
         /\ \A k \in Key : inbox'[k] # "none" <=> inbox[k] # "none" \/ Has(call[p], k)
  <1>1. PICK c : c = call[p]
    OBVIOUS
  <1>2. RowsOK(c) /\ Fresh(c)
    BY <1>1 DEF IngestionOK, BatchesOK, CommitBatch
  <1>3. /\ inbox \in [Key -> IngestRow] /\ published \in [Key -> Nat]
        /\ answered \in [Key -> [Outcome -> Nat]]
    BY DEF IngestionOK, BatchTypes
  <1> DEFINE of(k, o) == Outcomes(p, {k}, o)
  <1>4. /\ \A k, o : of(k, o) \in Nat
        /\ \A k, o : of(k, o) > 0 <=> Answered(c, k, o)
        /\ \A k : of(k, "accepted") = IF Row(c, k, "accepted") THEN 1 ELSE 0
    BY <1>1, <1>2, Counting
  <1>5. inbox' = [k \in Key |-> IF Has(c, k) THEN (CHOOSE r \in c.rows : r.key = k).status
                                ELSE inbox[k]]
    BY <1>1 DEF CommitBatch, Inserted, Has
  <1>6. /\ published' = [k \in Key |-> published[k] + of(k, "accepted")]
        /\ answered' = [k \in Key |-> [o \in Outcome |-> answered[k][o] + of(k, o)]]
    BY DEF CommitBatch
  <1>. HIDE DEF of
  <1>7. ASSUME NEW k \in Key
        PROVE  /\ inbox'[k] \in IngestRow
               /\ inbox'[k] # "none" <=> inbox[k] # "none" \/ Has(c, k)
               /\ inbox'[k] = "accepted" <=> inbox[k] = "accepted" \/ Row(c, k, "accepted")
               /\ Row(c, k, "accepted") => inbox[k] = "none"
    <2>1. CASE Has(c, k)
      <3>1. PICK r : r = CHOOSE x \in c.rows : x.key = k
        OBVIOUS
      <3>2. r \in c.rows /\ r.key = k /\ inbox'[k] = r.status
        BY <1>5, <2>1, <3>1 DEF Has
      <3>3. \A x \in c.rows : x.key = k => x = r
        BY <1>2, <3>2 DEF RowsOK
      <3>4. r.status \in {"accepted", "quarantined"} /\ inbox[k] = "none"
        BY <1>2, <3>2 DEF RowsOK, Fresh
      <3>5. Row(c, k, "accepted") <=> r.status = "accepted"
        BY <3>2, <3>3 DEF Row
      <3>. QED BY <2>1, <3>2, <3>4, <3>5 DEF IngestRow
    <2>2. CASE ~Has(c, k)
      <3>1. ~Row(c, k, "accepted") /\ inbox'[k] = inbox[k]
        BY <1>5, <2>2 DEF Row, Has
      <3>. QED BY <1>3, <2>2, <3>1
    <2>. QED BY <2>1, <2>2
  <1>8. inbox' \in [Key -> IngestRow]
    BY <1>5, <1>7
  <1>9. published' \in [Key -> Nat] /\ answered' \in [Key -> [Outcome -> Nat]]
    BY <1>3, <1>4, <1>6
  <1>10. ASSUME NEW k \in Key
         PROVE  /\ published'[k] = IF inbox'[k] = "accepted" THEN 1 ELSE 0
                /\ answered'[k]["accepted"] = published'[k]
    <2>1. /\ published[k] = IF inbox[k] = "accepted" THEN 1 ELSE 0
          /\ answered[k]["accepted"] = published[k]
      BY DEF IngestionOK, AcknowledgedOnce
    <2>2. /\ published'[k] = published[k] + of(k, "accepted")
          /\ answered'[k]["accepted"] = answered[k]["accepted"] + of(k, "accepted")
      BY <1>6 DEF Outcome
    <2>. QED BY <2>1, <2>2, <1>4, <1>7
  <1>11. ASSUME NEW k \in Key
         PROVE  (\E o \in Outcome : answered'[k][o] > 0) <=> inbox'[k] # "none"
    <2>1. (\E o \in Outcome : answered[k][o] > 0) <=> inbox[k] # "none"
      BY DEF IngestionOK, AcknowledgedOnce
    <2>2. \A o \in Outcome : answered'[k][o] > 0 <=> answered[k][o] > 0 \/ Answered(c, k, o)
      <3> SUFFICES ASSUME NEW o \in Outcome
                   PROVE  answered'[k][o] > 0 <=> answered[k][o] > 0 \/ Answered(c, k, o)
        OBVIOUS
      <3>1. PICK a, b \in Nat : a = answered[k][o] /\ b = of(k, o)
        BY <1>3, <1>4
      <3>2. answered'[k][o] = a + b
        BY <1>6, <3>1
      <3>. QED BY <3>1, <3>2, <1>4
    <2>3. (\E o \in Outcome : Answered(c, k, o)) => inbox[k] # "none" \/ Has(c, k)
      BY <1>2 DEF Answered, Fresh
    <2>4. Has(c, k) => \E o \in Outcome : Answered(c, k, o)
      <3> SUFFICES ASSUME Has(c, k)
                   PROVE  \E o \in Outcome : Answered(c, k, o)
        OBVIOUS
      <3>1. PICK i \in DOMAIN c.outcomes : c.outcomes[i].key = k
        BY <1>2 DEF RowsOK, Has
      <3>2. Answers(c.outcomes)
        BY <1>2 DEF RowsOK
      <3>3. c.outcomes[i].outcome \in Outcome
        BY <3>1, <3>2, AnswersAre
      <3>. QED BY <3>1, <3>3 DEF Answered
    <2>. QED BY <2>1, <2>2, <2>3, <2>4, <1>7
  <1>12. AcknowledgedOnce'
    BY <1>10, <1>11 DEF AcknowledgedOnce
  <1>. QED BY <1>1, <1>7, <1>8, <1>9, <1>12

(* The counters of its data source.                                         *)
LEMMA CountersCommitted ==
  ASSUME IngestionOK, NEW p \in Process, CommitBatch(p), NEW ds, ds = call[p].source
  PROVE  /\ source' \in [Source -> DataSource] /\ total' \in [Source -> [Outcome -> Nat]]
         /\ overtaken' \subseteq Source \X Outcome
         /\ CountersAddUp'
         /\ \A x \in Source, o \in Outcome : total[x][o] <= total'[x][o]
         /\ \A x \in Source : x # ds => source'[x] = source[x]
         /\ \A o \in Outcome : o \notin Changed(p) => source'[ds].count[o] = source[ds].count[o]
  <1>1. PICK c : c = call[p]
    OBVIOUS
  <1>2. RowsOK(c) /\ CountsOK(c)
    BY <1>1 DEF IngestionOK, BatchesOK, CommitBatch
  <1>3. /\ source \in [Source -> DataSource] /\ total \in [Source -> [Outcome -> Nat]]
        /\ overtaken \subseteq Source \X Outcome
    BY DEF IngestionOK, BatchTypes
  <1>4. /\ ds \in Source /\ c.source = ds /\ c.base \in [Outcome -> Nat] /\ c.stale \subseteq Outcome
    BY <1>1, <1>2 DEF RowsOK
  <1>5. PICK n : n = Counted(p)
    OBVIOUS
  <1>6. n \in [Outcome -> Nat] /\ Changed(p) = {o \in Outcome : n[o] # 0}
    BY <1>1, <1>2, <1>5, Counting DEF Counted, Changed
  <1>7. PICK w : w = Written(p)
    OBVIOUS
  <1>8. \A o \in Outcome : w[o] = IF n[o] = 0 THEN source[ds].count[o] ELSE c.base[o] + n[o]
    BY <1>1, <1>4, <1>5, <1>7 DEF Written
  <1>9. source[ds].count \in [Outcome -> Nat]
    BY <1>3, <1>4 DEF DataSource
  <1>10. w \in [Outcome -> Nat]
    BY <1>4, <1>6, <1>7, <1>8, <1>9 DEF Written
  <1>11. /\ source' = [source EXCEPT ![ds].count = w]
         /\ total' = [total EXCEPT ![ds] = [o \in Outcome |-> @[o] + n[o]]]
         /\ overtaken' = overtaken \cup ({ds} \X (c.stale \cap Changed(p)))
    BY <1>1, <1>4, <1>5, <1>7 DEF CommitBatch
  <1>12. /\ source' \in [Source -> DataSource]
         /\ source'[ds].count = w /\ \A x \in Source : x # ds => source'[x] = source[x]
    <2>1. PICK d : d = [source[ds] EXCEPT !.count = w]
      OBVIOUS
    <2>2. d \in DataSource /\ d.count = w
      BY <2>1, <1>3, <1>4, <1>10 DEF DataSource
    <2>3. source' = [source EXCEPT ![ds] = d]
      BY <2>1, <1>11
    <2>. QED BY <2>2, <2>3, <1>3, <1>4
  <1>13. /\ total' \in [Source -> [Outcome -> Nat]]
         /\ \A o \in Outcome : total'[ds][o] = total[ds][o] + n[o]
         /\ \A x \in Source : x # ds => total'[x] = total[x]
    BY <1>3, <1>4, <1>6, <1>11
  <1>14. overtaken' \subseteq Source \X Outcome
    BY <1>3, <1>4, <1>6, <1>11
  <1>15. ASSUME NEW x \in Source, NEW o \in Outcome
         PROVE  /\ source'[x].count[o] <= total'[x][o]
                /\ <<x, o>> \notin overtaken' => source'[x].count[o] = total'[x][o]
                /\ total[x][o] <= total'[x][o]
    <2>1. /\ source[x].count[o] <= total[x][o]
          /\ <<x, o>> \notin overtaken => source[x].count[o] = total[x][o]
      BY DEF IngestionOK, CountersAddUp
    <2>2. CASE x # ds
      <3>1. source'[x] = source[x] /\ total'[x] = total[x] /\ total[x][o] \in Nat
        BY <1>3, <1>12, <1>13, <2>2
      <3>2. <<x, o>> \notin overtaken' => <<x, o>> \notin overtaken
        BY <1>11
      <3>3. total[x][o] <= total'[x][o]
        BY <3>1
      <3>4. source'[x].count[o] <= total'[x][o]
        BY <2>1, <3>1
      <3>5. <<x, o>> \notin overtaken' => source'[x].count[o] = total'[x][o]
        BY <2>1, <3>1, <3>2
      <3>. QED BY <3>3, <3>4, <3>5
    <2>3. CASE x = ds
      <3>1. PICK a, b, m, t \in Nat : a = source[ds].count[o] /\ b = c.base[o] /\ m = n[o] /\ t = total[ds][o]
        BY <1>3, <1>4, <1>6, <1>9
      <3>2. source'[ds].count[o] = (IF m = 0 THEN a ELSE b + m) /\ total'[ds][o] = t + m
        BY <1>8, <1>12, <1>13, <3>1
      <3>3. b <= t /\ (o \notin c.stale => b = a) /\ a <= t
        BY <1>2, <1>4, <2>1, <2>3, <3>1 DEF CountsOK
      <3>4. <<ds, o>> \notin overtaken' => (m = 0 \/ o \notin c.stale) /\ a = t
        BY <1>4, <1>6, <1>11, <2>1, <2>3, <3>1
      <3>. QED BY <2>3, <3>1, <3>2, <3>3, <3>4
    <2>. QED BY <2>2, <2>3
  <1>16. CountersAddUp'
    <2>1. /\ \A x \in Source, o \in Outcome : source'[x].count[o] <= total'[x][o]
          /\ \A x \in Source, o \in Outcome :
               <<x, o>> \notin overtaken' => source'[x].count[o] = total'[x][o]
      BY <1>15
    <2>. QED BY ONLY <2>1 DEF CountersAddUp
  <1>17. \A o \in Outcome : o \notin Changed(p) => source'[ds].count[o] = source[ds].count[o]
    BY <1>6, <1>8, <1>12
  <1>. QED BY <1>12, <1>13, <1>14, <1>15, <1>16, <1>17

(* What the others have read: they learn which counters are stale.          *)
LEMMA OthersLearn ==
  ASSUME IngestionOK, NEW p \in Process, CommitBatch(p), NEW q \in Process, q # p, Ingesting(q)
  PROVE  /\ RowsOK(call[q])' /\ Fresh(call[q])' /\ CountsOK(call[q])'
         /\ call'[q].rows = call[q].rows
  <1>1. PICK b : b = call[q]
    OBVIOUS
  <1>2. PICK s : s = call[p].source
    OBVIOUS
  <1>3. RowsOK(b) /\ Fresh(b) /\ CountsOK(b) /\ b.op = "ingest"
    BY <1>1 DEF IngestionOK, BatchesOK, Ingesting
  <1>4. DOMAIN b = batchFields /\ b.source \in Source /\ b.base \in [Outcome -> Nat]
        /\ b.stale \subseteq Outcome
    BY <1>3 DEF RowsOK
  <1>5. PICK c : c = IF b.source = s THEN [b EXCEPT !.stale = @ \cup Changed(p)] ELSE b
    OBVIOUS
  <1>6. call'[q] = c
    BY <1>1, <1>2, <1>5 DEF CommitBatch
  <1>7. /\ DOMAIN c = batchFields /\ c.source = b.source /\ c.base = b.base /\ c.rows = b.rows
        /\ c.outcomes = b.outcomes /\ b.stale \subseteq c.stale /\ c.stale \subseteq Outcome
        /\ b.source = s => Changed(p) \subseteq c.stale
    <2>1. Changed(p) \subseteq Outcome
      BY DEF Changed
    <2>. QED BY <2>1, <1>4, <1>5 DEF batchFields
  <1>8. RowsOK(c)
    BY <1>3, <1>7 DEF RowsOK
  <1>9. Fresh(c)'
    <2>1. \A k \in Key : inbox'[k] # "none" <=> inbox[k] # "none" \/ Has(call[p], k)
      BY EventsCommitted
    <2>2. \A k : Has(b, k) => ~Has(call[p], k)
      BY <1>1 DEF IngestionOK, BatchesOK, Apart, CommitBatch
    <2>3. \A r \in c.rows : r.key \in Key => inbox'[r.key] = "none"
      BY <1>3, <1>7, <2>1, <2>2 DEF Fresh, Has
    <2>4. \A k : Has(c, k) <=> Has(b, k)
      BY <1>7 DEF Has
    <2>5. \A i \in DOMAIN c.outcomes :
            c.outcomes[i].key \in Key =>
              Has(c, c.outcomes[i].key) \/ inbox'[c.outcomes[i].key] # "none"
      BY <1>3, <1>7, <2>1, <2>4 DEF Fresh
    <2>. QED BY <2>3, <2>5 DEF Fresh, Has
  <1>10. CountsOK(c)'
    <2>1. /\ \A x \in Source, o \in Outcome : total[x][o] <= total'[x][o]
          /\ \A x \in Source : x # s => source'[x] = source[x]
          /\ \A o \in Outcome : o \notin Changed(p) => source'[s].count[o] = source[s].count[o]
          /\ total \in [Source -> [Outcome -> Nat]] /\ total' \in [Source -> [Outcome -> Nat]]
      BY <1>2, CountersCommitted DEF IngestionOK, BatchTypes
    <2>2. ASSUME NEW o \in Outcome
          PROVE  /\ c.base[o] <= total'[c.source][o]
                 /\ o \notin c.stale => c.base[o] = source'[c.source].count[o]
      <3>1. PICK m, t, u \in Nat : m = c.base[o] /\ t = total[c.source][o] /\ u = total'[c.source][o]
        BY <1>4, <1>7, <2>1
      <3>2. m <= t /\ t <= u /\ (o \notin b.stale => m = source[c.source].count[o])
        BY <1>3, <1>4, <1>7, <2>1, <3>1 DEF CountsOK
      <3>3. o \notin c.stale => source'[c.source].count[o] = source[c.source].count[o]
        BY <1>4, <1>7, <2>1
      <3>. QED BY <1>7, <3>1, <3>2, <3>3
    <2>. QED BY <2>2 DEF CountsOK
  <1>11. RowsOK(call[q])' /\ Fresh(call[q])' /\ CountsOK(call[q])'
    BY <1>6, <1>8, <1>9, <1>10, Becomes
  <1>. QED BY <1>1, <1>6, <1>7, <1>11

LEMMA CommitBatchKept ==
  ASSUME Calls, FleetOK, IngestionOK, NEW p \in Process, CommitBatch(p)
  PROVE  FleetOK' /\ IngestionOK' /\ Calls' /\ Spares(ingestOps \cup fleetOps)
  <1>1. PICK s : s = call[p].source
    OBVIOUS
  <1>2. call' = [q \in Process |->
                   IF q = p THEN Idle
                   ELSE IF Ingesting(q) /\ call[q].source = s
                     THEN [call[q] EXCEPT !.stale = @ \cup Changed(p)]
                     ELSE call[q]]
    BY <1>1 DEF CommitBatch
  <1>3. /\ call'[p].op = "idle" /\ Ingesting(p)
        /\ \A q \in Process : q # p /\ ~Ingesting(q) => call'[q] = call[q]
    BY <1>2 DEF CommitBatch, Idle
  <1>4. ASSUME NEW q \in Process, q # p, Ingesting(q)
        PROVE  call'[q].op = "ingest"
    <2>1. DOMAIN call[q] = batchFields
      BY <1>4 DEF IngestionOK, BatchesOK, RowsOK
    <2>. QED BY <1>2, <1>4, <2>1 DEF batchFields, Ingesting
  <1>5. Calls' /\ Spares(ingestOps) /\ Spares(ingestOps \cup fleetOps)
    BY <1>2, <1>3, <1>4 DEF Calls, Spares, Ingesting, ingestOps
  <1>6. FleetOK'
    BY <1>5, FleetFrame DEF CommitBatch, fleetVars, ingestOps, fleetOps
  <1>7. ASSUME NEW q \in Process, Ingesting(q)'
        PROVE  q # p /\ Ingesting(q)
    BY <1>3, <1>7 DEF Ingesting
  <1>8. BatchesOK'
    <2>1. ASSUME NEW q \in Process, Ingesting(q)'
          PROVE  /\ RowsOK(call[q])' /\ Fresh(call[q])' /\ CountsOK(call[q])'
                 /\ call'[q].rows = call[q].rows
      BY <1>7, <2>1, OthersLearn
    <2>2. Apart'
      BY <1>7, <2>1 DEF IngestionOK, BatchesOK, Apart, Has
    <2>. QED BY <2>1, <2>2 DEF BatchesOK
  <1>9. BatchTypes' /\ AcknowledgedOnce' /\ CountersAddUp'
    <2>1. UNCHANGED <<client, token>> /\ client \subseteq Client /\ token \in [Token -> TokenRow]
      BY DEF CommitBatch, clientVars, IngestionOK, BatchTypes
    <2>. QED BY <2>1, EventsCommitted, CountersCommitted DEF BatchTypes
  <1>. QED BY <1>5, <1>6, <1>8, <1>9 DEF IngestionOK

LEMMA AbortKept ==
  ASSUME Calls, FleetOK, IngestionOK, NEW p \in Process, Abort(p)
  PROVE  FleetOK' /\ IngestionOK' /\ Calls' /\ Spares(ingestOps \cup fleetOps)
  <1>1. PICK c : c = Idle
    OBVIOUS
  <1>2. call' = [call EXCEPT ![p] = c] /\ c.op = "idle"
    BY <1>1 DEF Abort, Return, Continue, Idle
  <1>3. call[p].op \in ingestOps \cup fleetOps \cup {"idle"} /\ c.op \in ingestOps \cup fleetOps \cup {"idle"}
    BY <1>2 DEF Abort, ingestOps, fleetOps
  <1>4. /\ Calls' /\ Spares(ingestOps \cup fleetOps) /\ call'[p] = c
        /\ \A q \in Process : q # p => call'[q] = call[q]
    BY <1>2, <1>3, Moved
  <1>5. UNCHANGED <<client, token, source, inbox, published, answered, total, overtaken>>
    BY DEF Abort, clientVars, batchVars
  <1>6. BatchTypes' /\ AcknowledgedOnce' /\ CountersAddUp'
    BY <1>5 DEF IngestionOK, BatchTypes, AcknowledgedOnce, CountersAddUp
  <1>7. BatchesOK'
    BY <1>2, <1>4, <1>5, OneBatchMoves DEF IngestionOK
  <1>8. UNCHANGED <<registryVars, limit, lowered>> /\ FleetTypeOK'
    BY DEF Abort, planVars, registryVars, FleetOK, FleetTypeOK
  <1>9. Registered' \subseteq Registered /\ Creating' \subseteq Creating
    BY <1>2, <1>4, <1>8 DEF registryVars, Registered, Creating
  <1>10. \A q \in Process : FleetCall(call'[q])
    BY <1>2, <1>4 DEF FleetOK, FleetCall
  <1>11. FleetOK'
    BY <1>8, <1>9, <1>10, OverrunKept DEF FleetOK, FleetCall
  <1>. QED BY <1>4, <1>6, <1>7, <1>11 DEF IngestionOK

LEMMA IngestionKept ==
  ASSUME Calls, FleetOK, IngestionOK, IngestionStep
  PROVE  FleetOK' /\ IngestionOK' /\ Calls' /\ Spares(ingestOps \cup fleetOps)
  <1>1. ASSUME FleetStep, UNCHANGED <<clientVars, batchVars>>
        PROVE  FleetOK' /\ IngestionOK' /\ Calls' /\ Spares(ingestOps \cup fleetOps)
    <2>1. FleetOK' /\ Calls' /\ Spares(fleetOps)
      BY <1>1, FleetKept
    <2>2. IngestionOK'
      BY <1>1, <2>1, IngestionFrame DEF fleetOps
    <2>. QED BY <2>1, <2>2 DEF Spares
  <1>2. ASSUME NEW p \in Process, NEW s \in Source, NEW file \in Files, IngestCsv(p, s, file)
        PROVE  FleetOK' /\ IngestionOK' /\ Calls' /\ Spares(ingestOps \cup fleetOps)
    BY <1>2, IngestEventsKept DEF IngestCsv
  <1>3. CASE IngestStep
    BY <1>2, <1>3, ClientKept, CreateDataSourceKept, IngestEventsKept, KnownVehiclesKept,
       IngestOneKept, CommitBatchKept, AbortKept DEF IngestStep
  <1>. QED BY <1>1, <1>3 DEF IngestionStep

-----------------------------------------------------------------------------
(* The scheduler.  No purge reaches the two days that snapshots are taken   *)
(* of, so what is recorded of them is no more than the points there are, up *)
(* to erasures.  A tick that has its session and began beside no other is   *)
(* the only one (Locked): what it has counted is then no less than what is  *)
(* recorded, and no more than the points, whatever day it is when it        *)
(* writes.                                                                  *)
tickOps == {"tick"}

TickCall ==
  [op : {"tick"}, step : {"partitions", "purge", "read", "write", "commit"},
   alive : BOOLEAN, made : SUBSET Int, now : Day, target : Day, todo : SUBSET Org,
   org : SUBSET Org, read : Nat, beside : BOOLEAN]

TickOK(c) == /\ c \in TickCall
             /\ 1 <= c.now /\ c.now <= day
             /\ c.step \in {"read", "write"} => c.target >= c.now - 1

Honest(c) ==
  c.step = "write" =>
    \A o \in c.org : c.target >= day - 1 /\ <<o, c.target>> \notin erased =>
      c.read <= telemetry[o][c.target]

Alone(c) == c.alive /\ ~c.beside

Ahead(c) ==
  Alone(c) /\ c.step # "partitions" =>
    /\ \A o \in Org, d \in Day :
         d >= c.now - 1 /\ <<o, d>> \notin erased => usage[o][d] <= telemetry[o][d]
    /\ c.step = "write" =>
         \A o \in c.org : <<o, c.target>> \notin erased =>
           usage[o][c.target] <= c.read /\ c.read <= telemetry[o][c.target]

Recorded ==
  \A o \in Org, d \in Day :
    d >= day - 1 /\ <<o, d>> \notin erased => usage[o][d] <= telemetry[o][d]

Locked == \A p, q \in Process : Ticking(p) /\ Alone(call[p]) /\ Ticking(q) => q = p

TicksOK == /\ Locked
           /\ \A p \in Process : Ticking(p) => TickOK(call[p]) /\ Honest(call[p]) /\ Ahead(call[p])

SchedulerOK == SchedulerTypeOK /\ day >= 1 /\ Recorded /\ TicksOK

LEMMA Days == /\ Day \subseteq Nat /\ 0 \in Day /\ MaxDay \in Nat /\ MaxDay >= 1
              /\ \A d \in Nat : d \in Day <=> d <= MaxDay
  BY SchedulerAssumption DEF Day

LEMMA SchedulerStarts ==
  ASSUME RequestsInit, SchedulerInit
  PROVE  SchedulerOK
  <1>1. \A p \in Process : ~Ticking(p)
    BY DEF RequestsInit, Idle, Ticking
  <1>2. telemetry \in [Org -> [Day -> Nat]] /\ usage \in [Org -> [Day -> UsageRecord]]
    BY DEF SchedulerInit, UsageRecord
  <1>3. SchedulerTypeOK
    BY <1>2, Days DEF SchedulerInit, SchedulerTypeOK, FirstPartitions
  <1>4. Recorded
    BY DEF SchedulerInit, Recorded
  <1>. QED BY <1>1, <1>3, <1>4 DEF SchedulerOK, TicksOK, Locked, SchedulerInit

(* The tables of the scheduler are as they were.                            *)
LEMMA TablesSame ==
  ASSUME UNCHANGED <<day, telemetry, usage, erased>>, NEW c
  PROVE  (TickOK(c) => TickOK(c)') /\ (Honest(c) => Honest(c)') /\ (Ahead(c) => Ahead(c)')
  <1>1. TickOK(c) => TickOK(c)'
    BY DEF TickOK
  <1>2. Honest(c) => Honest(c)'
    BY DEF Honest
  <1>3. Ahead(c) => Ahead(c)'
    BY DEF Ahead
  <1>. QED BY <1>1, <1>2, <1>3

LEMMA TickBecomes ==
  ASSUME NEW p \in Process, NEW c, call'[p] = c, TickOK(c)', Honest(c)', Ahead(c)'
  PROVE  TickOK(call[p])' /\ Honest(call[p])' /\ Ahead(call[p])'
  <1>1. TickOK(call[p])'
    BY DEF TickOK
  <1>2. Honest(call[p])'
    BY DEF Honest
  <1>3. Ahead(call[p])'
    BY DEF Ahead
  <1>. QED BY <1>1, <1>2, <1>3

LEMMA SchedulerFrame ==
  ASSUME SchedulerOK, NEW own, Spares(own), "tick" \notin own, UNCHANGED schedulerVars
  PROVE  SchedulerOK'
  <1>1. UNCHANGED <<day, partition, due, telemetry, retention, usage, erased>>
    BY DEF schedulerVars
  <1>2. SchedulerTypeOK' /\ (day >= 1)' /\ Recorded'
    BY <1>1 DEF SchedulerOK, SchedulerTypeOK, Recorded
  <1>3. \A q \in Process : call'[q] = call[q] \/ (call[q].op # "tick" /\ call'[q].op # "tick")
    BY DEF Spares
  <1>4. \A q \in Process : Ticking(q)' => Ticking(q) /\ call'[q] = call[q]
    BY <1>3 DEF Ticking
  <1>5. Locked'
    BY <1>4 DEF SchedulerOK, TicksOK, Locked, Alone
  <1>6. ASSUME NEW p \in Process, Ticking(p)'
        PROVE  TickOK(call[p])' /\ Honest(call[p])' /\ Ahead(call[p])'
    <2>1. PICK c : c = call[p]
      OBVIOUS
    <2>2. TickOK(c) /\ Honest(c) /\ Ahead(c) /\ call'[p] = c
      BY <1>4, <1>6, <2>1 DEF SchedulerOK, TicksOK
    <2>. QED BY <1>1, <2>2, TablesSame, TickBecomes
  <1>. QED BY <1>2, <1>5, <1>6 DEF SchedulerOK, TicksOK

(* One tick moves.  If it was under way no other can be alone, and if it    *)
(* was not it writes nothing.                                               *)
LEMMA OneTickMoves ==
  ASSUME TicksOK, NEW p \in Process, NEW c, call'[p] = c,
         \A q \in Process : q # p => call'[q] = call[q],
         UNCHANGED <<day, erased>>,
         Ticking(p) \/ UNCHANGED <<telemetry, usage>>,
         \A o \in Org, d \in Day : /\ telemetry[o][d] \in Nat /\ telemetry'[o][d] \in Nat
                                   /\ d >= day - 1 => telemetry[o][d] <= telemetry'[o][d],
         c.op = "tick" => /\ TickOK(c)' /\ Honest(c)' /\ Ahead(c)'
                          /\ \A q \in Process : q # p /\ Ticking(q) =>
                               ~Alone(c) /\ ~Alone(call[q])
  PROVE  TicksOK'
  <1>1. \A q \in Process : q # p /\ Ticking(q)' => Ticking(q)
    BY DEF Ticking
  <1>2. Locked'
    BY <1>1 DEF TicksOK, Locked, Ticking, Alone
  <1>3. ASSUME NEW q \in Process, Ticking(q)'
        PROVE  TickOK(call[q])' /\ Honest(call[q])' /\ Ahead(call[q])'
    <2>1. CASE q = p
      <3>1. c.op = "tick"
        BY <1>3, <2>1 DEF Ticking
      <3>. QED BY <2>1, <3>1, TickBecomes
    <2>2. CASE q # p
      <3>1. PICK b : b = call[q]
        OBVIOUS
      <3>2. TickOK(b) /\ Honest(b) /\ Ahead(b) /\ call'[q] = b /\ Ticking(q)
        BY <1>1, <1>3, <2>2, <3>1 DEF TicksOK
      <3>3. TickOK(b)'
        BY <3>2 DEF TickOK
      <3>4. Honest(b)'
        <4> SUFFICES ASSUME b.step = "write", NEW o \in b.org, b.target >= day - 1,
                            <<o, b.target>> \notin erased
                     PROVE  b.read <= telemetry'[o][b.target]
          BY DEF Honest
        <4>1. o \in Org /\ b.target \in Day /\ b.read \in Nat
          BY <3>2 DEF TickOK, TickCall
        <4>2. b.read <= telemetry[o][b.target] /\ telemetry[o][b.target] <= telemetry'[o][b.target]
          BY <3>2, <4>1 DEF Honest
        <4>. QED BY <4>1, <4>2
      <3>5. Ahead(b)'
        <4>1. CASE Ticking(p)
          <5>1. ~Alone(b)
            BY <2>2, <3>1, <3>2, <4>1 DEF TicksOK, Locked
          <5>. QED BY <5>1 DEF Ahead, Alone
        <4>2. CASE UNCHANGED <<telemetry, usage>>
          BY <3>2, <4>2 DEF Ahead
        <4>. QED BY <4>1, <4>2
      <3>. QED BY <3>2, <3>3, <3>4, <3>5, TickBecomes
    <2>. QED BY <2>1, <2>2
  <1>. QED BY <1>2, <1>3 DEF TicksOK

LEMMA NotEarlier ==
  ASSUME NEW a \in Nat, NEW b \in Nat, NEW c \in Nat, b >= a, c >= b - 1
  PROVE  c >= a - 1
  OBVIOUS

(* No tick moves: time passes, points come or are erased.                   *)
LEMMA PointsMove ==
  ASSUME Calls, SchedulerOK, UNCHANGED <<call, usage>>,
         day' \in Day, day' >= day, erased \subseteq erased', erased' \subseteq Org \X Day,
         telemetry' \in [Org -> [Day -> Nat]],
         \A o \in Org, d \in Day :
           <<o, d>> \notin erased' => telemetry[o][d] <= telemetry'[o][d],
         partition' \subseteq Int, due' \subseteq Process, retention' \in [Org -> Nat]
  PROVE  SchedulerOK' /\ Calls' /\ Spares(tickOps)
  <1>1. SchedulerTypeOK
    BY DEF SchedulerOK
  <1>2. SchedulerTypeOK'
    BY <1>1 DEF SchedulerTypeOK
  <1>3. day \in Nat /\ day' \in Nat /\ day >= 1 /\ day' >= day
    BY <1>1, Days DEF SchedulerOK, SchedulerTypeOK
  <1>4. ASSUME NEW o \in Org, NEW d \in Day, <<o, d>> \notin erased'
        PROVE  /\ <<o, d>> \notin erased /\ telemetry[o][d] <= telemetry'[o][d]
               /\ telemetry[o][d] \in Nat /\ telemetry'[o][d] \in Nat
               /\ usage'[o][d] = usage[o][d] /\ usage[o][d] \in Int /\ d \in Nat
    BY <1>1, <1>4, Days DEF SchedulerTypeOK, UsageRecord
  <1>5. Recorded'
    <2> SUFFICES ASSUME NEW o \in Org, NEW d \in Day, d >= day' - 1, <<o, d>> \notin erased'
                 PROVE  usage'[o][d] <= telemetry'[o][d]
      BY DEF Recorded
    <2>1. d >= day - 1
      <3>1. d \in Nat
        BY Days
      <3>. QED BY <1>3, <3>1, NotEarlier
    <2>2. usage[o][d] <= telemetry[o][d]
      BY <1>4, <2>1 DEF SchedulerOK, Recorded
    <2>. QED BY <1>4, <2>2
  <1>6. Locked'
    BY DEF SchedulerOK, TicksOK, Locked, Ticking, Alone
  <1>7. ASSUME NEW p \in Process, Ticking(p)'
        PROVE  TickOK(call[p])' /\ Honest(call[p])' /\ Ahead(call[p])'
    <2>1. PICK c : c = call[p]
      OBVIOUS
    <2>2. TickOK(c) /\ Honest(c) /\ Ahead(c) /\ call'[p] = c
      BY <1>7, <2>1 DEF SchedulerOK, TicksOK, Ticking
    <2>3. c \in TickCall /\ c.now \in Nat /\ c.target \in Day /\ c.target \in Nat /\ c.org \subseteq Org
          /\ c.read \in Nat
      BY <2>2, Days DEF TickOK, TickCall
    <2>4. TickOK(c)'
      BY <1>3, <2>2, <2>3 DEF TickOK
    <2>5. Honest(c)'
      <3> SUFFICES ASSUME c.step = "write", NEW o \in c.org, c.target >= day' - 1,
                          <<o, c.target>> \notin erased'
                   PROVE  c.read <= telemetry'[o][c.target]
        BY DEF Honest
      <3>1. c.target >= day - 1 /\ o \in Org
        BY <1>3, <2>3
      <3>2. c.read <= telemetry[o][c.target]
        BY <1>4, <2>2, <2>3, <3>1 DEF Honest
      <3>3. /\ telemetry[o][c.target] <= telemetry'[o][c.target]
            /\ telemetry[o][c.target] \in Nat /\ telemetry'[o][c.target] \in Nat
        BY <1>4, <2>3, <3>1
      <3>. QED BY <2>3, <3>2, <3>3
    <2>6. Ahead(c)'
      <3> SUFFICES ASSUME Alone(c), c.step # "partitions"
                   PROVE  /\ \A o \in Org, d \in Day :
                               d >= c.now - 1 /\ <<o, d>> \notin erased' =>
                                 usage'[o][d] <= telemetry'[o][d]
                          /\ c.step = "write" =>
                               \A o \in c.org : <<o, c.target>> \notin erased' =>
                                 /\ usage'[o][c.target] <= c.read
                                 /\ c.read <= telemetry'[o][c.target]
        BY DEF Ahead, Alone
      <3>1. ASSUME NEW o \in Org, NEW d \in Day, d >= c.now - 1, <<o, d>> \notin erased'
            PROVE  usage'[o][d] <= telemetry'[o][d]
        <4>1. usage[o][d] <= telemetry[o][d]
          BY <1>4, <2>2, <3>1 DEF Ahead
        <4>. QED BY <1>4, <3>1, <4>1
      <3>2. ASSUME c.step = "write", NEW o \in c.org, <<o, c.target>> \notin erased'
            PROVE  usage'[o][c.target] <= c.read /\ c.read <= telemetry'[o][c.target]
        <4>1. o \in Org
          BY <2>3
        <4>2. PICK d \in Day : d = c.target
          BY <2>3
        <4>3. usage[o][d] <= c.read /\ c.read <= telemetry[o][d]
          BY <1>4, <2>2, <3>2, <4>1, <4>2 DEF Ahead
        <4>. QED BY <1>4, <2>3, <3>2, <4>1, <4>2, <4>3
      <3>. QED BY <3>1, <3>2
    <2>. QED BY <2>2, <2>4, <2>5, <2>6, TickBecomes
  <1>8. Calls' /\ Spares(tickOps)
    BY NoneMoved
  <1>. QED BY <1>2, <1>3, <1>5, <1>6, <1>7, <1>8 DEF SchedulerOK, TicksOK

LEMMA PointStepsKept ==
  ASSUME Calls, SchedulerOK,
         \/ \E p \in Process : HourPasses(p)
         \/ \E o \in Org, d \in Day : StorePoint(o, d) \/ EraseDriver(o, d)
         \/ \E o \in Org : \E n \in 0..PlanDays[o] : UpdateRetention(o, n)
         \/ Midnight
  PROVE  SchedulerOK' /\ Calls' /\ Spares(tickOps)
  <1>1. /\ day \in Day /\ partition \subseteq Int /\ due \subseteq Process
        /\ telemetry \in [Org -> [Day -> Nat]] /\ retention \in [Org -> Nat]
        /\ erased \subseteq Org \X Day
        /\ \A o \in Org : PlanDays[o] \in Nat
    BY SchedulerAssumption DEF SchedulerOK, SchedulerTypeOK
  <1>2. day \in Nat /\ \A o \in Org, d \in Day : telemetry[o][d] \in Nat
    BY <1>1, Days
  <1>3. ASSUME NEW p \in Process, HourPasses(p)
        PROVE  SchedulerOK' /\ Calls' /\ Spares(tickOps)
    <2>1. UNCHANGED <<call, day, partition, telemetry, retention, usage, erased>>
          /\ due' = due \cup {p}
      BY <1>3 DEF HourPasses, requestVars
    <2>. QED BY <1>1, <1>2, <2>1, PointsMove
  <1>4. ASSUME NEW o \in Org, NEW d \in Day, StorePoint(o, d)
        PROVE  SchedulerOK' /\ Calls' /\ Spares(tickOps)
    <2>1. UNCHANGED <<call, day, partition, due, retention, usage, erased>>
          /\ telemetry' = [telemetry EXCEPT ![o][d] = @ + 1]
      BY <1>4 DEF StorePoint, AtOnce
    <2>2. telemetry' \in [Org -> [Day -> Nat]]
      BY <1>1, <2>1
    <2>3. \A x \in Org, y \in Day : telemetry[x][y] <= telemetry'[x][y]
      BY <1>1, <1>2, <2>1
    <2>. QED BY <1>1, <1>2, <2>1, <2>2, <2>3, PointsMove
  <1>5. ASSUME NEW o \in Org, NEW d \in Day, EraseDriver(o, d)
        PROVE  SchedulerOK' /\ Calls' /\ Spares(tickOps)
    <2>1. /\ UNCHANGED <<call, day, partition, due, retention, usage>>
          /\ telemetry' = [telemetry EXCEPT ![o][d] = @ - 1] /\ telemetry[o][d] > 0
          /\ erased' = erased \cup {<<o, d>>}
      BY <1>5 DEF EraseDriver, AtOnce
    <2>2. telemetry' \in [Org -> [Day -> Nat]]
      BY <1>1, <1>2, <2>1
    <2>3. \A x \in Org, y \in Day : <<x, y>> \notin erased' => telemetry[x][y] <= telemetry'[x][y]
      BY <1>1, <1>2, <2>1
    <2>. QED BY <1>1, <1>2, <2>1, <2>2, <2>3, PointsMove
  <1>6. ASSUME NEW o \in Org, NEW n \in 0..PlanDays[o], UpdateRetention(o, n)
        PROVE  SchedulerOK' /\ Calls' /\ Spares(tickOps)
    <2>1. UNCHANGED <<call, day, partition, due, telemetry, usage, erased>>
          /\ retention' = [retention EXCEPT ![o] = n]
      BY <1>6 DEF UpdateRetention, AtOnce
    <2>2. n \in Nat
      BY <1>1
    <2>. QED BY <1>1, <1>2, <2>1, <2>2, PointsMove
  <1>7. ASSUME Midnight
        PROVE  SchedulerOK' /\ Calls' /\ Spares(tickOps)
    <2>1. UNCHANGED <<call, partition, due, telemetry, retention, usage, erased>>
          /\ day' = day + 1 /\ day < MaxDay
      BY <1>7 DEF Midnight
    <2>2. day' \in Day /\ day' >= day
      BY <1>2, <2>1, Days
    <2>. QED BY <1>1, <1>2, <2>1, <2>2, PointsMove
  <1>. QED BY <1>3, <1>4, <1>5, <1>6, <1>7

(* If others tick neither they nor p, at c, are alone.                      *)
NoneAlone(p, c) ==
  \A q \in Process : q # p /\ Ticking(q) => ~Alone(c) /\ ~Alone(call[q])

(* A tick that goes on is alone only if it was, and so is the one beside.   *)
LEMMA StillLocked ==
  ASSUME Locked, NEW p \in Process, Ticking(p), NEW c,
         Alone(c) => Alone(call[p])
  PROVE  NoneAlone(p, c)
  BY DEF Locked, NoneAlone

LEMMA TickingIs ==
  ASSUME SchedulerOK, NEW p \in Process, Ticking(p), NEW b, b = call[p]
  PROVE  /\ b \in TickCall /\ b.op = "tick" /\ call[p].op \in tickOps
         /\ TickOK(b) /\ Honest(b) /\ Ahead(b) /\ Locked
         /\ b.now \in Nat /\ b.target \in Nat /\ b.now - 1 \in Day
  <1>1. TickOK(b) /\ Honest(b) /\ Ahead(b) /\ Locked
    BY DEF SchedulerOK, TicksOK
  <1>2. b \in TickCall /\ b.now \in Day /\ b.target \in Day /\ b.now >= 1
    BY <1>1 DEF TickOK, TickCall
  <1>3. b.now \in Nat /\ b.target \in Nat /\ b.now <= MaxDay
    BY <1>2, Days
  <1>4. b.now - 1 \in Nat /\ b.now - 1 <= MaxDay
    BY <1>2, <1>3, Days
  <1>5. b.now - 1 \in Day
    BY <1>4, Days
  <1>6. b.op = "tick" /\ call[p].op \in tickOps
    BY DEF Ticking, tickOps
  <1>. QED BY <1>1, <1>2, <1>3, <1>5, <1>6

(* A tick returns, and may have committed its partitions or lost count of   *)
(* the hour.                                                                *)
LEMMA TickReturns ==
  ASSUME Calls, SchedulerOK, NEW p \in Process, Ticking(p), Return(p),
         UNCHANGED <<day, telemetry, retention, usage, erased>>,
         partition' \subseteq Int, due' \subseteq Process
  PROVE  SchedulerOK' /\ Calls' /\ Spares(tickOps)
  <1>1. PICK c : c = Idle
    OBVIOUS
  <1>2. c.op = "idle" /\ Continue(p, c)
    BY <1>1 DEF Idle, Return
  <1>3. call[p].op \in tickOps
    BY DEF Ticking, tickOps
  <1>4. /\ Calls' /\ Spares(tickOps) /\ call'[p] = c
        /\ \A q \in Process : q # p => call'[q] = call[q]
    <2>1. call' = [call EXCEPT ![p] = c]
      BY <1>2 DEF Continue
    <2>2. call[p].op \in tickOps \cup {"idle"} /\ c.op \in tickOps \cup {"idle"}
      BY <1>2, <1>3
    <2>. QED BY <2>1, <2>2, Moved
  <1>5. SchedulerTypeOK
    BY DEF SchedulerOK
  <1>6. \A o \in Org, d \in Day : /\ telemetry[o][d] \in Nat /\ telemetry'[o][d] \in Nat
                                  /\ d >= day - 1 => telemetry[o][d] <= telemetry'[o][d]
    BY <1>5 DEF SchedulerTypeOK
  <1>7. TicksOK'
    BY <1>2, <1>4, <1>6, OneTickMoves DEF SchedulerOK
  <1>8. SchedulerTypeOK' /\ (day >= 1)' /\ Recorded'
    BY <1>5 DEF SchedulerOK, SchedulerTypeOK, Recorded
  <1>. QED BY <1>4, <1>7, <1>8 DEF SchedulerOK

(* p goes on with c.                                                        *)
Goes(p, c) == call' = [call EXCEPT ![p] = c]

(* A tick goes on and writes nothing but what it keeps for itself.          *)
LEMMA TickGoesOn ==
  ASSUME Calls, SchedulerOK, UNCHANGED schedulerVars, NEW p \in Process, NEW c,
         call[p].op \in {"tick", "idle"}, Goes(p, c), c.op = "tick",
         TickOK(c), Honest(c), Ahead(c),
         NoneAlone(p, c)
  PROVE  SchedulerOK' /\ Calls' /\ Spares(tickOps)
  <1>1. UNCHANGED <<day, partition, due, telemetry, retention, usage, erased>>
    BY DEF schedulerVars
  <1>2. /\ Calls' /\ Spares(tickOps) /\ call'[p] = c
        /\ \A q \in Process : q # p => call'[q] = call[q]
    <2>1. call[p].op \in tickOps \cup {"idle"} /\ c.op \in tickOps \cup {"idle"}
      BY DEF tickOps
    <2>. QED BY <2>1, Moved DEF Goes
  <1>3. SchedulerTypeOK
    BY DEF SchedulerOK
  <1>4. \A o \in Org, d \in Day : /\ telemetry[o][d] \in Nat /\ telemetry'[o][d] \in Nat
                                  /\ d >= day - 1 => telemetry[o][d] <= telemetry'[o][d]
    BY <1>1, <1>3 DEF SchedulerTypeOK
  <1>5. TickOK(c)' /\ Honest(c)' /\ Ahead(c)'
    BY <1>1, TablesSame
  <1>6. TicksOK'
    BY <1>1, <1>2, <1>4, <1>5, OneTickMoves DEF SchedulerOK, NoneAlone
  <1>7. SchedulerTypeOK' /\ (day >= 1)' /\ Recorded'
    BY <1>1, <1>3 DEF SchedulerOK, SchedulerTypeOK, Recorded
  <1>. QED BY <1>2, <1>6, <1>7 DEF SchedulerOK

LEMMA StartTickKept ==
  ASSUME Calls, SchedulerOK, NEW p \in Process, StartTick(p)
  PROVE  SchedulerOK' /\ Calls' /\ Spares(tickOps)
  <1>1. PICK beside \in BOOLEAN : beside = (\E q \in Process : Ticking(q))
    OBVIOUS
  <1>2. PICK c : c = [op |-> "tick", step |-> "partitions", alive |-> TRUE, made |-> {},
                      now |-> day, target |-> day, todo |-> {}, org |-> {}, read |-> 0,
                      beside |-> beside]
    OBVIOUS
  <1>3. call[p] = Idle /\ Goes(p, c) /\ UNCHANGED schedulerVars
    BY <1>1, <1>2 DEF StartTick, Begin, Goes
  <1>4. call[p].op = "idle"
    BY <1>3 DEF Idle
  <1>5. day \in Day /\ day \in Nat /\ day >= 1
    BY Days DEF SchedulerOK, SchedulerTypeOK
  <1>6. c \in TickCall /\ c.op = "tick" /\ c.step = "partitions" /\ c.now = day /\ c.beside = beside
    BY <1>2, <1>5 DEF TickCall
  <1>7. TickOK(c) /\ Honest(c) /\ Ahead(c)
    BY <1>5, <1>6 DEF TickOK, Honest, Ahead
  <1>8. NoneAlone(p, c)
    BY <1>1, <1>6 DEF NoneAlone, Alone, StartTick, TryLock, SessionOpen
  <1>. QED BY <1>3, <1>4, <1>6, <1>7, <1>8, TickGoesOn

LEMMA EnsurePartitionsKept ==
  ASSUME Calls, SchedulerOK, NEW p \in Process, EnsurePartitions(p)
  PROVE  SchedulerOK' /\ Calls' /\ Spares(tickOps)
  <1>1. PICK b : b = call[p]
    OBVIOUS
  <1>2. Ticking(p)
    BY DEF EnsurePartitions, At
  <1>3. b \in TickCall /\ b.op = "tick" /\ TickOK(b) /\ Locked
    BY <1>1, <1>2, TickingIs
  <1>4. PICK made, step : /\ made = Wanted \ partition
                          /\ step = IF p \in due THEN "purge" ELSE "commit"
    OBVIOUS
  <1>5. PICK c : c = [b EXCEPT !.made = made, !.now = day, !.todo = Org, !.step = step]
    OBVIOUS
  <1>6. Goes(p, c) /\ UNCHANGED schedulerVars
    BY <1>1, <1>4, <1>5 DEF EnsurePartitions, Continue, Goes
  <1>7. day \in Day /\ day \in Nat /\ day >= 1
    BY Days DEF SchedulerOK, SchedulerTypeOK
  <1>8. made \in SUBSET Int
    <2>1. Month(day) \in Int
      BY <1>7, SchedulerAssumption DEF Month
    <2>. QED BY <1>4, <2>1 DEF Wanted, MonthsAhead
  <1>9. /\ c \in TickCall /\ c.op = "tick" /\ c.step \in {"purge", "commit"} /\ c.now = day
        /\ c.alive = b.alive /\ c.beside = b.beside
    BY <1>3, <1>4, <1>5, <1>7, <1>8 DEF TickCall
  <1>10. TickOK(c) /\ Honest(c) /\ Ahead(c)
    BY <1>7, <1>9 DEF TickOK, Honest, Ahead, SchedulerOK, Recorded
  <1>11. NoneAlone(p, c)
    BY <1>1, <1>2, <1>3, <1>9, StillLocked DEF Alone
  <1>12. call[p].op \in {"tick", "idle"}
    BY <1>2 DEF Ticking
  <1>. QED BY <1>6, <1>9, <1>10, <1>11, <1>12, TickGoesOn

LEMMA LoseConnectionKept ==
  ASSUME Calls, SchedulerOK, NEW p \in Process, LoseConnection(p)
  PROVE  SchedulerOK' /\ Calls' /\ Spares(tickOps)
  <1>1. PICK b : b = call[p]
    OBVIOUS
  <1>2. Ticking(p)
    BY DEF LoseConnection, SessionOpen
  <1>3. b \in TickCall /\ b.op = "tick" /\ TickOK(b) /\ Honest(b) /\ Locked
    BY <1>1, <1>2, TickingIs
  <1>4. PICK c : c = [b EXCEPT !.alive = FALSE, !.made = {}]
    OBVIOUS
  <1>5. Goes(p, c) /\ UNCHANGED schedulerVars
    BY <1>1, <1>4 DEF LoseConnection, Continue, Goes
  <1>6. /\ c \in TickCall /\ c.op = "tick" /\ c.step = b.step /\ c.now = b.now /\ ~c.alive
        /\ c.target = b.target /\ c.org = b.org /\ c.read = b.read
    BY <1>3, <1>4 DEF TickCall
  <1>7. ~Alone(c)
    BY <1>6 DEF Alone
  <1>8. TickOK(c) /\ Honest(c) /\ Ahead(c)
    BY <1>3, <1>6, <1>7 DEF TickOK, Honest, Ahead
  <1>9. NoneAlone(p, c)
    BY <1>2, <1>3, <1>7, StillLocked
  <1>10. call[p].op \in {"tick", "idle"}
    BY <1>2 DEF Ticking
  <1>. QED BY <1>5, <1>6, <1>8, <1>9, <1>10, TickGoesOn

LEMMA CountUsageKept ==
  ASSUME Calls, SchedulerOK, NEW p \in Process, NEW o \in Org, CountUsage(p, o)
  PROVE  SchedulerOK' /\ Calls' /\ Spares(tickOps)
  <1>1. PICK b : b = call[p]
    OBVIOUS
  <1>2. Ticking(p) /\ b.step = "read"
    BY <1>1 DEF CountUsage, At
  <1>3. b \in TickCall /\ b.op = "tick" /\ TickOK(b) /\ Ahead(b) /\ Locked
        /\ b.target \in Nat /\ b.now \in Nat
    BY <1>1, <1>2, TickingIs
  <1>4. b.target \in Day /\ b.target >= b.now - 1
    BY <1>2, <1>3 DEF TickOK, TickCall
  <1>5. telemetry[o][b.target] \in Nat
    BY <1>4 DEF SchedulerOK, SchedulerTypeOK
  <1>6. PICK n \in Nat : n = telemetry[o][b.target]
    BY <1>5
  <1>7. PICK c : c = [b EXCEPT !.step = "write", !.org = {o}, !.read = n]
    OBVIOUS
  <1>8. Goes(p, c) /\ UNCHANGED schedulerVars
    BY <1>1, <1>6, <1>7 DEF CountUsage, Continue, Goes, Activity
  <1>9. /\ c \in TickCall /\ c.op = "tick" /\ c.step = "write" /\ c.now = b.now
        /\ c.alive = b.alive /\ c.beside = b.beside
        /\ c.target = b.target /\ c.org = {o} /\ c.read = n
    BY <1>3, <1>7 DEF TickCall
  <1>10. TickOK(c)
    BY <1>3, <1>4, <1>9 DEF TickOK
  <1>11. Honest(c)
    BY <1>6, <1>9 DEF Honest
  <1>12. Ahead(c)
    <2>1. Alone(c) => Alone(b)
      BY <1>9 DEF Alone
    <2>2. Alone(c) => \A x \in Org, d \in Day :
            d >= c.now - 1 /\ <<x, d>> \notin erased => usage[x][d] <= telemetry[x][d]
      BY <1>2, <1>3, <1>9, <2>1 DEF Ahead
    <2>3. Alone(c) /\ <<o, c.target>> \notin erased => usage[o][c.target] <= n
      BY <1>4, <1>6, <1>9, <2>2
    <2>. QED BY <1>6, <1>9, <2>2, <2>3 DEF Ahead
  <1>13. NoneAlone(p, c)
    BY <1>1, <1>2, <1>3, <1>9, StillLocked DEF Alone
  <1>14. call[p].op \in {"tick", "idle"}
    BY <1>2 DEF Ticking
  <1>. QED BY <1>8, <1>9, <1>10, <1>11, <1>12, <1>13, <1>14, TickGoesOn

(* A tick goes on and writes.                                               *)
LEMMA TickWrites ==
  ASSUME Calls, SchedulerOK, NEW p \in Process, NEW c, Ticking(p), Goes(p, c), c.op = "tick",
         Alone(c) => Alone(call[p]),
         UNCHANGED <<day, partition, retention, erased>>, due' \subseteq Process,
         telemetry' \in [Org -> [Day -> Nat]], usage' \in [Org -> [Day -> UsageRecord]],
         \A o \in Org, d \in Day : d >= day - 1 => telemetry[o][d] = telemetry'[o][d],
         Recorded', TickOK(c), Honest(c)', Ahead(c)'
  PROVE  SchedulerOK' /\ Calls' /\ Spares(tickOps)
  <1>1. /\ Calls' /\ Spares(tickOps) /\ call'[p] = c
        /\ \A q \in Process : q # p => call'[q] = call[q]
    <2>1. call[p].op \in tickOps \cup {"idle"} /\ c.op \in tickOps \cup {"idle"}
      BY DEF Ticking, tickOps
    <2>. QED BY <2>1, Moved DEF Goes
  <1>2. SchedulerTypeOK
    BY DEF SchedulerOK
  <1>3. \A o \in Org, d \in Day : /\ telemetry[o][d] \in Nat /\ telemetry'[o][d] \in Nat
                                  /\ d >= day - 1 => telemetry[o][d] <= telemetry'[o][d]
    BY <1>2 DEF SchedulerTypeOK
  <1>4. TickOK(c)'
    BY DEF TickOK
  <1>5. NoneAlone(p, c)
    BY StillLocked DEF SchedulerOK, TicksOK
  <1>6. TicksOK'
    BY <1>1, <1>3, <1>4, <1>5, OneTickMoves DEF SchedulerOK, NoneAlone
  <1>7. SchedulerTypeOK' /\ (day >= 1)'
    BY <1>2 DEF SchedulerTypeOK, SchedulerOK
  <1>. QED BY <1>1, <1>6, <1>7 DEF SchedulerOK

LEMMA PurgeKept ==
  ASSUME Calls, SchedulerOK, NEW p \in Process, NEW o \in Org, NEW gone \in SUBSET Day,
         Purge(p, o, gone)
  PROVE  SchedulerOK' /\ Calls' /\ Spares(tickOps)
  <1>1. PICK b : b = call[p]
    OBVIOUS
  <1>2. Ticking(p) /\ b.step = "purge"
    BY <1>1 DEF Purge, At
  <1>3. /\ b \in TickCall /\ b.op = "tick" /\ TickOK(b) /\ Ahead(b)
        /\ b.now \in Nat /\ b.target \in Nat /\ b.now - 1 \in Day
    BY <1>1, <1>2, TickingIs
  <1>4. b.now <= day /\ b.now >= 1 /\ b.now \in Day /\ b.target \in Day /\ day \in Nat
    BY <1>3, Days DEF TickOK, TickCall, SchedulerOK, SchedulerTypeOK
  <1>5. PICK left : left = b.todo \ {o}
    OBVIOUS
  <1>6. PICK c : c = AfterPurge(b, left)
    OBVIOUS
  <1>7. PICK early \in Day : early = b.now - 1
    BY <1>3
  <1>8. left \in SUBSET Org
    BY <1>3, <1>5 DEF TickCall
  <1>9. /\ c \in TickCall /\ c.op = "tick" /\ c.step \in {"purge", "read"} /\ c.now = b.now
        /\ c.alive = b.alive /\ c.beside = b.beside
        /\ c.step = "read" => c.target = early
    BY <1>2, <1>3, <1>6, <1>7, <1>8 DEF TickCall, AfterPurge
  <1>10. /\ Goes(p, c) /\ UNCHANGED <<day, partition, due, retention, usage, erased>>
         /\ telemetry' = [telemetry EXCEPT ![o] = [d \in Day |-> IF d \in gone THEN 0 ELSE @[d]]]
         /\ gone \subseteq Expired(o, b.now)
    BY <1>1, <1>5, <1>6 DEF Purge, Continue, Goes
  <1>11. telemetry \in [Org -> [Day -> Nat]] /\ usage \in [Org -> [Day -> UsageRecord]]
         /\ due \subseteq Process
    BY DEF SchedulerOK, SchedulerTypeOK
  <1>12. telemetry' \in [Org -> [Day -> Nat]]
    BY <1>10, <1>11
  <1>13. \A d \in gone : d < b.now - 1
    <2>1. TelemetryDays(o) \in Nat /\ TelemetryDays(o) >= 1
      BY SchedulerAssumption DEF TelemetryDays, SchedulerOK, SchedulerTypeOK
    <2>2. PICK n \in Nat : n = TelemetryDays(o)
      BY <2>1
    <2>3. ASSUME NEW d \in gone
          PROVE  d < b.now - 1
      <3>1. d \in Nat /\ d < b.now - n
        BY <1>10, <2>2, Days DEF Expired
      <3>. QED BY <1>3, <2>1, <2>2, <3>1
    <2>. QED BY <2>3
  <1>14. \A x \in Org, d \in Day : d >= b.now - 1 => telemetry'[x][d] = telemetry[x][d]
    <2> SUFFICES ASSUME NEW x \in Org, NEW d \in Day, d >= b.now - 1
                 PROVE  telemetry'[x][d] = telemetry[x][d]
      OBVIOUS
    <2>1. d \in Nat
      BY Days
    <2>2. d \notin gone
      BY <1>3, <1>13, <2>1
    <2>. QED BY <1>10, <1>11, <2>2
  <1>15. \A x \in Org, d \in Day : d >= day - 1 => telemetry[x][d] = telemetry'[x][d]
    <2> SUFFICES ASSUME NEW x \in Org, NEW d \in Day, d >= day - 1
                 PROVE  telemetry[x][d] = telemetry'[x][d]
      OBVIOUS
    <2>1. d \in Nat
      BY Days
    <2>2. d >= b.now - 1
      BY <1>3, <1>4, <2>1, NotEarlier
    <2>. QED BY <1>14, <2>2
  <1>16. Recorded'
    BY <1>10, <1>15 DEF SchedulerOK, Recorded
  <1>17. TickOK(c)
    BY <1>3, <1>4, <1>7, <1>9 DEF TickOK
  <1>18. Honest(c)'
    BY <1>9 DEF Honest
  <1>19. Ahead(c)'
    BY <1>2, <1>3, <1>9, <1>10, <1>14 DEF Ahead, Alone
  <1>20. Alone(c) => Alone(call[p])
    BY <1>1, <1>9 DEF Alone
  <1>. QED BY <1>2, <1>9, <1>10, <1>11, <1>12, <1>15, <1>16, <1>17, <1>18, <1>19, <1>20, TickWrites

LEMMA WriteUsageKept ==
  ASSUME Calls, SchedulerOK, NEW p \in Process, WriteUsage(p)
  PROVE  SchedulerOK' /\ Calls' /\ Spares(tickOps)
  <1>1. PICK b : b = call[p]
    OBVIOUS
  <1>2. Ticking(p) /\ b.step = "write"
    BY <1>1 DEF WriteUsage, At
  <1>3. /\ b \in TickCall /\ b.op = "tick" /\ TickOK(b) /\ Ahead(b) /\ Honest(b)
        /\ b.now \in Nat /\ b.target \in Nat /\ b.now - 1 \in Day
    BY <1>1, <1>2, TickingIs
  <1>4. /\ b.now <= day /\ b.now >= 1 /\ b.now \in Day /\ b.target \in Day /\ day \in Nat
        /\ b.target >= b.now - 1 /\ b.read \in Nat /\ b.org \subseteq Org
    BY <1>2, <1>3, Days DEF TickOK, TickCall, SchedulerOK, SchedulerTypeOK
  <1>5. PICK c : c = AfterSnapshot(b)
    OBVIOUS
  <1>6. PICK left : left = b.todo \ b.org
    OBVIOUS
  <1>7. PICK next : next = [b EXCEPT !.step = "read", !.todo = left, !.org = {}, !.read = 0]
    OBVIOUS
  <1>8. left \in SUBSET Org
    BY <1>3, <1>6 DEF TickCall
  <1>9. /\ next \in TickCall /\ next.op = "tick" /\ next.step = "read" /\ next.now = b.now
        /\ next.alive = b.alive /\ next.beside = b.beside /\ next.target = b.target
    BY <1>3, <1>7, <1>8 DEF TickCall
  <1>10. c = IF left # {} THEN next
             ELSE IF b.target < b.now THEN [next EXCEPT !.target = b.now, !.todo = Org]
             ELSE [next EXCEPT !.step = "commit"]
    BY <1>5, <1>6, <1>7 DEF AfterSnapshot
  <1>11. /\ c \in TickCall /\ c.op = "tick" /\ c.step \in {"read", "commit"} /\ c.now = b.now
         /\ c.alive = b.alive /\ c.beside = b.beside
         /\ c.target = b.target \/ c.target = b.now
    BY <1>4, <1>9, <1>10 DEF TickCall
  <1>12. /\ Goes(p, c) /\ UNCHANGED <<day, partition, telemetry, retention, erased>>
         /\ usage' = [o \in Org |-> IF o \in b.org THEN [usage[o] EXCEPT ![b.target] = b.read]
                                    ELSE usage[o]]
         /\ due' = due \/ due' = due \ {p}
    BY <1>1, <1>5 DEF WriteUsage, Continue, Goes
  <1>13. /\ telemetry \in [Org -> [Day -> Nat]] /\ usage \in [Org -> [Day -> UsageRecord]]
         /\ due \subseteq Process
    BY DEF SchedulerOK, SchedulerTypeOK
  <1>14. usage' \in [Org -> [Day -> UsageRecord]]
    BY <1>4, <1>12, <1>13 DEF UsageRecord
  <1>15. \A o \in Org, d \in Day :
           usage'[o][d] = IF o \in b.org /\ d = b.target THEN b.read ELSE usage[o][d]
    BY <1>4, <1>12, <1>13
  <1>16. Recorded'
    <2> SUFFICES ASSUME NEW o \in Org, NEW d \in Day, d >= day - 1, <<o, d>> \notin erased
                 PROVE  usage'[o][d] <= telemetry[o][d]
      BY <1>12 DEF Recorded
    <2>1. usage[o][d] <= telemetry[o][d]
      BY DEF SchedulerOK, Recorded
    <2>2. o \in b.org /\ d = b.target => b.read <= telemetry[o][d]
      BY <1>2, <1>3 DEF Honest
    <2>. QED BY <1>15, <2>1, <2>2
  <1>17. TickOK(c)
    <2>1. b.now >= b.now - 1
      BY <1>3
    <2>. QED BY <1>3, <1>4, <1>11, <2>1 DEF TickOK
  <1>18. Honest(c)'
    BY <1>11 DEF Honest
  <1>19. Ahead(c)'
    <2> SUFFICES ASSUME Alone(b), NEW o \in Org, NEW d \in Day, d >= b.now - 1, <<o, d>> \notin erased
                 PROVE  usage'[o][d] <= telemetry[o][d]
      BY <1>11, <1>12 DEF Ahead, Alone
    <2>1. usage[o][d] <= telemetry[o][d]
      BY <1>2, <1>3 DEF Ahead
    <2>2. o \in b.org /\ d = b.target => b.read <= telemetry[o][d]
      BY <1>2, <1>3 DEF Ahead
    <2>. QED BY <1>15, <2>1, <2>2
  <1>20. Alone(c) => Alone(call[p])
    BY <1>1, <1>11 DEF Alone
  <1>. QED BY <1>2, <1>11, <1>12, <1>13, <1>14, <1>16, <1>17, <1>18, <1>19, <1>20, TickWrites

LEMMA SchedulerKept ==
  ASSUME Calls, SchedulerOK, SchedulerStep
  PROVE  SchedulerOK' /\ Calls' /\ Spares(tickOps)
  <1>1. SchedulerTypeOK
    BY DEF SchedulerOK
  <1>2. ASSUME NEW p \in Process, NoticeLoss(p) \/ FailTick(p)
        PROVE  SchedulerOK' /\ Calls' /\ Spares(tickOps)
    BY <1>1, <1>2, TickReturns DEF NoticeLoss, FailTick, At, schedulerVars, SchedulerTypeOK
  <1>3. ASSUME NEW p \in Process, FinishTick(p)
        PROVE  SchedulerOK' /\ Calls' /\ Spares(tickOps)
    <2>1. Ticking(p) /\ call[p].made \subseteq Int
      BY <1>3, TickingIs DEF FinishTick, At, TickCall
    <2>2. partition' \subseteq Int /\ due' \subseteq Process
      BY <1>1, <1>3, <2>1 DEF FinishTick, SchedulerTypeOK
    <2>. QED BY <1>3, <2>1, <2>2, TickReturns DEF FinishTick
  <1>4. ASSUME NEW p \in Process, Restart(p)
        PROVE  SchedulerOK' /\ Calls' /\ Spares(tickOps)
    <2>1. partition' \subseteq Int /\ due' \subseteq Process
      BY <1>1, <1>4 DEF Restart, SchedulerTypeOK
    <2>. QED BY <1>4, <2>1, TickReturns DEF Restart
  <1>5. ASSUME NEW p \in Process, TickStep(p)
        PROVE  SchedulerOK' /\ Calls' /\ Spares(tickOps)
    BY <1>2, <1>3, <1>5, EnsurePartitionsKept, WriteUsageKept, CountUsageKept, PurgeKept DEF TickStep
  <1>6. ASSUME NEW p \in Process, StartTick(p) \/ TickStep(p) \/ HourPasses(p)
                                  \/ LoseConnection(p) \/ FailTick(p) \/ Restart(p)
        PROVE  SchedulerOK' /\ Calls' /\ Spares(tickOps)
    BY <1>2, <1>4, <1>5, <1>6, StartTickKept, LoseConnectionKept, PointStepsKept
  <1>. QED BY <1>6, PointStepsKept DEF SchedulerStep

(* What is recorded of a day shrinks by an erasure or by a tick that is not *)
(* alone.                                                                   *)
LEMMA ActivityKept ==
  ASSUME SchedulerOK, SchedulerStep, NEW o \in Org, NEW d \in Day, usage'[o][d] < usage[o][d]
  PROVE  \/ <<o, d>> \in erased
         \/ \E p \in Process : At(p, "write") /\ (~call[p].alive \/ call[p].beside)
  <1>0. usage \in [Org -> [Day -> UsageRecord]] /\ usage[o][d] \in Int
    BY DEF SchedulerOK, SchedulerTypeOK, UsageRecord
  <1>1. ASSUME UNCHANGED usage
        PROVE  FALSE
    BY <1>0, <1>1
  <1>2. ASSUME NEW p \in Process, WriteUsage(p)
        PROVE  \/ <<o, d>> \in erased
               \/ At(p, "write") /\ (~call[p].alive \/ call[p].beside)
    <2>1. PICK b : b = call[p]
      OBVIOUS
    <2>2. Ticking(p) /\ At(p, "write") /\ b.step = "write"
      BY <1>2, <2>1 DEF WriteUsage, At
    <2>3. b \in TickCall /\ Ahead(b)
      BY <2>1, <2>2, TickingIs
    <2>4. usage' = [x \in Org |-> IF x \in b.org THEN [usage[x] EXCEPT ![b.target] = b.read]
                                  ELSE usage[x]]
      BY <1>2, <2>1 DEF WriteUsage
    <2>5. b.target \in Day /\ b.read \in Nat
      BY <2>3 DEF TickCall
    <2>6. o \in b.org /\ d = b.target /\ b.read < usage[o][d]
      BY <1>0, <2>4, <2>5
    <2>7. Alone(b) /\ <<o, d>> \notin erased => usage[o][d] <= b.read
      BY <2>2, <2>3, <2>6 DEF Ahead
    <2>. QED BY <1>0, <2>1, <2>2, <2>5, <2>6, <2>7 DEF Alone
  <1>3. UNCHANGED usage \/ \E p \in Process : WriteUsage(p)
    BY DEF SchedulerStep, TickStep, StartTick, EnsurePartitions, NoticeLoss, FinishTick, CountUsage,
       Purge, HourPasses, LoseConnection, FailTick, Restart, StorePoint, EraseDriver,
       UpdateRetention, Midnight, schedulerVars
  <1>. QED BY <1>1, <1>2, <1>3

-----------------------------------------------------------------------------
(* Road risks.  Clusters have no event twice and none in common, whatever   *)
(* the order of the rows and whichever events are near each other.          *)
ClustersOK(cs, done) ==
  /\ cs \in Seq(Seq(Incident))
  /\ \A a \in DOMAIN cs :
       /\ ToSet(cs[a]) \subseteq done /\ IsFiniteSet(ToSet(cs[a]))
       /\ Cardinality(ToSet(cs[a])) = Len(cs[a])
  /\ \A a, b \in DOMAIN cs : a # b => ToSet(cs[a]) \cap ToSet(cs[b]) = {}

(* What placing an event does: one cluster more, or one of the clusters     *)
(* longer.                                                                  *)
LEMMA Placed ==
  ASSUME NEW cs \in Seq(Seq(Incident)), NEW i \in Incident
  PROVE  \/ Place(cs, i) = Append(cs, <<i>>)
         \/ \E n \in DOMAIN cs : Place(cs, i) = [cs EXCEPT ![n] = Append(cs[n], i)]
  <1>1. PICK fits : fits = {n \in DOMAIN cs : <<cs[n][1], i>> \in Near}
    OBVIOUS
  <1>2. CASE fits = {}
    BY <1>1, <1>2 DEF Place
  <1>3. CASE fits # {}
    <2>1. DOMAIN cs \subseteq Nat
      OBVIOUS
    <2>2. \E m \in fits : \A k \in fits : m <= k
      BY <1>1, <1>3, <2>1, LeastNat
    <2>3. PICK n : n = CHOOSE m \in fits : \A k \in fits : m <= k
      OBVIOUS
    <2>4. n \in fits /\ n \in DOMAIN cs
      BY <1>1, <2>2, <2>3
    <2>5. Place(cs, i) = [cs EXCEPT ![n] = Append(@, i)]
      BY <1>1, <1>3, <2>3 DEF Place
    <2>. QED BY <2>4, <2>5
  <1>. QED BY <1>2, <1>3

LEMMA PlaceType ==
  ASSUME NEW cs \in Seq(Seq(Incident)), NEW i \in Incident
  PROVE  Place(cs, i) \in Seq(Seq(Incident))
  <1>1. PICK S : S = Seq(Incident)
    OBVIOUS
  <1>2. <<i>> \in S /\ cs \in Seq(S)
    BY <1>1
  <1>3. Append(cs, <<i>>) \in Seq(S)
    BY <1>2, AppendProperties
  <1>4. ASSUME NEW n \in DOMAIN cs, NEW new, new = [cs EXCEPT ![n] = Append(cs[n], i)]
        PROVE  new \in Seq(S)
    <2>1. n \in 1..Len(cs) /\ cs[n] \in S
      BY <1>2
    <2>2. PICK d : d = Append(cs[n], i)
      OBVIOUS
    <2>3. d \in S
      BY <1>1, <2>1, <2>2, AppendProperties
    <2>4. new = [cs EXCEPT ![n] = d]
      BY <1>4, <2>2
    <2>. QED BY <1>2, <2>1, <2>3, <2>4
  <1>5. PICK new : new = Place(cs, i)
    OBVIOUS
  <1>. QED BY <1>1, <1>3, <1>4, <1>5, Placed

(* A cluster with one event more.                                           *)
LEMMA Longer ==
  ASSUME NEW c \in Seq(Incident), NEW i \in Incident, i \notin ToSet(c),
         IsFiniteSet(ToSet(c)), Cardinality(ToSet(c)) = Len(c), NEW d, d = Append(c, i)
  PROVE  /\ d \in Seq(Incident) /\ ToSet(d) = ToSet(c) \cup {i}
         /\ IsFiniteSet(ToSet(d)) /\ Cardinality(ToSet(d)) = Len(d)
  <1>1. d \in Seq(Incident) /\ ToSet(d) = ToSet(c) \cup {i}
    BY Contents
  <1>2. Len(d) = Len(c) + 1
    BY AppendProperties
  <1>3. IsFiniteSet(ToSet(c) \cup {i}) /\ Cardinality(ToSet(c) \cup {i}) = Cardinality(ToSet(c)) + 1
    BY FS_AddElement
  <1>. QED BY <1>1, <1>2, <1>3

LEMMA ShortCluster ==
  ASSUME NEW i \in Incident
  PROVE  /\ <<i>> \in Seq(Incident) /\ ToSet(<<i>>) = {i}
         /\ IsFiniteSet(ToSet(<<i>>)) /\ Cardinality(ToSet(<<i>>)) = Len(<<i>>)
  <1>1. <<i>> \in Seq(Incident) /\ DOMAIN <<i>> = 1..1 /\ <<i>>[1] = i /\ Len(<<i>>) = 1
    OBVIOUS
  <1>2. ToSet(<<i>>) = {i}
    <2>1. \A j \in 1..1 : j = 1
      OBVIOUS
    <2>2. 1 \in 1..1
      OBVIOUS
    <2>. QED BY <1>1, <2>1, <2>2 DEF ToSet
  <1>3. IsFiniteSet({i}) /\ Cardinality({i}) = 1
    BY FS_Singleton
  <1>. QED BY <1>1, <1>2, <1>3

LEMMA PlaceKeeps ==
  ASSUME NEW cs, NEW done, ClustersOK(cs, done), NEW i \in Incident, i \notin done
  PROVE  ClustersOK(Place(cs, i), done \cup {i})
  <1>1. cs \in Seq(Seq(Incident)) /\ DOMAIN cs = 1..Len(cs) /\ Len(cs) \in Nat
    BY DEF ClustersOK
  <1>2. PICK new : new = Place(cs, i)
    OBVIOUS
  <1>3. new \in Seq(Seq(Incident))
    BY <1>1, <1>2, PlaceType
  <1>4. \A a \in DOMAIN cs :
          /\ cs[a] \in Seq(Incident) /\ ToSet(cs[a]) \subseteq done /\ IsFiniteSet(ToSet(cs[a]))
          /\ Cardinality(ToSet(cs[a])) = Len(cs[a]) /\ i \notin ToSet(cs[a])
    BY <1>1 DEF ClustersOK
  <1>5. ASSUME NEW n \in DOMAIN cs, new = [cs EXCEPT ![n] = Append(cs[n], i)]
        PROVE  ClustersOK(new, done \cup {i})
    <2>1. PICK d : d = Append(cs[n], i)
      OBVIOUS
    <2>2. /\ ToSet(d) = ToSet(cs[n]) \cup {i} /\ IsFiniteSet(ToSet(d))
          /\ Cardinality(ToSet(d)) = Len(d)
      BY <1>4, <2>1, Longer
    <2>3. DOMAIN new = DOMAIN cs /\ new[n] = d /\ \A a \in DOMAIN cs : a # n => new[a] = cs[a]
      BY <1>1, <1>5, <2>1
    <2>4. \A a \in DOMAIN cs :
            /\ ToSet(new[a]) \subseteq done \cup {i} /\ IsFiniteSet(ToSet(new[a]))
            /\ Cardinality(ToSet(new[a])) = Len(new[a])
      BY <1>4, <2>2, <2>3
    <2>5. \A a, b \in DOMAIN cs : a # b => ToSet(cs[a]) \cap ToSet(cs[b]) = {}
      BY DEF ClustersOK
    <2>6. \A a, b \in DOMAIN cs : a # b => ToSet(new[a]) \cap ToSet(new[b]) = {}
      BY <1>4, <2>2, <2>3, <2>5
    <2>. QED BY <1>3, <2>3, <2>4, <2>6 DEF ClustersOK
  <1>6. ASSUME new = Append(cs, <<i>>)
        PROVE  ClustersOK(new, done \cup {i})
    <2>1. PICK S, d : S = Seq(Incident) /\ d = <<i>>
      OBVIOUS
    <2>2. PICK m \in Nat : m = Len(cs)
      BY <1>1
    <2>3. cs \in Seq(S) /\ d \in S /\ new = Append(cs, d)
      BY <1>1, <1>6, <2>1
    <2>4. /\ DOMAIN new = 1..(m + 1) /\ new[m + 1] = d /\ \A a \in 1..m : new[a] = cs[a]
      BY <2>2, <2>3, AppendProperties
    <2>5. DOMAIN cs = 1..m /\ \A a \in 1..(m + 1) : a \in 1..m \/ a = m + 1
      BY <1>1, <2>2
    <2>6. ToSet(d) = {i} /\ IsFiniteSet(ToSet(d)) /\ Cardinality(ToSet(d)) = Len(d)
      BY <2>1, ShortCluster
    <2>7. \A a \in DOMAIN new :
            /\ ToSet(new[a]) \subseteq done \cup {i} /\ IsFiniteSet(ToSet(new[a]))
            /\ Cardinality(ToSet(new[a])) = Len(new[a])
      BY <1>4, <2>4, <2>5, <2>6
    <2>8. \A a, b \in DOMAIN cs : a # b => ToSet(cs[a]) \cap ToSet(cs[b]) = {}
      BY DEF ClustersOK
    <2>9. \A a \in DOMAIN cs : i \notin ToSet(cs[a])
      BY <1>4
    <2>10. \A a, b \in DOMAIN new : a # b => ToSet(new[a]) \cap ToSet(new[b]) = {}
      BY <2>4, <2>5, <2>6, <2>8, <2>9
    <2>. QED BY <1>3, <2>7, <2>10 DEF ClustersOK
  <1>. QED BY <1>1, <1>2, <1>5, <1>6, Placed

(* The fold over the rows, as a function on the sets of their places.       *)
Folds(f, order) ==
  f = [s \in SUBSET DOMAIN order |->
         IF s = {} THEN <<>> ELSE Place(f[s \ {Max(s)}], order[Max(s)])]

LEMMA ClusterIs ==
  ASSUME NEW order
  PROVE  Cluster(order) = (CHOOSE f : Folds(f, order))[DOMAIN order]
  BY DEF Cluster, FoldLeft, MapThenFoldSet, Folds

LEMMA MaxIsLast ==
  ASSUME NEW n \in Nat, NEW s \in SUBSET (1..n), s # {}
  PROVE  Max(s) \in s /\ \A i \in s : i <= Max(s)
  <1>1. PICK T : T = {k \in Nat : \E i \in s : k = n - i}
    OBVIOUS
  <1>2. T \subseteq Nat /\ T # {}
    <2>1. \A i \in s : n - i \in Nat
      OBVIOUS
    <2>. QED BY <1>1, <2>1
  <1>3. PICK k \in T : \A m \in T : k <= m
    BY <1>2, LeastNat
  <1>4. PICK i \in s : k = n - i
    BY <1>1
  <1>5. \A j \in s : i >= j
    <2>1. \A j \in s : n - j \in T
      BY <1>1
    <2>. QED BY <1>3, <1>4, <2>1
  <1>6. PICK x : x = CHOOSE y \in s : \A j \in s : y >= j
    OBVIOUS
  <1>7. x \in s /\ \A j \in s : x >= j
    BY <1>5, <1>6
  <1>. QED BY <1>6, <1>7 DEF Max

(* There is a fold, and it places one event after another.                  *)
LEMMA FoldExists ==
  ASSUME NEW n \in Nat, NEW order \in [1..n -> Incident]
  PROVE  \E f \in [SUBSET (1..n) -> Seq(Seq(Incident))] : Folds(f, order)
  <1> DEFINE V == Seq(Seq(Incident))
             pick == [s \in SUBSET (1..n) |-> Max(s)]
             step == [u \in (1..n) \X V |-> Place(u[2], order[u[1]])]
  <1>1. IsFiniteSet(1..n) /\ DOMAIN order = 1..n
    BY FS_Interval
  <1>2. \A s \in SUBSET (1..n) : s # {} => pick[s] = Max(s) /\ Max(s) \in s
    BY MaxIsLast
  <1>3. \A x \in 1..n, v \in V : step[<<x, v>>] = Place(v, order[x]) /\ order[x] \in Incident
    OBVIOUS
  <1>4. \A x \in 1..n, v \in V : step[<<x, v>>] \in V
    BY <1>3, PlaceType
  <1>5. <<>> \in V
    OBVIOUS
  <1>. HIDE DEF V, pick, step
  <1>6. \A s \in SUBSET (1..n) : s # {} => pick[s] \in s
    BY <1>2
  <1>7. PICK f \in [SUBSET (1..n) -> V] : Computes(f, SUBSET (1..n), <<>>, pick, step)
    <2>1. PICK D : D = 1..n
      OBVIOUS
    <2>2. /\ IsFiniteSet(D) /\ \A s \in SUBSET D : s # {} => pick[s] \in s
          /\ \A x \in D, v \in V : step[<<x, v>>] \in V
      BY <1>1, <1>4, <1>6, <2>1
    <2>3. \E f \in [SUBSET D -> V] : Computes(f, SUBSET D, <<>>, pick, step)
      BY <1>5, <2>2, RecursionExists
    <2>. QED BY <2>1, <2>3
  <1>8. \A s \in SUBSET (1..n) :
          f[s] = IF s = {} THEN <<>> ELSE Place(f[s \ {Max(s)}], order[Max(s)])
    <2> SUFFICES ASSUME NEW s \in SUBSET (1..n)
                 PROVE  f[s] = IF s = {} THEN <<>> ELSE Place(f[s \ {Max(s)}], order[Max(s)])
      OBVIOUS
    <2>1. CASE s = {}
      BY <1>7, <2>1 DEF Computes
    <2>2. CASE s # {}
      <3>1. f[s] = step[<<pick[s], f[s \ {pick[s]}]>>]
        BY <1>7, <2>2 DEF Computes
      <3>2. pick[s] = Max(s) /\ Max(s) \in 1..n /\ f[s \ {Max(s)}] \in V
        BY <1>2, <1>7, <2>2
      <3>3. f[s] = Place(f[s \ {Max(s)}], order[Max(s)])
        BY <1>3, <3>1, <3>2
      <3>. QED BY <2>2, <3>3
    <2>. QED BY <2>1, <2>2
  <1>9. Folds(f, order)
    BY <1>1, <1>7, <1>8 DEF Folds
  <1>. QED BY <1>7, <1>9 DEF V

(* The rows of a query are in some order, each of them once.                *)
LEMMA RowsOnce ==
  ASSUME NEW S \in SUBSET Incident, NEW order \in Orders(S)
  PROVE  /\ Cardinality(S) \in Nat /\ order \in [1..Cardinality(S) -> S]
         /\ S = {order[i] : i \in 1..Cardinality(S)}
         /\ \A i, j \in 1..Cardinality(S) : order[i] = order[j] => i = j
  <1>1. IsFiniteSet(S)
    BY RoadRiskAssumption, FS_Subset
  <1>2. PICK n \in Nat : n = Cardinality(S)
    BY <1>1, FS_CardinalityType
  <1>3. order \in [1..n -> S] /\ S = {order[i] : i \in 1..n}
    BY <1>2 DEF Orders, ToSet
  <1>4. order \in Surjection(1..n, S)
    BY <1>3 DEF Surjection
  <1>5. IsFiniteSet(1..n) /\ Cardinality(1..n) = Cardinality(S)
    BY <1>2, FS_Interval
  <1>6. order \in Injection(1..n, S)
    BY <1>4, <1>5, FS_SurjSameCardinalityImpliesInj
  <1>7. \A i, j \in 1..n : order[i] = order[j] => i = j
    BY <1>3, <1>6 DEF Injection, IsInjective
  <1>. QED BY <1>2, <1>3, <1>7

LEMMA ClustersGood ==
  ASSUME NEW S \in SUBSET Incident, NEW order \in Orders(S)
  PROVE  ClustersOK(Cluster(order), S)
  <1>1. PICK n \in Nat : n = Cardinality(S)
    BY RowsOnce
  <1>2. /\ order \in [1..n -> S] /\ order \in [1..n -> Incident] /\ DOMAIN order = 1..n
        /\ S = {order[i] : i \in 1..n}
        /\ \A i, j \in 1..n : order[i] = order[j] => i = j
    BY <1>1, RowsOnce
  <1>3. PICK g : g = CHOOSE f : Folds(f, order)
    OBVIOUS
  <1>4. Folds(g, order)
    BY <1>2, <1>3, FoldExists
  <1>5. \A s \in SUBSET (1..n) :
          g[s] = IF s = {} THEN <<>> ELSE Place(g[s \ {Max(s)}], order[Max(s)])
    BY <1>2, <1>4 DEF Folds
  <1> DEFINE Done(m) == {order[i] : i \in 1..m}
             T == {m \in Nat : m <= n => ClustersOK(g[1..m], Done(m))}
  <1>6. 0 \in T
    <2>1. 1..0 = {} /\ 1..0 \in SUBSET (1..n)
      OBVIOUS
    <2>2. g[1..0] = <<>>
      BY <1>5, <2>1
    <2>3. ClustersOK(<<>>, Done(0))
      <3>1. PICK S1 : S1 = Seq(Incident)
        OBVIOUS
      <3>2. <<>> \in Seq(S1) /\ DOMAIN <<>> = {}
        OBVIOUS
      <3>. QED BY <3>1, <3>2 DEF ClustersOK
    <2>. QED BY <2>2, <2>3
  <1>7. ASSUME NEW m \in Nat, m \in T
        PROVE  m + 1 \in T
    <2>1. SUFFICES ASSUME m + 1 <= n
                   PROVE  ClustersOK(g[1..(m + 1)], Done(m + 1))
      OBVIOUS
    <2>2. PICK s : s = 1..(m + 1)
      OBVIOUS
    <2>3. s \in SUBSET (1..n) /\ s # {} /\ m + 1 \in s /\ \A i \in s : i \in Int /\ i <= m + 1
      BY <2>1, <2>2
    <2>4. Max(s) = m + 1
      <3>1. PICK x : x = Max(s)
        OBVIOUS
      <3>2. x \in s /\ \A i \in s : i <= x
        BY <2>3, <3>1, MaxIsLast
      <3>3. x \in Int /\ x <= m + 1 /\ m + 1 <= x
        BY <2>3, <3>2
      <3>. QED BY <3>1, <3>3
    <2>5. s \ {m + 1} = 1..m
      BY <2>2
    <2>6. g[s] = Place(g[1..m], order[m + 1])
      BY <1>5, <2>3, <2>4, <2>5
    <2>7. PICK cs, i, done : cs = g[1..m] /\ i = order[m + 1] /\ done = Done(m)
      OBVIOUS
    <2>8. ClustersOK(cs, done)
      BY <1>7, <2>1, <2>7
    <2>9. i \in Incident /\ i \notin done
      BY <1>2, <2>1, <2>7
    <2>10. ClustersOK(g[s], done \cup {i})
      BY <2>6, <2>7, <2>8, <2>9, PlaceKeeps
    <2>11. Done(m + 1) = done \cup {i}
      <3>1. 1..(m + 1) = (1..m) \cup {m + 1}
        OBVIOUS
      <3>2. \A k : k \in Done(m + 1) <=> \E j \in 1..(m + 1) : k = order[j]
        OBVIOUS
      <3>3. \A k : k \in done <=> \E j \in 1..m : k = order[j]
        BY <2>7
      <3>4. \A k : k \in Done(m + 1) <=> k \in done \/ k = i
        BY <2>7, <3>1, <3>2, <3>3
      <3>. QED BY <3>4
    <2>. QED BY <2>2, <2>10, <2>11
  <1>8. n \in T
    <2>. HIDE DEF T
    <2>. QED BY <1>6, <1>7, AllNaturals
  <1>9. ClustersOK(g[1..n], S)
    <2>1. ClustersOK(g[1..n], Done(n))
      BY <1>8
    <2>2. Done(n) = S
      BY <1>2
    <2>. HIDE DEF Done
    <2>. QED BY <2>1, <2>2
  <1>. QED BY <1>2, <1>3, <1>9, ClusterIs

(* The risks of a rebuild: places where enough events are, each event at    *)
(* one of them only.                                                        *)
GoodRisks(risks) ==
  /\ risks \subseteq SUBSET Incident
  /\ \A r \in risks : Cardinality(r) >= MinCluster
  /\ \A r, s \in risks : r = s \/ r \cap s = {}

LEMMA RisksGood ==
  ASSUME NEW S \in SUBSET Incident, NEW order \in Orders(S)
  PROVE  GoodRisks(Risks(order))
  <1>1. PICK cs : cs = Cluster(order)
    OBVIOUS
  <1>2. ClustersOK(cs, S)
    BY <1>1, ClustersGood
  <1>3. cs \in Seq(Seq(Incident))
    BY <1>2 DEF ClustersOK
  <1>4. ASSUME NEW r \in Risks(order)
        PROVE  \E a \in DOMAIN cs : r = ToSet(cs[a]) /\ Len(cs[a]) >= MinCluster
    <2>1. PICK c \in ToSet(cs) : Len(c) >= MinCluster /\ r = ToSet(c)
      BY <1>1, <1>4 DEF Risks
    <2>2. PICK a \in DOMAIN cs : c = cs[a]
      BY <2>1 DEF ToSet
    <2>. QED BY <2>1, <2>2
  <1>5. \A r \in Risks(order) : r \subseteq Incident /\ Cardinality(r) >= MinCluster
    BY <1>2, <1>4 DEF ClustersOK
  <1>6. ASSUME NEW r \in Risks(order), NEW s \in Risks(order)
        PROVE  r = s \/ r \cap s = {}
    <2>1. PICK a \in DOMAIN cs : r = ToSet(cs[a])
      BY <1>4
    <2>2. PICK b \in DOMAIN cs : s = ToSet(cs[b])
      BY <1>4
    <2>. QED BY <1>2, <2>1, <2>2 DEF ClustersOK
  <1>. QED BY <1>5, <1>6 DEF GoodRisks

-----------------------------------------------------------------------------
(* Rebuilds.  A rebuild that has chosen what to delete knows of every row   *)
(* it does not delete that its rebuild has committed since; rows are of     *)
(* rebuilds that have committed.                                            *)
RebuildCall ==
  [op : {"rebuild"}, risks : SUBSET SUBSET Incident, step : {"read", "deleted"},
   gone : SUBSET RiskRow, beside : SUBSET Nat]

(* A row that c deletes, or that was committed beside it.                   *)
SeenBy(c, r) == r \in c.gone \/ r.run \in c.beside

RebuildOK(c, rows) ==
  /\ c \in RebuildCall /\ GoodRisks(c.risks)
  /\ c.step = "deleted" => \A r \in rows : SeenBy(c, r)

OneRebuild(r, s) ==
  IF r.run = s.run THEN r = s \/ r.of \cap s.of = {}
  ELSE r.run \in s.beside \/ s.run \in r.beside

RowsFit(rows, last) ==
  /\ rows \subseteq RiskRow
  /\ \A r \in rows : r.run <= last /\ Cardinality(r.of) >= MinCluster
  /\ \A r, s \in rows : OneRebuild(r, s)

RiskOK ==
  /\ RiskTypeOK /\ RowsFit(risk, rebuilt)
  /\ \A p \in Process : Rebuilding(p) => RebuildOK(call[p], risk)

LEMMA RiskImplies ==
  ASSUME RiskOK
  PROVE  RisksOfOneRebuild
  BY DEF RiskOK, RowsFit, OneRebuild, RisksOfOneRebuild

LEMMA RiskStarts ==
  ASSUME RequestsInit, RiskInit
  PROVE  RiskOK
  BY DEF RequestsInit, RiskInit, Idle, RiskOK, RiskTypeOK, RowsFit, Verdict, Rebuilding

LEMMA RiskFrame ==
  ASSUME RiskOK, NEW own, Spares(own), "rebuild" \notin own, UNCHANGED riskVars
  PROVE  RiskOK'
  <1>1. \A q \in Process : call'[q].op = "rebuild" => call'[q] = call[q]
    BY DEF Spares
  <1>. QED BY <1>1 DEF RiskOK, RiskTypeOK, Rebuilding, riskVars

(* The rows that c inserts, as those of run n.                              *)
RowsOf(c, n) == {[run |-> n, of |-> events, beside |-> c.beside] : events \in c.risks}

LEMMA RowsInserted ==
  ASSUME NEW c, NEW rows, NEW last \in Nat, RowsFit(rows, last), RebuildOK(c, rows),
         c.step = "deleted"
  PROVE  RowsFit((rows \ c.gone) \cup RowsOf(c, last + 1), last + 1)
  <1>1. PICK new, old : new = RowsOf(c, last + 1) /\ old = rows \ c.gone
    OBVIOUS
  <1>2. c.risks \subseteq SUBSET Incident /\ c.beside \subseteq Nat
    BY DEF RebuildOK, RebuildCall
  <1>3. \A r \in new : /\ r.run = last + 1 /\ r.of \in c.risks /\ r.beside = c.beside
                       /\ r = [run |-> last + 1, of |-> r.of, beside |-> c.beside]
    BY <1>1 DEF RowsOf
  <1>4. new \subseteq RiskRow
    BY <1>2, <1>3 DEF RiskRow
  <1>5. \A r \in old : /\ r \in RiskRow /\ r.run \in Nat /\ r.run <= last
                       /\ Cardinality(r.of) >= MinCluster /\ r.run \in c.beside
    BY <1>1 DEF RowsFit, RebuildOK, SeenBy, RiskRow
  <1>6. \A r \in new : Cardinality(r.of) >= MinCluster
    BY <1>3 DEF RebuildOK, GoodRisks
  <1>7. \A r, s \in old : OneRebuild(r, s)
    BY <1>1 DEF RowsFit
  <1>8. ASSUME NEW r \in old, NEW s \in new
        PROVE  OneRebuild(r, s) /\ OneRebuild(s, r)
    <2>1. r.run # s.run /\ r.run \in s.beside
      BY <1>3, <1>5
    <2>. QED BY <2>1 DEF OneRebuild
  <1>9. ASSUME NEW r \in new, NEW s \in new
        PROVE  OneRebuild(r, s)
    <2>1. r.of = s.of \/ r.of \cap s.of = {}
      BY <1>3 DEF RebuildOK, GoodRisks
    <2>2. r.of = s.of => r = s
      BY <1>3
    <2>. QED BY <1>3, <2>1, <2>2 DEF OneRebuild
  <1>10. \A r \in old \cup new : /\ r \in RiskRow /\ r.run <= last + 1
                                 /\ Cardinality(r.of) >= MinCluster
    BY <1>3, <1>4, <1>5, <1>6
  <1>11. \A r, s \in old \cup new : OneRebuild(r, s)
    BY <1>7, <1>8, <1>9
  <1>. QED BY <1>1, <1>10, <1>11 DEF RowsFit

LEMMA CommitRebuildKept ==
  ASSUME Calls, RiskOK, NEW p \in Process, CommitRebuild(p)
  PROVE  RiskOK' /\ Calls' /\ Spares({"rebuild"})
  <1>1. PICK c, n : c = call[p] /\ n = rebuilt
    OBVIOUS
  <1>2. /\ c.op = "rebuild" /\ c.step = "deleted" /\ RebuildOK(c, risk) /\ n \in Nat
        /\ RowsFit(risk, n)
    BY <1>1 DEF CommitRebuild, Rebuilding, RiskOK, RiskTypeOK
  <1>3. rebuilt' = n + 1 /\ incident' = incident
    BY <1>1 DEF CommitRebuild
  <1>4. risk' = (risk \ c.gone) \cup RowsOf(c, n + 1)
    BY <1>1, <1>3 DEF CommitRebuild, RowsOf
  <1>5. RowsFit(risk', rebuilt')
    BY <1>2, <1>3, <1>4, RowsInserted
  <1>6. RiskTypeOK'
    BY <1>2, <1>3, <1>5 DEF RiskTypeOK, RowsFit, RiskOK
  <1>7. /\ Calls' /\ call'[p] = Idle
        /\ \A q \in Process : q # p =>
             call'[q] = IF call[q].op = "rebuild" /\ call[q].step = "deleted"
                          THEN [call[q] EXCEPT !.beside = @ \cup {n + 1}] ELSE call[q]
    BY <1>1, <1>3 DEF CommitRebuild, Rebuilding, Calls
  <1>8. ASSUME NEW q \in Process, q # p, call[q].op = "rebuild"
        PROVE  call'[q].op = "rebuild" /\ RebuildOK(call'[q], risk')
    <2>1. PICK d, e : d = call[q] /\ e = call'[q]
      OBVIOUS
    <2>2. d \in RebuildCall /\ GoodRisks(d.risks) /\ RebuildOK(d, risk)
      BY <1>8, <2>1 DEF RiskOK, Rebuilding, RebuildOK
    <2>3. CASE d.step = "deleted"
      <3>1. PICK b : b = d.beside \cup {n + 1}
        OBVIOUS
      <3>2. e = [d EXCEPT !.beside = b] /\ b \subseteq Nat
        BY <1>2, <1>7, <1>8, <2>1, <2>2, <2>3, <3>1 DEF RebuildCall
      <3>3. /\ e \in RebuildCall /\ e.op = "rebuild" /\ e.risks = d.risks /\ e.gone = d.gone
            /\ e.beside = b
        BY <2>2, <3>2 DEF RebuildCall
      <3>4. \A r \in risk : SeenBy(e, r)
        BY <2>2, <2>3, <3>1, <3>3 DEF RebuildOK, SeenBy
      <3>5. \A r \in RowsOf(c, n + 1) : SeenBy(e, r)
        BY <3>1, <3>3 DEF RowsOf, SeenBy
      <3>. QED BY <1>4, <2>1, <2>2, <3>3, <3>4, <3>5 DEF RebuildOK
    <2>4. CASE d.step # "deleted"
      BY <1>7, <1>8, <2>1, <2>2, <2>4 DEF RebuildOK
    <2>. QED BY <2>3, <2>4
  <1>9. \A q \in Process : q # p /\ call[q].op # "rebuild" => call'[q] = call[q]
    BY <1>7
  <1>10. Spares({"rebuild"})
    BY <1>1, <1>2, <1>7, <1>8, <1>9 DEF Spares, Idle
  <1>11. \A q \in Process : call'[q].op = "rebuild" => RebuildOK(call'[q], risk')
    BY <1>7, <1>8, <1>9 DEF Idle
  <1>. QED BY <1>5, <1>6, <1>7, <1>10, <1>11 DEF RiskOK, Rebuilding

(* One rebuild goes on, and the rows stay as they are.                      *)
LEMMA RebuildMoves ==
  ASSUME RiskOK, NEW p \in Process, Spares({"rebuild"}), UNCHANGED riskVars,
         \A q \in Process : q # p => call'[q] = call[q],
         call'[p].op = "rebuild" => RebuildOK(call'[p], risk)
  PROVE  RiskOK'
  <1>1. \A q \in Process : call'[q].op = "rebuild" => RebuildOK(call'[q], risk)
    BY DEF RiskOK, Rebuilding
  <1>. QED BY <1>1 DEF RiskOK, RiskTypeOK, Rebuilding, riskVars

LEMMA ReviewsKept ==
  ASSUME Calls, RiskOK, NEW i \in Incident,
         Happens(i) \/ \E verdict \in Verdict : Decided(i, verdict)
  PROVE  RiskOK' /\ Calls' /\ Spares({"rebuild"})
  <1>1. PICK verdict \in Verdict : incident' = [incident EXCEPT ![i] = verdict]
    BY DEF Happens, Decided, Verdict
  <1>2. UNCHANGED <<call, risk, rebuilt>>
    BY DEF Happens, Decided, AtOnce
  <1>3. incident' \in [Incident -> Verdict]
    BY <1>1 DEF RiskOK, RiskTypeOK
  <1>4. RiskOK'
    BY <1>2, <1>3 DEF RiskOK, RiskTypeOK, Rebuilding
  <1>. QED BY <1>2, <1>4, NoneMoved

LEMMA RebuildBegins ==
  ASSUME Calls, RiskOK, NEW p \in Process, RebuildForTenant(p)
  PROVE  RiskOK' /\ Calls' /\ Spares({"rebuild"})
  <1>1. PICK order \in Orders(Clustered) :
          Begin(p, "rebuild", [op |-> "rebuild", risks |-> Risks(order), step |-> "read",
                               gone |-> {}, beside |-> {}])
    BY DEF RebuildForTenant
  <1>2. PICK c : c = [op |-> "rebuild", risks |-> Risks(order), step |-> "read",
                      gone |-> {}, beside |-> {}]
    OBVIOUS
  <1>3. GoodRisks(Risks(order))
    BY RisksGood DEF Clustered
  <1>4. c \in RebuildCall /\ RebuildOK(c, risk)
    BY <1>2, <1>3 DEF RebuildCall, RebuildOK, GoodRisks
  <1>5. /\ Calls' /\ Spares({"rebuild"}) /\ call'[p] = c
        /\ \A q \in Process : q # p => call'[q] = call[q]
    BY <1>1, <1>2, Began
  <1>6. UNCHANGED riskVars
    BY DEF RebuildForTenant
  <1>. QED BY <1>4, <1>5, <1>6, RebuildMoves

LEMMA DeleteOldKept ==
  ASSUME Calls, RiskOK, NEW p \in Process, DeleteOld(p)
  PROVE  RiskOK' /\ Calls' /\ Spares({"rebuild"})
  <1>1. PICK c, d : c = call[p] /\ d = [c EXCEPT !.step = "deleted", !.gone = risk]
    OBVIOUS
  <1>2. c \in RebuildCall /\ GoodRisks(c.risks) /\ call[p].op = "rebuild" /\ risk \subseteq RiskRow
    BY <1>1 DEF DeleteOld, Rebuilding, RiskOK, RebuildOK, RiskTypeOK
  <1>3. d \in RebuildCall /\ d.op = "rebuild" /\ d.risks = c.risks /\ d.gone = risk
    BY <1>1, <1>2 DEF RebuildCall
  <1>4. RebuildOK(d, risk)
    BY <1>2, <1>3 DEF RebuildOK, SeenBy
  <1>5. Continue(p, d) /\ UNCHANGED riskVars
    BY <1>1 DEF DeleteOld
  <1>6. /\ Calls' /\ Spares({"rebuild"}) /\ call'[p] = d
        /\ \A q \in Process : q # p => call'[q] = call[q]
    BY <1>2, <1>3, <1>5, Continued
  <1>. QED BY <1>4, <1>5, <1>6, RebuildMoves

LEMMA RiskKept ==
  ASSUME Calls, RiskOK, RiskStep
  PROVE  RiskOK' /\ Calls' /\ Spares({"rebuild"})
  <1>1. ASSUME NEW p \in Process, AbortRebuild(p)
        PROVE  RiskOK' /\ Calls' /\ Spares({"rebuild"})
    <2>1. /\ Calls' /\ Spares({"rebuild"}) /\ call'[p].op = "idle"
          /\ \A q \in Process : q # p => call'[q] = call[q]
      BY <1>1, Returned DEF AbortRebuild, Rebuilding
    <2>. QED BY <1>1, <2>1, RebuildMoves DEF AbortRebuild
  <1>2. ASSUME NEW p \in Process,
               RebuildForTenant(p) \/ DeleteOld(p) \/ CommitRebuild(p) \/ AbortRebuild(p)
        PROVE  RiskOK' /\ Calls' /\ Spares({"rebuild"})
    BY <1>1, <1>2, RebuildBegins, DeleteOldKept, CommitRebuildKept
  <1>. QED BY <1>2, ReviewsKept DEF RiskStep

-----------------------------------------------------------------------------
(* The rate limiter.  Time t is in window t \div w of length w.             *)
LEMMA Division ==
  ASSUME NEW t \in Nat, NEW w \in Nat, w >= 1
  PROVE  \E d, r \in Nat : d = t \div w /\ r = t % w /\ r < w /\ w * d + r = t
  <1>1. t \div w \in Nat /\ t % w \in Nat /\ t % w < w
    OBVIOUS
  <1>2. t % w = t - w * (t \div w)
    OBVIOUS
  <1>3. PICK d, r \in Nat : d = t \div w /\ r = t % w
    BY <1>1
  <1>4. r = t - w * d
    BY <1>2, <1>3
  <1>. QED BY <1>1, <1>3, <1>4

LEMMA Times ==
  ASSUME NEW a \in Int, NEW b \in Int, NEW w \in Nat, a <= b
  PROVE  w * a <= w * b
  OBVIOUS

LEMMA Quotient ==
  ASSUME NEW t \in Nat, NEW w \in Nat, w >= 1, NEW q \in Nat, NEW r \in Nat,
         r < w, t = w * q + r
  PROVE  t \div w = q /\ t % w = r
  OBVIOUS

(* Windows follow one another in time.                                      *)
LEMMA Windows ==
  ASSUME NEW t \in Nat, NEW u \in Nat, NEW w \in Nat, w >= 1, t <= u
  PROVE  /\ t \div w <= u \div w
         /\ u - t < w => u \div w <= (t \div w) + 1
  <1>1. PICK d, r \in Nat : d = t \div w /\ r = t % w /\ r < w /\ w * d + r = t
    BY Division
  <1>2. PICK e, s \in Nat : e = u \div w /\ s = u % w /\ s < w /\ w * e + s = u
    BY Division
  <1>3. PICK x, y \in Int : x = w * d /\ y = w * e
    OBVIOUS
  <1>4. ~(e + 1 <= d)
    <2>1. SUFFICES ASSUME e + 1 <= d
                   PROVE  FALSE
      OBVIOUS
    <2>2. w * (e + 1) <= w * d /\ w * (e + 1) = w * e + w
      BY <2>1, Times
    <2>. QED BY <1>1, <1>2, <1>3, <2>2
  <1>5. u - t < w => ~(d + 2 <= e)
    <2>1. SUFFICES ASSUME u - t < w, d + 2 <= e
                   PROVE  FALSE
      OBVIOUS
    <2>2. w * (d + 2) <= w * e /\ w * (d + 2) = w * d + 2 * w
      BY <2>1, Times
    <2>. QED BY <1>1, <1>2, <1>3, <2>1, <2>2
  <1>. QED BY <1>1, <1>2, <1>4, <1>5

(* The instant after t is in the same window, or begins the next one.       *)
LEMMA NextInstant ==
  ASSUME NEW t \in Nat, NEW w \in Nat, w >= 1
  PROVE  \/ (t + 1) \div w = t \div w /\ (t + 1) % w = (t % w) + 1
         \/ (t + 1) \div w = (t \div w) + 1 /\ (t + 1) % w = 0
  <1>1. PICK d, r \in Nat : d = t \div w /\ r = t % w /\ r < w /\ w * d + r = t
    BY Division
  <1>2. CASE r + 1 < w
    <2>1. PICK u, s \in Nat : u = t + 1 /\ s = r + 1
      OBVIOUS
    <2>2. u = w * d + s /\ s < w
      BY <1>1, <1>2, <2>1
    <2>3. u \div w = d /\ u % w = s
      BY <2>2, Quotient
    <2>. QED BY <1>1, <2>1, <2>3
  <1>3. CASE r + 1 = w
    <2>1. PICK u, e \in Nat : u = t + 1 /\ e = d + 1
      OBVIOUS
    <2>2. w * e = w * d + w
      BY <2>1
    <2>3. u = w * e + 0
      BY <1>1, <1>3, <2>1, <2>2
    <2>4. u \div w = e /\ u % w = 0
      BY <2>3, Quotient
    <2>. QED BY <1>1, <2>1, <2>4
  <1>. QED BY <1>1, <1>2, <1>3

(* What the bound allows beyond the limit.                                  *)
LEMMA Share ==
  ASSUME NEW l \in Nat, NEW f \in Nat, NEW w \in Nat, w >= 1
  PROVE  /\ (l * f) \div w \in Nat
         /\ \A x \in Int : w * x <= w * l + l * f => x <= l + (l * f) \div w
         /\ (l * f) \div w <= (l * (f + 1)) \div w
  <1>1. l * f \in Nat /\ l * (f + 1) \in Nat /\ l * f <= l * (f + 1)
    BY Times
  <1>2. PICK m \in Nat : m = l * f
    BY <1>1
  <1>3. PICK d, r \in Nat : d = m \div w /\ r < w /\ w * d + r = m
    BY Division
  <1>4. ASSUME NEW x \in Int, w * x <= w * l + m
        PROVE  x <= l + d
    <2>1. SUFFICES ASSUME l + d + 1 <= x
                   PROVE  FALSE
      OBVIOUS
    <2>2. w * (l + d + 1) <= w * x /\ w * (l + d + 1) = w * l + w * d + w
      BY <2>1, Times
    <2>3. PICK a, b, c \in Int : a = w * l /\ b = w * d /\ c = w * x
      OBVIOUS
    <2>. QED BY <1>3, <1>4, <2>2, <2>3
  <1>5. (l * f) \div w <= (l * (f + 1)) \div w
    BY <1>1, Windows
  <1>. QED BY <1>2, <1>3, <1>4, <1>5

-----------------------------------------------------------------------------
(* What passes of a key.  The counters that decisions look at count at      *)
(* least the hits that passed, unless the key is excused.                   *)
InWindow(s, p, j) == Sum(p, {t \in Instant : WindowIndex(s, t) = j})

Bound(s, first, last) ==
  IF WindowIndex(s, first) = WindowIndex(s, last) THEN Limit[s]
  ELSE Limit[s] + (Limit[s] * (last % Window[s])) \div Window[s]

(* What hits that were counted late may add, in an interval over a boundary. *)
Grace(s, X, first, last) ==
  IF WindowIndex(s, first) = WindowIndex(s, last) THEN 0
  ELSE X[Previous(s, last)] + X[Current(s, last)]

Burst(s, p, X, last) ==
  \A first \in 0..last : last - first < Window[s] =>
    Sum(p, first..last) <= Bound(s, first, last) + Grace(s, X, first, last)

Bursts(s, p, X, n) == \A last \in 0..n : Burst(s, p, X, last)

Within(s, p) == \A j \in -1..MaxTime : InWindow(s, p, j) <= Limit[s]

(* Redis forgets a counter when nothing looks at it any more.               *)
Remembered ==
  backend = "redis" =>
    \A k \in Slot : counter[k] > 0 => expiry[k] > Window[k[1]] * (k[2] + 2)

CountersHold(s, c, p, n) ==
  \A j \in -1..MaxTime : j >= n - 1 => c[<<s, j>>] >= InWindow(s, p, j)

RateOK ==
  /\ RateTypeOK /\ Remembered
  /\ \A s \in Scope, t \in Instant : t > now => passed[s][t] = 0
  /\ \A s \in Scope \ excused : /\ CountersHold(s, counter, passed[s], WindowIndex(s, now))
                                /\ Within(s, passed[s])
                                /\ Bursts(s, passed[s], crossed, now)

LEMMA Instants ==
  ASSUME NEW s \in Scope, NEW t \in Instant
  PROVE  /\ Window[s] \in Nat /\ Window[s] >= 1 /\ Limit[s] \in Nat
         /\ t \in Nat /\ t <= MaxTime /\ MaxTime \in Nat
         /\ WindowIndex(s, t) \in Nat /\ WindowIndex(s, t) <= t
         /\ <<s, WindowIndex(s, t)>> \in Slot /\ <<s, WindowIndex(s, t) - 1>> \in Slot
         /\ WindowIndex(s, t) \in -1..MaxTime /\ WindowIndex(s, t) - 1 \in -1..MaxTime
  <1>1. Window[s] \in Nat /\ Window[s] >= 1 /\ Limit[s] \in Nat /\ t \in Nat /\ t <= MaxTime
        /\ MaxTime \in Nat
    BY RateLimitAssumption DEF Instant
  <1>2. PICK w \in Nat : w = Window[s] /\ w >= 1
    BY <1>1
  <1>3. PICK d, r \in Nat : d = t \div w /\ w * d + r = t
    <2>1. PICK u \in Nat : u = t
      BY <1>1
    <2>2. PICK d, r \in Nat : d = u \div w /\ r = u % w /\ r < w /\ w * d + r = u
      BY <1>2, Division
    <2>. QED BY <2>1, <2>2
  <1>4. d <= w * d
    BY <1>2, <1>3
  <1>5. d = WindowIndex(s, t) /\ d <= t
    BY <1>1, <1>2, <1>3, <1>4 DEF WindowIndex
  <1>. QED BY <1>1, <1>5 DEF Slot

LEMMA FiniteTimes ==
  /\ IsFiniteSet(Instant)
  /\ \A a, b \in Int : IsFiniteSet(a..b)
  /\ \A T \in SUBSET Instant : IsFiniteSet(T)
  <1>1. \A a, b \in Int : IsFiniteSet(a..b)
    BY FS_Interval
  <1>2. IsFiniteSet(Instant)
    BY <1>1, RateLimitAssumption DEF Instant
  <1>. QED BY <1>1, <1>2, FS_Subset

LEMMA WindowOrder ==
  ASSUME NEW s \in Scope, NEW t \in Instant, NEW u \in Instant, t <= u
  PROVE  /\ WindowIndex(s, t) <= WindowIndex(s, u)
         /\ u - t < Window[s] => WindowIndex(s, u) <= WindowIndex(s, t) + 1
  BY Instants, Windows DEF WindowIndex

(* An interval within a window.                                             *)
LEMMA WithinWindow ==
  ASSUME NEW s \in Scope, NEW p \in [Instant -> Nat], NEW first \in Instant,
         NEW last \in Instant, first <= last, WindowIndex(s, first) = WindowIndex(s, last)
  PROVE  /\ Sum(p, first..last) \in Nat /\ InWindow(s, p, WindowIndex(s, last)) \in Nat
         /\ Sum(p, first..last) <= InWindow(s, p, WindowIndex(s, last))
  <1>1. PICK T : T = {t \in Instant : WindowIndex(s, t) = WindowIndex(s, last)}
    OBVIOUS
  <1>2. ASSUME NEW t \in first..last
        PROVE  t \in T
    <2>1. t \in Instant /\ first <= t /\ t <= last
      BY RateLimitAssumption DEF Instant
    <2>2. /\ WindowIndex(s, first) <= WindowIndex(s, t)
          /\ WindowIndex(s, t) <= WindowIndex(s, last)
          /\ WindowIndex(s, t) \in Nat /\ WindowIndex(s, last) \in Nat
      BY <2>1, WindowOrder, Instants
    <2>. QED BY <1>1, <2>1, <2>2
  <1>3. T \in SUBSET Instant
    BY <1>1
  <1>4. IsFiniteSet(T) /\ first..last \in SUBSET T /\ \A x \in T : p[x] \in Nat
    BY <1>2, <1>3, FiniteTimes
  <1>5. Sum(p, first..last) \in Nat /\ Sum(p, T) \in Nat /\ Sum(p, first..last) <= Sum(p, T)
    BY <1>4, SumPart
  <1>. QED BY <1>1, <1>5 DEF InWindow

(* The share of the window before weighs what it can still contribute.      *)
LEMMA Weighs ==
  ASSUME NEW a \in Nat, NEW b \in Nat, NEW c \in Nat, NEW d \in Nat, NEW l \in Nat,
         NEW f \in Nat, NEW w \in Nat, f < w, a <= c, b <= d, b <= l,
         c * w + d * (w - f) <= l * w
  PROVE  a + b <= l + (l * f) \div w /\ c <= l
  <1>1. PICK g \in Nat : g = w - f
    OBVIOUS
  <1>2. PICK m \in Nat : m = d * g
    OBVIOUS
  <1>3. c * w + m <= l * w
    BY <1>1, <1>2
  <1>4. c <= l
    <2>1. SUFFICES ASSUME l + 1 <= c
                   PROVE  FALSE
      BY <1>1
    <2>2. w * (l + 1) <= w * c /\ w * (l + 1) = w * l + w
      BY <2>1, Times
    <2>. QED BY <1>3, <2>2
  <1>5. PICK x \in Int : x = a + b
    OBVIOUS
  <1>6. w * x = w * a + f * b + g * b
    <2>1. w = f + g
      BY <1>1
    <2>2. w * x = w * a + w * b
      BY <1>5
    <2>3. w * b = f * b + g * b
      BY <2>1
    <2>. QED BY <2>2, <2>3
  <1>7. w * a <= w * c /\ g * b <= g * d /\ f * b <= f * l
    BY Times
  <1>8. w * x <= w * l + l * f
    <2>1. g * d = m /\ f * l = l * f /\ c * w = w * c /\ l * w = w * l
      BY <1>2
    <2>2. PICK y1, y2, y3, y4, y5, y6 \in Int :
            y1 = w * a /\ y2 = f * b /\ y3 = g * b /\ y4 = w * c /\ y5 = l * f /\ y6 = w * l
      OBVIOUS
    <2>3. y1 <= y4 /\ y3 <= m /\ y2 <= y5 /\ y4 + m <= y6
      BY <1>3, <1>7, <2>1, <2>2
    <2>4. w * x = y1 + y2 + y3
      BY <1>6, <2>2
    <2>. QED BY <2>2, <2>3, <2>4
  <1>9. x <= l + (l * f) \div w
    BY <1>1, <1>8, Share
  <1>. QED BY <1>4, <1>5, <1>9

(* The instants before the window of n.                                     *)
LEMMA WindowBegins ==
  ASSUME NEW s \in Scope, NEW first \in Instant, NEW n \in Instant, first <= n,
         n - first < Window[s], WindowIndex(s, first) # WindowIndex(s, n)
  PROVE  \E m \in Instant :
           /\ first <= m /\ m + 1 <= n /\ m + 1 \in Instant /\ m - first < Window[s]
           /\ WindowIndex(s, m) = WindowIndex(s, first)
           /\ WindowIndex(s, m) = WindowIndex(s, n) - 1
           /\ WindowIndex(s, m + 1) = WindowIndex(s, n)
  <1>1. PICK w, t, k, i, j \in Nat : w = Window[s] /\ t = n /\ k = first /\ w >= 1
          /\ i = WindowIndex(s, first) /\ j = WindowIndex(s, n)
    BY Instants
  <1>2. i = j - 1 /\ j - 1 \in Nat
    BY <1>1, WindowOrder
  <1>3. PICK f \in Nat : f < w /\ w * j + f = t
    <2>1. t \in Nat /\ w \in Nat /\ w >= 1
      BY <1>1
    <2>2. PICK q, f \in Nat : q = t \div w /\ f = t % w /\ f < w /\ w * q + f = t
      BY ONLY <2>1, Division
    <2>3. q = j
      BY <1>1, <2>2 DEF WindowIndex
    <2>. QED BY <2>2, <2>3
  <1>4. PICK q \in Nat : q = j - 1
    BY <1>2
  <1>5. w * j = w * q + w
    <2>1. j = q + 1
      BY <1>4
    <2>. QED BY <2>1
  <1>6. PICK b, r, z \in Nat : b = w * q + r /\ r = w - 1 /\ z = w * j + 0
    <2>1. w - 1 \in Nat
      BY <1>1
    <2>. QED BY <2>1
  <1>7. z = b + 1 /\ z <= t
    BY <1>3, <1>5, <1>6
  <1>8. b \div w = q /\ z \div w = j
    <2>1. w \in Nat /\ w >= 1 /\ q \in Nat /\ j \in Nat /\ b \in Nat /\ z \in Nat
      BY <1>1, <1>4, <1>6
    <2>2. r \in Nat /\ r < w /\ b = w * q + r
      BY <1>1, <1>6
    <2>3. 0 \in Nat /\ 0 < w /\ z = w * j + 0
      BY <1>1, <1>6
    <2>4. b \div w = q
      BY ONLY <2>1, <2>2, Quotient
    <2>5. z \div w = j
      BY ONLY <2>1, <2>3, Quotient
    <2>. QED BY <2>4, <2>5
  <1>9. b \in Instant /\ z \in Instant
    BY <1>1, <1>7, RateLimitAssumption DEF Instant
  <1>10. WindowIndex(s, b) = q /\ WindowIndex(s, z) = j
    BY <1>1, <1>8 DEF WindowIndex
  <1>11. ~(z <= k)
    <2>1. SUFFICES ASSUME z <= k
                   PROVE  FALSE
      OBVIOUS
    <2>2. WindowIndex(s, z) <= WindowIndex(s, first)
      BY <1>1, <1>9, <2>1, WindowOrder
    <2>. QED BY <1>1, <1>2, <1>10, <2>2
  <1>12. k <= b /\ b - k < w
    BY <1>1, <1>7, <1>11
  <1>13. b + 1 = z
    BY <1>7
  <1>. QED BY <1>1, <1>2, <1>4, <1>7, <1>9, <1>10, <1>12, <1>13

BoundParts(s, first, last, l, f, w) ==
  /\ l = Limit[s] /\ w = Window[s] /\ w >= 1 /\ f = last % Window[s]
  /\ (l * f) \div w \in Nat
  /\ Bound(s, first, last) =
       IF WindowIndex(s, first) = WindowIndex(s, last) THEN l ELSE l + (l * f) \div w

LEMMA BoundIs ==
  ASSUME NEW s \in Scope, NEW first \in Instant, NEW last \in Instant
  PROVE  \E l, f, w \in Nat : BoundParts(s, first, last, l, f, w)
  <1>1. PICK w, t, l \in Nat : w = Window[s] /\ t = last /\ l = Limit[s] /\ w >= 1
    BY Instants
  <1>2. PICK f \in Nat : f = t % w
    BY <1>1, Division
  <1>3. (l * f) \div w \in Nat
    BY <1>1, Share
  <1>4. BoundParts(s, first, last, l, f, w)
    BY <1>1, <1>2, <1>3 DEF BoundParts, Bound
  <1>. QED BY <1>1, <1>2, <1>4

LEMMA GraceIs ==
  ASSUME NEW s \in Scope, NEW X \in [Slot -> Nat], NEW first \in Instant, NEW last \in Instant
  PROVE  /\ Grace(s, X, first, last) \in Nat
         /\ X[<<s, WindowIndex(s, last)>>] \in Nat /\ X[<<s, WindowIndex(s, last) - 1>>] \in Nat
         /\ WindowIndex(s, first) = WindowIndex(s, last) => Grace(s, X, first, last) = 0
         /\ WindowIndex(s, first) # WindowIndex(s, last) =>
              Grace(s, X, first, last)
                = X[<<s, WindowIndex(s, last) - 1>>] + X[<<s, WindowIndex(s, last)>>]
  <1>1. X[<<s, WindowIndex(s, last)>>] \in Nat /\ X[<<s, WindowIndex(s, last) - 1>>] \in Nat
    BY Instants
  <1>. QED BY <1>1 DEF Grace, Current, Previous

(* Later in a window more of it has run.                                    *)
LEMMA LaterInWindow ==
  ASSUME NEW t \in Nat, NEW u \in Nat, NEW w \in Nat, w >= 1, t <= u, t \div w = u \div w
  PROVE  t % w <= u % w
  <1>1. PICK d, r \in Nat : d = t \div w /\ r = t % w /\ r < w /\ w * d + r = t
    BY Division
  <1>2. PICK e, z \in Nat : e = u \div w /\ z = u % w /\ z < w /\ w * e + z = u
    BY Division
  <1>3. PICK x \in Nat : x = w * d /\ x = w * e
    BY <1>1, <1>2
  <1>. QED BY <1>1, <1>2, <1>3

(* A hit of instant n that passes in time keeps the bound.                  *)
LEMMA BurstAt ==
  ASSUME NEW s \in Scope, NEW p \in [Instant -> Nat], NEW n \in Instant, NEW last \in Instant,
         n <= last, WindowIndex(s, n) = WindowIndex(s, last), NEW c \in Nat, NEW d \in Nat,
         c >= InWindow(s, p, WindowIndex(s, n)), d >= InWindow(s, p, WindowIndex(s, n) - 1),
         c * Window[s] + d * (Window[s] - (n % Window[s])) <= Limit[s] * Window[s],
         InWindow(s, p, WindowIndex(s, n) - 1) <= Limit[s],
         NEW first \in Instant, first <= last, last - first < Window[s]
  PROVE  Sum(p, first..last) <= Bound(s, first, last)
  <1>0. PICK l, f, w \in Nat : BoundParts(s, first, last, l, f, w)
    BY BoundIs
  <1>1. /\ l = Limit[s] /\ w = Window[s] /\ w >= 1 /\ f = last % Window[s]
        /\ (l * f) \div w \in Nat
        /\ Bound(s, first, last) =
             IF WindowIndex(s, first) = WindowIndex(s, last) THEN l ELSE l + (l * f) \div w
    BY <1>0 DEF BoundParts
  <1>2. PICK e \in Nat : e = n % w /\ e <= f /\ f < w
    <2>1. PICK t, u \in Nat : t = n /\ u = last
      BY Instants
    <2>2. t <= u /\ t \div w = u \div w
      BY <1>1, <2>1 DEF WindowIndex
    <2>3. t % w <= u % w
      BY ONLY <1>1, <2>1, <2>2, w \in Nat, LaterInWindow
    <2>4. PICK g, r \in Nat : r = u % w /\ r < w
      BY <1>1, <2>1, Division
    <2>5. PICK h, z \in Nat : z = t % w /\ z < w
      BY <1>1, <2>1, Division
    <2>. QED BY <1>1, <2>1, <2>3, <2>4, <2>5
  <1>3. c * w + d * (w - f) <= l * w
    <2>1. PICK x, y \in Int : x = w - f /\ y = w - e /\ x <= y
      BY <1>2
    <2>2. d * x <= d * y
      BY <2>1, Times
    <2>3. PICK a, b, g \in Int : a = c * w /\ b = d * x /\ g = d * y
      BY <2>1
    <2>4. a + g <= l * w
      BY <1>1, <1>2, <2>1, <2>3
    <2>5. PICK h \in Int : h = l * w
      OBVIOUS
    <2>6. a + b <= h
      BY <2>2, <2>3, <2>4, <2>5
    <2>. QED BY <2>1, <2>3, <2>5, <2>6
  <1>4. c <= l
    <2>1. 0 + 0 <= l + (l * f) \div w /\ c <= l
      BY <1>2, <1>3, Weighs
    <2>. QED BY <2>1
  <1>5. CASE WindowIndex(s, first) = WindowIndex(s, last)
    <2>1. /\ Sum(p, first..last) \in Nat /\ InWindow(s, p, WindowIndex(s, n)) \in Nat
          /\ Sum(p, first..last) <= InWindow(s, p, WindowIndex(s, n))
      BY <1>5, WithinWindow
    <2>. QED BY <1>1, <1>4, <1>5, <2>1
  <1>6. CASE WindowIndex(s, first) # WindowIndex(s, last)
    <2>1. PICK m \in Instant :
            /\ first <= m /\ m + 1 <= last /\ m + 1 \in Instant /\ m - first < Window[s]
            /\ WindowIndex(s, m) = WindowIndex(s, first)
            /\ WindowIndex(s, m) = WindowIndex(s, n) - 1
            /\ WindowIndex(s, m + 1) = WindowIndex(s, n)
      BY <1>6, WindowBegins
    <2>2. first \in Nat /\ m \in Nat /\ last \in Nat
      BY Instants
    <2>3. PICK u \in Instant : u = m + 1
      BY <2>1
    <2>4. PICK A, B : A = first..m /\ B = u..last
      OBVIOUS
    <2>5. /\ first..last = A \cup B /\ A \cap B = {}
      BY <2>1, <2>2, <2>3, <2>4
    <2>6. /\ Sum(p, A) \in Nat /\ InWindow(s, p, WindowIndex(s, m)) \in Nat
          /\ Sum(p, A) <= InWindow(s, p, WindowIndex(s, m))
      BY <2>1, <2>4, WithinWindow
    <2>7. /\ Sum(p, B) \in Nat /\ InWindow(s, p, WindowIndex(s, n)) \in Nat
          /\ Sum(p, B) <= InWindow(s, p, WindowIndex(s, n))
      BY <2>1, <2>3, <2>4, WithinWindow
    <2>8. Sum(p, A) <= l
      BY <1>1, <2>1, <2>6
    <2>9. A \subseteq Instant /\ B \subseteq Instant
      <3>1. MaxTime \in Nat /\ m <= MaxTime /\ last <= MaxTime /\ u \in Nat
        BY <2>2, <2>3, Instants
      <3>2. first..m \subseteq 0..MaxTime /\ u..last \subseteq 0..MaxTime
        BY <2>2, <3>1
      <3>. QED BY <2>4, <3>2 DEF Instant
    <2>10. IsFiniteSet(A) /\ IsFiniteSet(B) /\ \A x \in A \cup B : p[x] \in Nat
      BY <2>9, FiniteTimes
    <2>11. Sum(p, A \cup B) = Sum(p, A) + Sum(p, B)
      BY <2>5, <2>10, SumUnion
    <2>12. PICK a, b \in Nat : a = Sum(p, B) /\ b = Sum(p, A) /\ a <= c /\ b <= d /\ b <= l
      BY <2>1, <2>6, <2>7, <2>8
    <2>13. a + b <= l + (l * f) \div w
      BY <1>2, <1>3, <2>12, Weighs
    <2>14. Sum(p, first..last) = a + b
      <3>1. PICK z : z = Sum(p, first..last)
        OBVIOUS
      <3>2. z = b + a
        BY <2>5, <2>11, <2>12, <3>1
      <3>. QED BY <3>1, <3>2
    <2>. QED BY <1>1, <1>6, <2>13, <2>14
  <1>. QED BY <1>5, <1>6

(* An instant at which nothing has passed yet keeps it.                     *)
LEMMA BurstLater ==
  ASSUME NEW s \in Scope, NEW p \in [Instant -> Nat], NEW n \in Instant, NEW u \in Instant,
         NEW X \in [Slot -> Nat], u = n + 1, p[u] = 0, Burst(s, p, X, n),
         NEW first \in Instant, first <= u, u - first < Window[s]
  PROVE  Sum(p, first..u) <= Bound(s, first, u) + Grace(s, X, first, u)
  <1>0. PICK l, f, w \in Nat : BoundParts(s, first, u, l, f, w)
    BY BoundIs
  <1>1. /\ l = Limit[s] /\ w = Window[s] /\ w >= 1 /\ f = u % Window[s]
        /\ (l * f) \div w \in Nat
        /\ Bound(s, first, u) =
             IF WindowIndex(s, first) = WindowIndex(s, u) THEN l ELSE l + (l * f) \div w
    BY <1>0 DEF BoundParts
  <1>2. n \in Nat /\ first \in Nat
    BY Instants
  <1>3. CASE first = u
    <2>1. first..u = {u}
      BY <1>2, <1>3
    <2>2. IsFiniteSet({u}) /\ \A x \in {u} : p[x] = 0
      BY FS_Singleton
    <2>3. Sum(p, {u}) = 0
      BY <2>2, SumZero
    <2>4. Grace(s, X, first, u) \in Nat
      BY GraceIs
    <2>. QED BY <1>1, <1>3, <2>1, <2>3, <2>4
  <1>4. CASE first # u
    <2>1. first \in 0..n /\ n - first < Window[s]
      BY <1>1, <1>2, <1>4
    <2>2. PICK A, B : A = first..n /\ B = first..u
      OBVIOUS
    <2>3. B \ {u} = A /\ u \in B
      BY <1>2, <1>4, <2>2
    <2>4. B \subseteq Instant /\ A \subseteq Instant
      BY <1>2, <2>2, RateLimitAssumption DEF Instant
    <2>5. IsFiniteSet(B) /\ (\A x \in B : p[x] \in Nat)
      BY <2>4, FiniteTimes
    <2>6. IsFiniteSet(A) /\ (\A x \in A : p[x] \in Nat)
      BY <2>4, FiniteTimes
    <2>7. Sum(p, B) = p[u] + Sum(p, A)
      <3>1. Sum(p, B) = p[u] + Sum(p, B \ {u})
        BY ONLY <2>3, <2>5, SumTakesOut
      <3>. QED BY <2>3, <3>1
    <2>8. Sum(p, A) \in Nat
      BY <2>6, SumType
    <2>9. Sum(p, B) = Sum(p, A)
      BY <2>7, <2>8
    <2>10. Sum(p, A) <= Bound(s, first, n) + Grace(s, X, first, n)
      BY <2>1, <2>2 DEF Burst
    <2>0. PICK k, e, v \in Nat : BoundParts(s, first, n, k, e, v)
      BY BoundIs
    <2>11. /\ k = Limit[s] /\ v = Window[s] /\ v >= 1 /\ e = n % Window[s]
           /\ (k * e) \div v \in Nat
           /\ Bound(s, first, n) =
                IF WindowIndex(s, first) = WindowIndex(s, n) THEN k ELSE k + (k * e) \div v
      BY <2>0 DEF BoundParts
    <2>12. PICK h, i, j, a, b \in Nat : /\ h = Sum(p, A) /\ i = Bound(s, first, n)
                                        /\ j = Bound(s, first, u)
                                        /\ a = Grace(s, X, first, n)
                                        /\ b = Grace(s, X, first, u)
      <3>1. Bound(s, first, n) \in Nat /\ Bound(s, first, u) \in Nat
        BY <1>1, <2>11
      <3>. QED BY <2>8, <3>1, GraceIs
    <2>13. i <= j /\ a <= b =>
             Sum(p, first..u) <= Bound(s, first, u) + Grace(s, X, first, u)
      <3>1. h <= i + a /\ Sum(p, first..u) = h
        BY <2>2, <2>9, <2>10, <2>12
      <3>. QED BY <2>12, <3>1
    <2>14. CASE WindowIndex(s, first) = WindowIndex(s, n)
      <3>1. i = l /\ l <= l + (l * f) \div w
        BY <1>1, <2>11, <2>12, <2>14
      <3>2. i <= j
        BY <1>1, <2>12, <3>1
      <3>3. a = 0
        BY <2>12, <2>14, GraceIs
      <3>. QED BY <2>12, <2>13, <3>2, <3>3
    <2>15. CASE WindowIndex(s, first) # WindowIndex(s, n)
      <3>1. PICK x, y, z \in Nat : /\ x = WindowIndex(s, first) /\ y = WindowIndex(s, n)
                                   /\ z = WindowIndex(s, u)
        BY Instants
      <3>2. x <= y /\ y <= z /\ z <= x + 1
        BY <1>2, <2>1, <3>1, WindowOrder
      <3>3. y = z /\ x # z
        BY <2>15, <3>1, <3>2
      <3>4. \/ (n + 1) \div w = n \div w /\ (n + 1) % w = (n % w) + 1
            \/ (n + 1) \div w = (n \div w) + 1 /\ (n + 1) % w = 0
        <4>1. n \in Nat /\ w \in Nat /\ w >= 1
          BY <1>1, <1>2
        <4>. QED BY ONLY <4>1, NextInstant
      <3>5. (n + 1) \div w = z /\ n \div w = y
        BY <1>1, <3>1 DEF WindowIndex
      <3>6. f = e + 1
        BY <1>1, <2>11, <3>1, <3>3, <3>4, <3>5
      <3>7. (l * e) \div w <= (l * (e + 1)) \div w
        BY <1>1, Share
      <3>8. i = l + (l * e) \div w /\ j = l + (l * f) \div w
        BY <1>1, <2>11, <2>12, <2>15, <3>1, <3>3
      <3>9. i <= j
        BY <1>1, <2>11, <3>6, <3>7, <3>8
      <3>10. a = b
        <4>1. WindowIndex(s, n) = WindowIndex(s, u)
          BY <3>1, <3>3
        <4>. QED BY <2>12, <4>1 DEF Grace, Current, Previous
      <3>. QED BY <2>12, <2>13, <3>9, <3>10
    <2>. QED BY <2>14, <2>15
  <1>. QED BY <1>3, <1>4

LEMMA InWindowType ==
  ASSUME NEW s \in Scope, NEW p \in [Instant -> Nat], NEW j
  PROVE  InWindow(s, p, j) \in Nat
  <1>1. PICK T : T = {t \in Instant : WindowIndex(s, t) = j}
    OBVIOUS
  <1>2. T \in SUBSET Instant
    BY <1>1
  <1>3. IsFiniteSet(T) /\ (\A x \in T : p[x] \in Nat)
    BY <1>2, FiniteTimes
  <1>4. Sum(p, T) \in Nat
    BY <1>3, SumType
  <1>. QED BY <1>1, <1>4 DEF InWindow

(* Every hit is counted, in the window a that it has read.                  *)
Adds(s, c, e, a, n) ==
  \A j \in -1..MaxTime :
    j >= n - 1 => e[<<s, j>>] = IF j = a THEN c[<<s, j>>] + 1 ELSE c[<<s, j>>]

Keeps(s, c, e, n) ==
  \A j \in -1..MaxTime : j >= n - 1 => e[<<s, j>>] = c[<<s, j>>]

(* One hit more at instant t is one more in its window.                     *)
LEMMA InWindowGrows ==
  ASSUME NEW s \in Scope, NEW p \in [Instant -> Nat], NEW t \in Instant,
         NEW q, OneMore(q, p, t), NEW j
  PROVE  InWindow(s, q, j) = IF j = WindowIndex(s, t) THEN InWindow(s, p, j) + 1
                             ELSE InWindow(s, p, j)
  <1>1. PICK T : T = {u \in Instant : WindowIndex(s, u) = j}
    OBVIOUS
  <1>2. T \in SUBSET Instant
    BY <1>1
  <1>3. IsFiniteSet(T) /\ T \subseteq Instant
    BY <1>2, FiniteTimes
  <1>4. /\ t \in T => Sum(q, T) = Sum(p, T) + 1
        /\ t \notin T => Sum(q, T) = Sum(p, T)
    <2>1. PICK D : D = Instant
      OBVIOUS
    <2>2. T \subseteq D /\ p \in [D -> Nat] /\ t \in D
      BY <1>3, <2>1
    <2>. QED BY <1>3, <2>2, SumGrows
  <1>5. t \in T <=> j = WindowIndex(s, t)
    BY <1>1
  <1>6. InWindow(s, p, j) = Sum(p, T) /\ InWindow(s, q, j) = Sum(q, T)
    BY <1>1 DEF InWindow
  <1>. QED BY <1>4, <1>5, <1>6

LEMMA CountedAdds ==
  ASSUME NEW s \in Scope, NEW p \in [Instant -> Nat], NEW t \in Instant, NEW n \in Nat,
         NEW c \in [Slot -> Nat], NEW e \in [Slot -> Nat],
         CountersHold(s, c, p, n), Adds(s, c, e, WindowIndex(s, t), n),
         NEW q, OneMore(q, p, t)
  PROVE  CountersHold(s, e, p, n) /\ CountersHold(s, e, q, n)
  <1>1. PICK k \in Nat : k = WindowIndex(s, t)
    BY Instants
  <1>2. ASSUME NEW j \in -1..MaxTime, j >= n - 1
        PROVE  e[<<s, j>>] >= InWindow(s, p, j) /\ e[<<s, j>>] >= InWindow(s, q, j)
    <2>1. <<s, j>> \in Slot
      BY DEF Slot
    <2>2. PICK x, y, z \in Nat : x = c[<<s, j>>] /\ y = e[<<s, j>>] /\ z = InWindow(s, p, j)
      BY <2>1, InWindowType
    <2>3. x >= z
      BY <1>2, <2>2 DEF CountersHold
    <2>4. y = IF j = k THEN x + 1 ELSE x
      BY <1>1, <1>2, <2>2 DEF Adds
    <2>5. InWindow(s, q, j) = IF j = k THEN z + 1 ELSE z
      BY <1>1, <2>2, InWindowGrows
    <2>6. y >= z /\ y >= IF j = k THEN z + 1 ELSE z
      BY <2>3, <2>4
    <2>. QED BY <2>2, <2>5, <2>6
  <1>. QED BY <1>2 DEF CountersHold

LEMMA CountedKeeps ==
  ASSUME NEW s \in Scope, NEW p, NEW n, NEW c, NEW e, CountersHold(s, c, p, n), Keeps(s, c, e, n)
  PROVE  CountersHold(s, e, p, n)
  BY DEF CountersHold, Keeps

(* The decision on a hit of instant t, after it is counted.                 *)
Allowed(s, t, e) ==
  e[<<s, WindowIndex(s, t)>>] * Window[s]
    + e[<<s, WindowIndex(s, t) - 1>>] * (Window[s] - (t % Window[s]))
    <= Limit[s] * Window[s]

(* No decision lets a window have more than the limit.                      *)
LEMMA WithinPasses ==
  ASSUME NEW s \in Scope, NEW p \in [Instant -> Nat], Within(s, p), NEW t \in Instant,
         NEW e \in [Slot -> Nat], Allowed(s, t, e), NEW q, OneMore(q, p, t),
         e[<<s, WindowIndex(s, t)>>] >= InWindow(s, q, WindowIndex(s, t))
  PROVE  Within(s, q)
  <1>1. PICK k \in Nat : k = WindowIndex(s, t)
    BY Instants
  <1>2. PICK c, d \in Nat : c = e[<<s, k>>] /\ d = e[<<s, k - 1>>]
    BY <1>1, Instants
  <1>3. PICK l, f, w \in Nat : BoundParts(s, t, t, l, f, w)
    BY BoundIs
  <1>4. l = Limit[s] /\ w = Window[s] /\ w >= 1 /\ f = t % w
    BY <1>3 DEF BoundParts
  <1>5. f < w
    <2>1. PICK u \in Nat : u = t
      BY Instants
    <2>2. PICK g, r \in Nat : r = u % w /\ r < w
      BY <1>4, Division
    <2>. QED BY <1>4, <2>1, <2>2
  <1>6. c * w + d * (w - f) <= l * w
    BY <1>1, <1>2, <1>4 DEF Allowed
  <1>7. c <= l
    <2>1. 0 \in Nat /\ 0 <= c /\ 0 <= d /\ 0 <= l
      OBVIOUS
    <2>. QED BY ONLY <1>5, <1>6, <2>1, c \in Nat, d \in Nat, l \in Nat, f \in Nat, w \in Nat,
             Weighs
  <1>8. ASSUME NEW j \in -1..MaxTime
        PROVE  InWindow(s, q, j) <= Limit[s]
    <2>1. CASE j = k
      <3>1. InWindow(s, q, j) \in Nat
        <4>1. q \in [Instant -> Nat]
          BY DEF OneMore
        <4>. QED BY <4>1, InWindowType
      <3>. QED BY <1>1, <1>2, <1>4, <1>7, <2>1, <3>1
    <2>2. CASE j # k
      BY <1>1, <2>2, InWindowGrows DEF Within
    <2>. QED BY <2>1, <2>2
  <1>. QED BY <1>8 DEF Within

(* An interval without t has as many hits as before.                        *)
LEMMA SumElsewhere ==
  ASSUME NEW p \in [Instant -> Nat], NEW t \in Instant, NEW q, OneMore(q, p, t),
         NEW first \in Instant, NEW last \in Instant
  PROVE  /\ Sum(p, first..last) \in Nat /\ Sum(q, first..last) \in Nat
         /\ Sum(q, first..last)
              = IF t \in first..last THEN Sum(p, first..last) + 1 ELSE Sum(p, first..last)
  <1>1. PICK T : T = first..last
    OBVIOUS
  <1>2. T \subseteq Instant
    BY <1>1, RateLimitAssumption DEF Instant
  <1>3. IsFiniteSet(T) /\ \A x \in T : p[x] \in Nat
    BY <1>2, FiniteTimes
  <1>4. PICK D : D = Instant
    OBVIOUS
  <1>5. T \subseteq D /\ p \in [D -> Nat] /\ t \in D
    BY <1>2, <1>4
  <1>6. /\ t \in T => Sum(q, T) = Sum(p, T) + 1
        /\ t \notin T => Sum(q, T) = Sum(p, T)
    BY <1>3, <1>5, SumGrows
  <1>7. Sum(p, T) \in Nat
    BY <1>3, SumType
  <1>. QED BY <1>1, <1>6, <1>7

(* A hit that is allowed before its window has ended.                       *)
LEMMA BurstPasses ==
  ASSUME NEW s \in Scope, NEW p \in [Instant -> Nat], NEW n \in Instant, NEW t \in Instant,
         t <= n, WindowIndex(s, t) = WindowIndex(s, n), NEW X \in [Slot -> Nat],
         Bursts(s, p, X, n), NEW e \in [Slot -> Nat], NEW q, OneMore(q, p, t),
         CountersHold(s, e, q, WindowIndex(s, n)), Within(s, q), Allowed(s, t, e)
  PROVE  Bursts(s, q, X, n)
  <1>1. q \in [Instant -> Nat]
    BY DEF OneMore
  <1>2. n \in Nat /\ n <= MaxTime /\ MaxTime \in Nat /\ t \in Nat
    BY Instants
  <1>3. PICK c, d \in Nat : /\ c = e[<<s, WindowIndex(s, t)>>]
                            /\ d = e[<<s, WindowIndex(s, t) - 1>>]
    BY Instants
  <1>4. PICK k \in Nat : k = WindowIndex(s, t) /\ k \in -1..MaxTime /\ k - 1 \in -1..MaxTime
    BY Instants
  <1>5. /\ c >= InWindow(s, q, WindowIndex(s, t)) /\ d >= InWindow(s, q, WindowIndex(s, t) - 1)
        /\ InWindow(s, q, WindowIndex(s, t) - 1) <= Limit[s]
    <2>1. k >= k - 1 /\ k - 1 >= k - 1
      OBVIOUS
    <2>. QED BY <1>3, <1>4, <2>1 DEF CountersHold, Within
  <1>6. c * Window[s] + d * (Window[s] - (t % Window[s])) <= Limit[s] * Window[s]
    BY <1>3 DEF Allowed
  <1>7. ASSUME NEW last \in 0..n, NEW first \in 0..last, last - first < Window[s]
        PROVE  Sum(q, first..last) <= Bound(s, first, last) + Grace(s, X, first, last)
    <2>1. first \in Instant /\ last \in Instant /\ first <= last /\ last \in Nat
      BY <1>2 DEF Instant
    <2>2. CASE last < t
      <3>1. t \notin first..last
        BY <1>2, <2>1, <2>2
      <3>2. Sum(q, first..last) = Sum(p, first..last)
        BY <2>1, <3>1, SumElsewhere
      <3>. QED BY <1>7, <3>2 DEF Bursts, Burst
    <2>3. CASE t <= last
      <3>1. WindowIndex(s, t) = WindowIndex(s, last)
        <4>1. PICK x, y, z \in Nat : /\ x = WindowIndex(s, t) /\ y = WindowIndex(s, last)
                                     /\ z = WindowIndex(s, n)
          BY <2>1, Instants
        <4>2. x <= y /\ y <= z /\ x = z
          BY <1>7, <2>1, <2>3, <4>1, WindowOrder
        <4>. QED BY <4>1, <4>2
      <3>2. Sum(q, first..last) <= Bound(s, first, last)
        BY <1>1, <1>5, <1>6, <1>7, <2>1, <2>3, <3>1, BurstAt
      <3>3. PICK l, f, w \in Nat : BoundParts(s, first, last, l, f, w)
        BY <2>1, BoundIs
      <3>4. Bound(s, first, last) \in Nat
        BY <3>3 DEF BoundParts
      <3>5. Sum(q, first..last) \in Nat
        BY <2>1, SumElsewhere
      <3>6. PICK a, b, g \in Nat : /\ a = Sum(q, first..last) /\ b = Bound(s, first, last)
                                   /\ g = Grace(s, X, first, last)
        BY <2>1, <3>4, <3>5, GraceIs
      <3>. QED BY <3>2, <3>6
    <2>. QED BY <1>2, <2>1, <2>2, <2>3
  <1>. QED BY <1>7 DEF Bursts, Burst

(* One that is allowed later is among those the bound makes room for.       *)
LEMMA BurstCrosses ==
  ASSUME NEW s \in Scope, NEW p \in [Instant -> Nat], NEW n \in Instant, NEW t \in Instant,
         NEW X \in [Slot -> Nat], Bursts(s, p, X, n), NEW Y \in [Slot -> Nat],
         OneMore(Y, X, <<s, WindowIndex(s, t)>>), NEW q, OneMore(q, p, t), Within(s, q)
  PROVE  Bursts(s, q, Y, n)
  <1>1. q \in [Instant -> Nat]
    BY DEF OneMore
  <1>2. n \in Nat /\ n <= MaxTime /\ MaxTime \in Nat /\ t \in Nat
    BY Instants
  <1>3. ASSUME NEW last \in 0..n, NEW first \in 0..last, last - first < Window[s]
        PROVE  Sum(q, first..last) <= Bound(s, first, last) + Grace(s, Y, first, last)
    <2>1. first \in Instant /\ last \in Instant /\ first <= last
      BY <1>2 DEF Instant
    <2>2. PICK i, j, k \in Nat : /\ i = WindowIndex(s, first) /\ j = WindowIndex(s, last)
                                 /\ k = WindowIndex(s, t)
      BY <2>1, Instants
    <2>3. j \in -1..MaxTime /\ <<s, j>> \in Slot /\ <<s, j - 1>> \in Slot /\ <<s, k>> \in Slot
      BY <2>1, <2>2, Instants
    <2>4. PICK a, b, x, y, v, z \in Nat :
            /\ a = Sum(p, first..last) /\ b = Sum(q, first..last)
            /\ x = X[<<s, j>>] /\ y = X[<<s, j - 1>>]
            /\ v = Y[<<s, j>>] /\ z = Y[<<s, j - 1>>]
      <3>1. Sum(p, first..last) \in Nat /\ Sum(q, first..last) \in Nat
        BY <2>1, SumElsewhere
      <3>. QED BY <2>3, <3>1
    <2>5. v = (IF j = k THEN x + 1 ELSE x) /\ z = (IF j - 1 = k THEN y + 1 ELSE y)
      <3>1. \A h \in Slot : Y[h] = IF h = <<s, k>> THEN X[h] + 1 ELSE X[h]
        BY <2>2, <2>3 DEF OneMore
      <3>. QED BY <2>3, <2>4, <3>1
    <2>6. PICK l, f, w \in Nat : BoundParts(s, first, last, l, f, w)
      BY <2>1, BoundIs
    <2>7. /\ l = Limit[s] /\ (l * f) \div w \in Nat
          /\ Bound(s, first, last) = IF i = j THEN l ELSE l + (l * f) \div w
      BY <2>2, <2>6 DEF BoundParts
    <2>8. CASE i = j
      <3>1. b <= InWindow(s, q, j) /\ InWindow(s, q, j) \in Nat /\ InWindow(s, q, j) <= l
        BY <1>1, <2>1, <2>2, <2>3, <2>4, <2>7, <2>8, WithinWindow DEF Within
      <3>2. Bound(s, first, last) = l /\ Grace(s, Y, first, last) = 0
        BY <2>1, <2>2, <2>7, <2>8, GraceIs
      <3>. QED BY <2>4, <3>1, <3>2
    <2>9. CASE i # j
      <3>1. PICK m \in Nat : m = Bound(s, first, last)
        BY <2>7
      <3>2. Grace(s, X, first, last) = y + x /\ Grace(s, Y, first, last) = z + v
        BY <2>1, <2>2, <2>4, <2>9, GraceIs
      <3>3. a <= m + (y + x)
        BY <1>3, <2>4, <3>1, <3>2 DEF Bursts, Burst
      <3>4. b = IF t \in first..last THEN a + 1 ELSE a
        <4>1. Sum(q, first..last)
                = IF t \in first..last THEN Sum(p, first..last) + 1 ELSE Sum(p, first..last)
          BY <2>1, SumElsewhere
        <4>. QED BY <2>4, <4>1
      <3>5. t \in first..last => k = j \/ k = j - 1
        <4>1. SUFFICES ASSUME t \in first..last
                       PROVE  k = j \/ k = j - 1
          OBVIOUS
        <4>2. first <= t /\ t <= last
          BY <4>1
        <4>3. i <= k /\ k <= j /\ j <= i + 1
          BY <1>3, <2>1, <2>2, <4>2, WindowOrder
        <4>. QED BY <4>3
      <3>6. b <= m + (z + v)
        BY <2>5, <3>3, <3>4, <3>5
      <3>. QED BY <2>4, <3>1, <3>2, <3>6
    <2>. QED BY <2>8, <2>9
  <1>. QED BY <1>3 DEF Bursts, Burst

(* More hits counted late only make more room.                              *)
LEMMA BurstsGrow ==
  ASSUME NEW s \in Scope, NEW p \in [Instant -> Nat], NEW n \in Instant,
         NEW X \in [Slot -> Nat], NEW Y \in [Slot -> Nat], \A k \in Slot : X[k] <= Y[k],
         Bursts(s, p, X, n)
  PROVE  Bursts(s, p, Y, n)
  <1>1. ASSUME NEW last \in 0..n, NEW first \in 0..last, last - first < Window[s]
        PROVE  Sum(p, first..last) <= Bound(s, first, last) + Grace(s, Y, first, last)
    <2>1. first \in Instant /\ last \in Instant
      <3>1. n \in Nat /\ n <= MaxTime /\ MaxTime \in Nat
        BY Instants
      <3>. QED BY <3>1 DEF Instant
    <2>2. PICK l, f, w \in Nat : BoundParts(s, first, last, l, f, w)
      BY <2>1, BoundIs
    <2>3. Bound(s, first, last) \in Nat
      BY <2>2 DEF BoundParts
    <2>4. Sum(p, first..last) \in Nat
      <3>1. PICK T : T = first..last
        OBVIOUS
      <3>2. T \in SUBSET Instant
        BY <2>1, <3>1, RateLimitAssumption DEF Instant
      <3>3. IsFiniteSet(T) /\ \A x \in T : p[x] \in Nat
        BY <3>2, FiniteTimes
      <3>. QED BY <3>1, <3>3, SumType
    <2>5. PICK a, b, g, h \in Nat : /\ a = Sum(p, first..last) /\ b = Bound(s, first, last)
                                    /\ g = Grace(s, X, first, last) /\ h = Grace(s, Y, first, last)
      BY <2>1, <2>3, <2>4, GraceIs
    <2>6. g <= h
      <3>1. CASE WindowIndex(s, first) = WindowIndex(s, last)
        <4>1. Grace(s, X, first, last) = 0
          BY <2>1, <3>1, GraceIs
        <4>. QED BY <2>5, <4>1
      <3>2. CASE WindowIndex(s, first) # WindowIndex(s, last)
        <4>1. PICK i, j \in Slot : /\ i = <<s, WindowIndex(s, last) - 1>>
                                   /\ j = <<s, WindowIndex(s, last)>>
          BY <2>1, Instants
        <4>2. g = X[i] + X[j] /\ h = Y[i] + Y[j]
          BY <2>1, <2>5, <3>2, <4>1, GraceIs
        <4>3. /\ X[i] \in Nat /\ X[j] \in Nat /\ Y[i] \in Nat /\ Y[j] \in Nat
              /\ X[i] <= Y[i] /\ X[j] <= Y[j]
          BY <4>1
        <4>. QED BY <4>2, <4>3
      <3>. QED BY <3>1, <3>2
    <2>7. a <= b + g
      BY <1>1, <2>5 DEF Bursts, Burst
    <2>. QED BY <2>5, <2>6, <2>7
  <1>. QED BY <1>1 DEF Bursts, Burst

LEMMA RateImplies ==
  ASSUME RateOK
  PROVE  BurstBounded
  <1> SUFFICES ASSUME NEW s \in Scope \ excused, NEW last \in 0..now,
                      NEW first \in {t \in 0..last : last - t < Window[s]}
               PROVE  PassedIn(s, first, last) <=
                        IF WindowIndex(s, first) = WindowIndex(s, last) THEN Limit[s]
                        ELSE Limit[s] + (Limit[s] * (last % Window[s])) \div Window[s]
                               + crossed[Previous(s, last)] + crossed[Current(s, last)]
    BY DEF BurstBounded
  <1>1. PICK p : p = passed[s]
    OBVIOUS
  <1>2. Sum(p, first..last) <= Bound(s, first, last) + Grace(s, crossed, first, last)
    BY <1>1 DEF RateOK, Bursts, Burst
  <1>3. PassedIn(s, first, last) = Sum(p, first..last)
    BY <1>1 DEF PassedIn, MapThenSumSet, MapThenFoldSet, Sum, SumsUp, Pick
  <1>4. first \in Instant /\ last \in Instant /\ crossed \in [Slot -> Nat]
    BY RateLimitAssumption DEF RateOK, RateTypeOK, Instant
  <1>5. PICK l, f, w \in Nat : BoundParts(s, first, last, l, f, w)
    BY <1>4, BoundIs
  <1>6. PICK d \in Nat : d = (l * f) \div w
    BY <1>5 DEF BoundParts
  <1>7. /\ l = Limit[s] /\ d = (Limit[s] * (last % Window[s])) \div Window[s]
        /\ Bound(s, first, last) = IF WindowIndex(s, first) = WindowIndex(s, last) THEN l ELSE l + d
    BY <1>5, <1>6 DEF BoundParts
  <1>8. PICK x, y \in Nat : x = crossed[Previous(s, last)] /\ y = crossed[Current(s, last)]
    BY <1>4, GraceIs DEF Previous, Current
  <1>9. CASE WindowIndex(s, first) = WindowIndex(s, last)
    <2>1. Grace(s, crossed, first, last) = 0 /\ Bound(s, first, last) = l
      BY <1>4, <1>7, <1>9, GraceIs
    <2>. QED BY <1>2, <1>3, <1>7, <1>9, <2>1
  <1>10. CASE WindowIndex(s, first) # WindowIndex(s, last)
    <2>1. Grace(s, crossed, first, last) = x + y /\ Bound(s, first, last) = l + d
      BY <1>7, <1>8, <1>10 DEF Grace
    <2>2. Bound(s, first, last) + Grace(s, crossed, first, last) = l + d + x + y
      BY <2>1
    <2>. QED BY <1>2, <1>3, <1>7, <1>8, <1>10, <2>2
  <1>. QED BY <1>9, <1>10

LEMMA RateStarts ==
  ASSUME RateInit, RequestsInit
  PROVE  RateOK
  <1>1. 0 \in Instant
    BY RateLimitAssumption DEF Instant
  <1>2. RateTypeOK
    <2>1. Doing("hit") = {}
      BY DEF RequestsInit, Doing, Idle
    <2>. QED BY <1>1, <2>1 DEF RateInit, RateTypeOK
  <1>3. ASSUME NEW s \in Scope
        PROVE  /\ CountersHold(s, counter, passed[s], WindowIndex(s, now))
               /\ Within(s, passed[s]) /\ Bursts(s, passed[s], crossed, now)
    <2>1. PICK p : p = passed[s] /\ p = [t \in Instant |-> 0] /\ p \in [Instant -> Nat]
      BY DEF RateInit
    <2>2. ASSUME NEW T \in SUBSET Instant
          PROVE  Sum(p, T) = 0
      <3>1. IsFiniteSet(T) /\ \A x \in T : p[x] = 0
        BY <2>1, FiniteTimes
      <3>. QED BY <3>1, SumZero
    <2>3. ASSUME NEW j \in -1..MaxTime
          PROVE  counter[<<s, j>>] >= InWindow(s, p, j) /\ InWindow(s, p, j) <= Limit[s]
      <3>1. PICK T : T = {t \in Instant : WindowIndex(s, t) = j}
        OBVIOUS
      <3>2. T \in SUBSET Instant
        BY <3>1
      <3>3. InWindow(s, p, j) = 0
        BY <2>2, <3>1, <3>2 DEF InWindow
      <3>4. counter[<<s, j>>] = 0
        BY DEF RateInit, Slot
      <3>5. Limit[s] \in Nat
        BY RateLimitAssumption
      <3>. QED BY <3>3, <3>4, <3>5
    <2>4. Burst(s, p, crossed, 0)
      <3>1. 0..0 = {0} /\ 0..0 \in SUBSET Instant
        BY <1>1
      <3>2. Sum(p, 0..0) = 0
        BY <2>2, <3>1
      <3>3. PICK l, f, w \in Nat : BoundParts(s, 0, 0, l, f, w)
        BY <1>1, BoundIs
      <3>4. Bound(s, 0, 0) \in Nat
        BY <3>3 DEF BoundParts
      <3>5. \A first \in 0..0 : first = 0
        OBVIOUS
      <3>6. Grace(s, crossed, 0, 0) = 0
        BY DEF Grace
      <3>. QED BY <3>2, <3>4, <3>5, <3>6 DEF Burst
    <2>5. now = 0 /\ \A last \in 0..0 : last = 0
      BY DEF RateInit
    <2>. QED BY <2>1, <2>3, <2>4, <2>5 DEF CountersHold, Within, Bursts
  <1>4. Remembered
    BY DEF RateInit, Remembered
  <1>5. \A s \in Scope, t \in Instant : passed[s][t] = 0
    BY DEF RateInit
  <1>. QED BY <1>2, <1>3, <1>4, <1>5 DEF RateOK

LEMMA RateFrame ==
  ASSUME RateOK, UNCHANGED rateVars, NEW own, Spares(own), "hit" \notin own
  PROVE  RateOK'
  <1>1. UNCHANGED <<now, backend, up, counter, expiry, passed, crossed, excused>>
    BY DEF rateVars
  <1>2. \A p \in Doing("hit")' : p \in Doing("hit") /\ call'[p] = call[p]
    BY DEF Doing, Spares
  <1>. QED BY <1>1, <1>2 DEF RateOK, RateTypeOK, Remembered

(* What the answer to a hit on s of instant t is, and which counters may    *)
(* change with it.                                                          *)
HitAnswer(P, s, t, e) ==
  P = IF Decide(s, t, e[Current(s, t)], e[Previous(s, t)])
        THEN [passed EXCEPT ![s] = [passed[s] EXCEPT ![t] = passed[s][t] + 1]] ELSE passed

Sees(s, t, e, Z) ==
  \A z \in Scope \ Z :
    /\ z \notin excused
    /\ z = s => Adds(z, counter, e, WindowIndex(z, t), WindowIndex(z, now))
    /\ z # s => Keeps(z, counter, e, WindowIndex(z, now))

Crosses(s, t, Y) ==
  \/ WindowIndex(s, t) = WindowIndex(s, now) /\ Y = crossed
  \/ WindowIndex(s, t) # WindowIndex(s, now) /\ OneMore(Y, crossed, <<s, WindowIndex(s, t)>>)

LEMMA HitAnswered ==
  ASSUME RateOK, NEW s \in Scope, NEW t \in 0..now, NEW e \in [Slot -> Nat],
         NEW P, HitAnswer(P, s, t, e), NEW Z \in SUBSET Scope, Sees(s, t, e, Z),
         NEW Y, Crosses(s, t, Y),
         s \notin Z => WindowIndex(s, t) >= WindowIndex(s, now) - 1
  PROVE  /\ P \in [Scope -> [Instant -> Nat]] /\ Y \in [Slot -> Nat]
         /\ \A z \in Scope, u \in Instant : u > now => P[z][u] = 0
         /\ \A z \in Scope \ Z : /\ CountersHold(z, e, P[z], WindowIndex(z, now))
                                 /\ Within(z, P[z]) /\ Bursts(z, P[z], Y, now)
  <1>1. PICK n, p, q, X : n = now /\ p = passed[s] /\ q = [p EXCEPT ![t] = p[t] + 1] /\ X = crossed
    OBVIOUS
  <1>2. /\ n \in Instant /\ n \in Nat /\ t \in Instant /\ t <= n /\ t \in Nat
        /\ p \in [Instant -> Nat] /\ counter \in [Slot -> Nat] /\ X \in [Slot -> Nat]
    BY <1>1, RateLimitAssumption DEF RateOK, RateTypeOK, Instant
  <1>3. OneMore(q, p, t) /\ q \in [Instant -> Nat] /\ \A u \in Instant : u # t => q[u] = p[u]
    BY <1>1, <1>2 DEF OneMore
  <1>4. passed \in [Scope -> [Instant -> Nat]]
    BY DEF RateOK, RateTypeOK
  <1>5. \/ P = passed
        \/ /\ P = [passed EXCEPT ![s] = q]
           /\ Decide(s, t, e[Current(s, t)], e[Previous(s, t)])
    BY <1>1 DEF HitAnswer
  <1>6. P \in [Scope -> [Instant -> Nat]] /\ \A z \in Scope : z # s => P[z] = passed[z]
    BY <1>3, <1>4, <1>5
  <1>7. P[s] = p \/ (P[s] = q /\ Decide(s, t, e[Current(s, t)], e[Previous(s, t)]))
    BY <1>1, <1>4, <1>5
  <1>8. \A z \in Scope, u \in Instant : u > n => P[z][u] = 0
    <2>1. \A z \in Scope, u \in Instant : u > n => passed[z][u] = 0
      BY <1>1 DEF RateOK
    <2>2. \A u \in Instant : u > n => u # t
      BY <1>2
    <2>3. \A u \in Instant : u > n => P[s][u] = 0
      BY <1>1, <1>3, <1>7, <2>1, <2>2
    <2>. QED BY <1>6, <2>1, <2>3
  <1>9. Y \in [Slot -> Nat] /\ \A k \in Slot : X[k] <= Y[k]
    <2>1. PICK k : k = <<s, WindowIndex(s, t)>> /\ k \in Slot
      BY <1>2, Instants
    <2>2. Y = X \/ Y = [X EXCEPT ![k] = X[k] + 1]
      BY <1>1, <2>1 DEF Crosses, OneMore
    <2>. QED BY <1>2, <2>1, <2>2
  <1>10. ASSUME NEW z \in Scope \ Z, z # s
         PROVE  /\ CountersHold(z, e, P[z], WindowIndex(z, n))
                /\ Within(z, P[z]) /\ Bursts(z, P[z], Y, n)
    <2>1. /\ CountersHold(z, counter, passed[z], WindowIndex(z, n))
          /\ Within(z, passed[z]) /\ Bursts(z, passed[z], X, n)
          /\ Keeps(z, counter, e, WindowIndex(z, n))
      BY <1>1, <1>10 DEF RateOK, Sees
    <2>2. CountersHold(z, e, passed[z], WindowIndex(z, n))
      BY <2>1, CountedKeeps
    <2>3. Bursts(z, passed[z], Y, n)
      BY <1>2, <1>4, <1>9, <2>1, BurstsGrow
    <2>. QED BY <1>6, <1>10, <2>1, <2>2, <2>3
  <1>11. ASSUME s \notin Z
         PROVE  /\ CountersHold(s, e, P[s], WindowIndex(s, n))
                /\ Within(s, P[s]) /\ Bursts(s, P[s], Y, n)
    <2>1. /\ CountersHold(s, counter, p, WindowIndex(s, n)) /\ Within(s, p) /\ Bursts(s, p, X, n)
          /\ Adds(s, counter, e, WindowIndex(s, t), WindowIndex(s, n))
      BY <1>1, <1>11 DEF RateOK, Sees
    <2>2. CountersHold(s, e, p, WindowIndex(s, n)) /\ CountersHold(s, e, q, WindowIndex(s, n))
      BY <1>2, <1>3, <2>1, Instants, CountedAdds
    <2>3. CASE P[s] = p
      BY <1>2, <1>9, <2>1, <2>2, <2>3, BurstsGrow
    <2>4. CASE P[s] = q /\ Decide(s, t, e[Current(s, t)], e[Previous(s, t)])
      <3>1. Allowed(s, t, e)
        BY <2>4 DEF Decide, SlidingEstimate, Current, Previous, Allowed
      <3>2. e[<<s, WindowIndex(s, t)>>] >= InWindow(s, q, WindowIndex(s, t))
        <4>1. WindowIndex(s, t) \in -1..MaxTime /\ WindowIndex(s, t) >= WindowIndex(s, n) - 1
          BY <1>1, <1>2, <1>11, Instants
        <4>. QED BY <2>2, <4>1 DEF CountersHold
      <3>3. Within(s, q)
        BY <1>2, <1>3, <2>1, <3>1, <3>2, WithinPasses
      <3>4. ASSUME WindowIndex(s, t) = WindowIndex(s, n)
            PROVE  Bursts(s, q, X, n)
        BY <1>2, <1>3, <2>1, <2>2, <3>1, <3>3, <3>4, BurstPasses
      <3>5. ASSUME OneMore(Y, X, <<s, WindowIndex(s, t)>>)
            PROVE  Bursts(s, q, Y, n)
        BY <1>2, <1>3, <1>9, <2>1, <3>3, <3>5, BurstCrosses
      <3>6. Bursts(s, q, Y, n)
        BY <1>1, <3>4, <3>5 DEF Crosses
      <3>. QED BY <2>2, <2>4, <3>3, <3>6
    <2>. QED BY <1>7, <2>3, <2>4
  <1>. QED BY <1>1, <1>6, <1>8, <1>9, <1>10, <1>11

(* The counters with one hit more on s, those in gone dropped first.        *)
Without(gone) == [k \in Slot |-> IF k \in gone THEN 0 ELSE counter[k]]

LEMMA HitAdds ==
  ASSUME RateOK, NEW s \in Scope, NEW t \in Instant, NEW gone \in SUBSET Slot, NEW e,
         NEW Z \in SUBSET Scope, e = WithHit(Without(gone), s, t),
         excused \subseteq Z, \A k \in gone : Counts(k) => k[1] \in Z
  PROVE  /\ e \in [Slot -> Nat] /\ Sees(s, t, e, Z)
  <1>1. PICK n : n = now
    OBVIOUS
  <1>2. n \in Instant /\ counter \in [Slot -> Nat] /\ <<s, WindowIndex(s, t)>> \in Slot
    BY <1>1, Instants DEF RateOK, RateTypeOK
  <1>3. PICK d, c : d = Without(gone) /\ c = <<s, WindowIndex(s, t)>>
    OBVIOUS
  <1>4. d \in [Slot -> Nat] /\ c \in Slot
    BY <1>2, <1>3 DEF Without
  <1>5. e = [d EXCEPT ![c] = @ + 1]
    BY <1>3 DEF WithHit, Current
  <1>6. /\ e \in [Slot -> Nat]
        /\ \A k \in Slot : e[k] = IF k = c THEN d[k] + 1 ELSE d[k]
    BY <1>4, <1>5
  <1>7. ASSUME NEW z \in Scope \ Z
        PROVE  /\ z \notin excused
               /\ z = s => Adds(z, counter, e, WindowIndex(z, t), WindowIndex(z, n))
               /\ z # s => Keeps(z, counter, e, WindowIndex(z, n))
    <2>1. ASSUME NEW j \in -1..MaxTime, j >= WindowIndex(z, n) - 1
          PROVE  /\ <<z, j>> \in Slot /\ d[<<z, j>>] = counter[<<z, j>>]
                 /\ e[<<z, j>>] = IF z = s /\ j = WindowIndex(s, t) THEN counter[<<z, j>>] + 1
                                  ELSE counter[<<z, j>>]
      <3>1. PICK k : k = <<z, j>>
        OBVIOUS
      <3>2. k \in Slot /\ k[1] = z /\ k[2] = j
        BY <3>1 DEF Slot
      <3>3. Counts(k)
        BY <1>1, <2>1, <3>2 DEF Counts
      <3>4. k \notin gone
        BY <3>2, <3>3
      <3>5. d[k] = counter[k]
        BY <1>3, <3>2, <3>4 DEF Without
      <3>6. k = c <=> z = s /\ j = WindowIndex(s, t)
        BY <1>3, <3>1
      <3>. QED BY <1>6, <3>1, <3>2, <3>5, <3>6
    <2>. QED BY <2>1 DEF Adds, Keeps
  <1>. QED BY <1>1, <1>6, <1>7 DEF Sees

(* The clock is read.                                                       *)
LEMMA HitRedisKept ==
  ASSUME RateOK, Calls, NEW p \in Process, NEW s \in Scope, HitRedis(p, s)
  PROVE  RateOK' /\ Calls' /\ Spares({"hit"})
  <1>1. PICK c : c = [op |-> "hit", key |-> s, time |-> now]
    OBVIOUS
  <1>2. Begin(p, "hit", c) /\ c.op \in {"hit"} /\ c.key = s /\ c.time = now
    BY <1>1 DEF HitRedis
  <1>3. /\ Calls' /\ Spares({"hit"})
        /\ call'[p] = c /\ \A q \in Process : q # p => call'[q] = call[q]
    BY <1>2, Began
  <1>4. UNCHANGED <<now, backend, up, counter, expiry, passed, crossed, excused>>
    BY DEF HitRedis, rateVars
  <1>5. ASSUME NEW q \in Doing("hit")'
        PROVE  call'[q].key \in Scope /\ call'[q].time \in 0..now'
    <2>1. q \in Process /\ call'[q].op = "hit"
      BY DEF Doing
    <2>2. now \in 0..now
      BY RateLimitAssumption DEF RateOK, RateTypeOK, Instant
    <2>3. CASE q = p
      BY <1>2, <1>3, <1>4, <2>2, <2>3
    <2>4. CASE q # p
      BY <1>3, <1>4, <2>1, <2>4 DEF RateOK, RateTypeOK, Doing
    <2>. QED BY <2>3, <2>4
  <1>6. RateTypeOK' /\ Remembered'
    BY <1>4, <1>5 DEF RateOK, RateTypeOK, Remembered
  <1>. QED BY <1>3, <1>4, <1>6 DEF RateOK

(* A hit is over.                                                           *)
LEMMA HitReturns ==
  ASSUME RateOK, Calls, NEW p \in Process, call[p].op = "hit", Return(p), now' = now
  PROVE  /\ Calls' /\ Spares({"hit"})
         /\ call[p].key \in Scope /\ call[p].time \in 0..now
         /\ \A q \in Doing("hit")' : call'[q].key \in Scope /\ call'[q].time \in 0..now'
  <1>1. /\ Calls' /\ Spares({"hit"})
        /\ call'[p].op = "idle" /\ \A q \in Process : q # p => call'[q] = call[q]
    BY Returned
  <1>2. p \in Doing("hit")
    BY DEF Doing
  <1>3. ASSUME NEW q \in Doing("hit")'
        PROVE  call'[q].key \in Scope /\ call'[q].time \in 0..now'
    <2>1. q \in Process /\ q # p
      BY <1>1 DEF Doing
    <2>2. q \in Doing("hit") /\ call'[q] = call[q]
      BY <1>1, <2>1 DEF Doing
    <2>. QED BY <2>2 DEF RateOK, RateTypeOK
  <1>. QED BY <1>1, <1>2, <1>3 DEF RateOK, RateTypeOK

(* It is counted in the window that it has read.                            *)
LEMMA CountInRedisKept ==
  ASSUME RateOK, NEW s \in Scope, NEW t \in 0..now, CountInRedis(s, t),
         UNCHANGED <<now, backend, up>>,
         \A q \in Doing("hit")' : call'[q].key \in Scope /\ call'[q].time \in 0..now'
  PROVE  RateOK'
  <1>1. PICK n, e, P, Z, Y : /\ n = now /\ e = counter' /\ P = passed' /\ Z = excused'
                             /\ Y = crossed'
    OBVIOUS
  <1>2. /\ n \in Instant /\ n \in Nat /\ t \in Instant /\ t \in Nat /\ t <= n
        /\ counter \in [Slot -> Nat] /\ expiry \in [Slot -> Nat] /\ excused \in SUBSET Scope
        /\ <<s, WindowIndex(s, t)>> \in Slot
    <2>1. now \in Instant /\ t \in Instant /\ now \in Nat /\ t \in Nat /\ t <= now
      BY RateLimitAssumption DEF RateOK, RateTypeOK, Instant
    <2>. QED BY <1>1, <2>1, Instants DEF RateOK, RateTypeOK
  <1>3. e = WithHit(counter, s, t) /\ Answer(s, t, e)
    BY <1>1 DEF CountInRedis
  <1>4. HitAnswer(P, s, t, e)
    BY <1>1, <1>3 DEF Answer, HitAnswer
  <1>5. PICK q, k \in Nat : q = WindowIndex(s, t) /\ k = WindowIndex(s, n)
    BY <1>2, Instants
  <1>6. Behind(s, t) = k - q
    BY <1>1, <1>5 DEF Behind
  <1>7. Z \in SUBSET Scope /\ excused \subseteq Z /\ (s \notin Z => q >= k - 1)
    <2>1. Z = IF k - q > 1 THEN excused \cup {s} ELSE excused
      BY <1>1, <1>6 DEF CountInRedis
    <2>. QED BY <1>2, <1>5, <2>1
  <1>8. Crosses(s, t, Y)
    <2>1. Y = IF k - q = 0 THEN crossed
              ELSE [crossed EXCEPT ![<<s, q>>] = crossed[<<s, q>>] + 1]
      BY <1>1, <1>5, <1>6 DEF CountInRedis, Current
    <2>. QED BY <1>1, <1>5, <2>1 DEF Crosses, OneMore
  <1>9. Without({}) = counter
    BY <1>2 DEF Without
  <1>10. e \in [Slot -> Nat] /\ Sees(s, t, e, Z)
    BY <1>2, <1>3, <1>7, <1>9, HitAdds
  <1>11. /\ P \in [Scope -> [Instant -> Nat]] /\ Y \in [Slot -> Nat]
         /\ \A z \in Scope, u \in Instant : u > n => P[z][u] = 0
         /\ \A z \in Scope \ Z : /\ CountersHold(z, e, P[z], WindowIndex(z, n))
                                 /\ Within(z, P[z]) /\ Bursts(z, P[z], Y, n)
    BY <1>1, <1>4, <1>5, <1>7, <1>8, <1>10, HitAnswered
  <1>12. PICK c : c = <<s, WindowIndex(s, t)>>
    OBVIOUS
  <1>13. PICK w \in Nat : w = Window[s] /\ w >= 1
    BY <1>2, Instants
  <1>14. w * q <= n
    <2>1. PICK d, r \in Nat : d = t \div w /\ r = t % w /\ r < w /\ w * d + r = t
      BY <1>2, <1>13, Division
    <2>2. d = q
      BY <1>5, <1>13, <2>1 DEF WindowIndex
    <2>. QED BY <1>2, <2>1, <2>2
  <1>15. \/ counter[c] = 0 /\ expiry' = [expiry EXCEPT ![c] = n + 2 * w + 1]
         \/ counter[c] # 0 /\ expiry' = expiry
    BY <1>1, <1>12, <1>13 DEF CountInRedis, Current
  <1>16. n + 2 * w + 1 \in Nat /\ n + 2 * w + 1 > w * (q + 2)
    <2>1. w * (q + 2) = w * q + 2 * w
      OBVIOUS
    <2>. QED BY <1>2, <1>14, <2>1
  <1>17. expiry' \in [Slot -> Nat]
    BY <1>2, <1>12, <1>15, <1>16
  <1>18. \A j \in Slot : j # c => e[j] = counter[j] /\ expiry'[j] = expiry[j]
    BY <1>2, <1>3, <1>12, <1>15 DEF WithHit, Current
  <1>19. Remembered'
    <2>1. CASE backend = "redis"
      <3>1. \A j \in Slot : counter[j] > 0 => expiry[j] > Window[j[1]] * (j[2] + 2)
        BY <2>1 DEF RateOK, Remembered
      <3>2. expiry'[c] > Window[c[1]] * (c[2] + 2)
        <4>1. Window[c[1]] = w /\ c[2] = q
          BY <1>5, <1>12, <1>13
        <4>2. CASE counter[c] = 0
          BY <1>2, <1>12, <1>15, <1>16, <4>1, <4>2
        <4>3. CASE counter[c] # 0
          BY <1>2, <1>12, <1>15, <3>1, <4>3
        <4>. QED BY <4>2, <4>3
      <3>. QED BY <1>1, <1>18, <3>1, <3>2 DEF Remembered
    <2>. QED BY <2>1 DEF Remembered
  <1>20. RateTypeOK'
    BY <1>1, <1>7, <1>10, <1>11, <1>17 DEF RateOK, RateTypeOK
  <1>. QED BY <1>1, <1>11, <1>19, <1>20 DEF RateOK

LEMMA CountHitKept ==
  ASSUME RateOK, Calls, NEW p \in Process, CountHit(p)
  PROVE  RateOK' /\ Calls' /\ Spares({"hit"})
  <1>1. /\ call[p].op = "hit" /\ Return(p) /\ UNCHANGED <<now, backend, up>>
        /\ CountInRedis(call[p].key, call[p].time)
    BY DEF CountHit
  <1>2. /\ Calls' /\ Spares({"hit"})
        /\ call[p].key \in Scope /\ call[p].time \in 0..now
        /\ \A q \in Doing("hit")' : call'[q].key \in Scope /\ call'[q].time \in 0..now'
    BY <1>1, HitReturns
  <1>. QED BY <1>1, <1>2, CountInRedisKept

(* A step that begins or ends no hit.                                       *)
LEMMA HitsStay ==
  ASSUME RateOK, UNCHANGED call, now' \in Nat, now' >= now
  PROVE  \A q \in Doing("hit")' : call'[q].key \in Scope /\ call'[q].time \in 0..now'
  <1>1. now \in Nat
    BY RateLimitAssumption DEF RateOK, RateTypeOK, Instant
  <1>. QED BY <1>1 DEF RateOK, RateTypeOK, Doing

LEMMA HitMemoryKept ==
  ASSUME RateOK, NEW s \in Scope, HitMemory(s)
  PROVE  RateOK'
  <1>1. PICK n, e, P, Z, gone : /\ n = now /\ e = counter' /\ P = passed' /\ Z = excused'
                                /\ gone = Pruned(s)
    OBVIOUS
  <1>2. /\ e = WithHit(Without(gone), s, n)
        /\ Answer(s, n, e) /\ UNCHANGED <<now, backend, up, expiry, crossed>> /\ backend = "memory"
        /\ Z = excused \cup {k[1] : k \in {x \in gone : Counts(x)}}
    BY <1>1 DEF HitMemory, Without
  <1>3. gone \in SUBSET Slot /\ \A k \in gone : k[2] < WindowIndex(s, n) - 1 /\ k[1] \in Scope
    BY <1>1 DEF Pruned, Tracked, Slot
  <1>4. Z \in SUBSET Scope /\ excused \subseteq Z /\ \A k \in gone : Counts(k) => k[1] \in Z
    BY <1>2, <1>3 DEF RateOK, RateTypeOK
  <1>5. n \in Instant /\ n \in 0..now /\ n \in Nat /\ WindowIndex(s, n) \in Nat
    <2>1. n \in Instant
      BY <1>1 DEF RateOK, RateTypeOK
    <2>2. n \in Nat
      BY <2>1, RateLimitAssumption DEF Instant
    <2>3. n \in 0..now
      BY <1>1, <2>2
    <2>4. WindowIndex(s, n) \in Nat
      BY <2>1, Instants
    <2>. QED BY <2>1, <2>2, <2>3, <2>4
  <1>6. e \in [Slot -> Nat] /\ Sees(s, n, e, Z)
    BY <1>2, <1>3, <1>4, <1>5, HitAdds
  <1>7. HitAnswer(P, s, n, e)
    BY <1>1, <1>2 DEF Answer, HitAnswer
  <1>8. Crosses(s, n, crossed) /\ WindowIndex(s, n) >= WindowIndex(s, now) - 1
    BY <1>1, <1>5 DEF Crosses
  <1>9. /\ P \in [Scope -> [Instant -> Nat]]
        /\ \A z \in Scope, t \in Instant : t > n => P[z][t] = 0
        /\ \A z \in Scope \ Z : /\ CountersHold(z, e, P[z], WindowIndex(z, n))
                                /\ Within(z, P[z]) /\ Bursts(z, P[z], crossed, n)
    BY <1>1, <1>4, <1>5, <1>6, <1>7, <1>8, HitAnswered
  <1>10. Remembered'
    BY <1>2 DEF Remembered
  <1>11. \A q \in Doing("hit")' : call'[q].key \in Scope /\ call'[q].time \in 0..now'
    <2>1. UNCHANGED call
      BY DEF HitMemory, AtOnce
    <2>. QED BY <1>1, <1>2, <1>5, <2>1, HitsStay
  <1>12. RateTypeOK'
    BY <1>1, <1>2, <1>4, <1>6, <1>9, <1>11 DEF RateOK, RateTypeOK
  <1>. QED BY <1>1, <1>2, <1>9, <1>10, <1>12 DEF RateOK

(* The limiter fails open.                                                  *)
LEMMA HitUnavailableKept ==
  ASSUME RateOK, Calls, NEW c \in Process, HitUnavailable(c)
  PROVE  RateOK' /\ Calls' /\ Spares({"hit"})
  <1>0. call[c].op = "hit" /\ Return(c) /\ UNCHANGED <<now, backend, up, counter, expiry, crossed>>
    BY DEF HitUnavailable
  <1>1. /\ Calls' /\ Spares({"hit"})
        /\ call[c].key \in Scope /\ call[c].time \in 0..now
        /\ \A q \in Doing("hit")' : call'[q].key \in Scope /\ call'[q].time \in 0..now'
    BY <1>0, HitReturns
  <1>2. PICK s, t, n, p : s = call[c].key /\ t = call[c].time /\ n = now /\ p = passed[s]
    OBVIOUS
  <1>3. /\ s \in Scope /\ n \in Nat /\ t \in Instant /\ t \in Nat /\ t <= n
        /\ p \in [Instant -> Nat] /\ passed \in [Scope -> [Instant -> Nat]]
    <2>1. s \in Scope /\ t \in 0..n
      BY <1>1, <1>2
    <2>2. passed \in [Scope -> [Instant -> Nat]] /\ n \in Instant
      BY <1>2 DEF RateOK, RateTypeOK
    <2>3. p \in [Instant -> Nat]
      BY <1>2, <2>1, <2>2
    <2>4. n \in Nat /\ n <= MaxTime /\ MaxTime \in Nat
      BY <2>2, RateLimitAssumption DEF Instant
    <2>. QED BY <2>1, <2>2, <2>3, <2>4 DEF Instant
  <1>4. PICK q : q = [p EXCEPT ![t] = p[t] + 1]
    OBVIOUS
  <1>5. passed' = [passed EXCEPT ![s] = q]
    BY <1>2, <1>3, <1>4 DEF HitUnavailable
  <1>6. q \in [Instant -> Nat] /\ \A u \in Instant : u # t => q[u] = p[u]
    BY <1>3, <1>4
  <1>7. /\ passed' \in [Scope -> [Instant -> Nat]] /\ passed'[s] = q
        /\ \A z \in Scope : z # s => passed'[z] = passed[z]
    BY <1>3, <1>5, <1>6
  <1>8. excused' = excused \cup {s} /\ excused' \subseteq Scope
    BY <1>2, <1>3 DEF HitUnavailable, RateOK, RateTypeOK
  <1>9. \A z \in Scope, u \in Instant : u > n => passed'[z][u] = 0
    <2>1. \A z \in Scope, u \in Instant : u > n => passed[z][u] = 0
      BY <1>2 DEF RateOK
    <2>2. \A u \in Instant : u > n => u # t
      BY <1>3
    <2>. QED BY <1>2, <1>6, <1>7, <2>1, <2>2
  <1>10. ASSUME NEW z \in Scope \ excused'
         PROVE  /\ CountersHold(z, counter, passed'[z], WindowIndex(z, n))
                /\ Within(z, passed'[z]) /\ Bursts(z, passed'[z], crossed, n)
    <2>1. z \notin excused /\ passed'[z] = passed[z]
      BY <1>7, <1>8
    <2>. QED BY <1>2, <2>1 DEF RateOK
  <1>11. Remembered'
    BY <1>0 DEF RateOK, Remembered
  <1>12. RateTypeOK'
    BY <1>0, <1>1, <1>7, <1>8 DEF RateOK, RateTypeOK
  <1>. QED BY <1>0, <1>1, <1>2, <1>9, <1>10, <1>11, <1>12 DEF RateOK

LEMMA OutagesKept ==
  ASSUME RateOK, (\E forgets \in BOOLEAN : Outage(forgets)) \/ Recovery
  PROVE  RateOK'
  <1>1. /\ UNCHANGED <<call, now, backend, expiry, passed, crossed>>
        /\ up' \in BOOLEAN
        /\ \/ counter' = [k \in Slot |-> 0] /\ excused' = Scope
           \/ UNCHANGED <<counter, excused>>
    BY DEF Outage, Recovery, AtOnce, requestVars
  <1>2. \A q \in Doing("hit")' : call'[q].key \in Scope /\ call'[q].time \in 0..now'
    <2>1. now \in Nat
      BY RateLimitAssumption DEF RateOK, RateTypeOK, Instant
    <2>. QED BY <1>1, <2>1, HitsStay
  <1>3. CASE counter' = [k \in Slot |-> 0] /\ excused' = Scope
    <2>0. counter' \in [Slot -> Nat] /\ \A k \in Slot : counter'[k] = 0
      BY <1>3
    <2>1. RateTypeOK'
      BY <1>1, <1>2, <1>3, <2>0 DEF RateOK, RateTypeOK
    <2>2. Remembered'
      BY <2>0 DEF Remembered
    <2>3. \A s \in Scope, t \in Instant : t > now' => passed'[s][t] = 0
      BY <1>1 DEF RateOK
    <2>. QED BY <1>3, <2>1, <2>2, <2>3 DEF RateOK
  <1>4. CASE UNCHANGED <<counter, excused>>
    <2>1. RateTypeOK'
      BY <1>1, <1>2, <1>4 DEF RateOK, RateTypeOK
    <2>2. Remembered'
      BY <1>1, <1>4 DEF RateOK, Remembered
    <2>. QED BY <1>1, <1>4, <2>1, <2>2 DEF RateOK
  <1>. QED BY <1>1, <1>3, <1>4

(* A counter that Redis forgets is of a window nobody looks at any more.    *)
LEMMA TimePassesKept ==
  ASSUME RateOK, TimePasses
  PROVE  RateOK'
  <1>1. PICK n, u, e : n = now /\ u = n + 1 /\ e = counter'
    OBVIOUS
  <1>2. /\ n \in Instant /\ n \in Nat /\ u \in Instant /\ u \in Nat /\ u > n
        /\ counter \in [Slot -> Nat] /\ expiry \in [Slot -> Nat]
        /\ passed \in [Scope -> [Instant -> Nat]]
    BY <1>1, RateLimitAssumption DEF TimePasses, RateOK, RateTypeOK, Instant
  <1>3. /\ now' = u /\ UNCHANGED <<call, backend, up, expiry, passed, crossed, excused>>
        /\ e = [k \in Slot |-> IF backend = "redis" /\ expiry[k] <= u THEN 0 ELSE counter[k]]
    BY <1>1 DEF TimePasses, AtOnce
  <1>4. e \in [Slot -> Nat] /\ \A k \in Slot : e[k] = 0 \/ e[k] = counter[k]
    BY <1>2, <1>3
  <1>5. RateTypeOK'
    <2>1. \A q \in Doing("hit")' : call'[q].key \in Scope /\ call'[q].time \in 0..now'
      BY <1>1, <1>2, <1>3, HitsStay
    <2>. QED BY <1>1, <1>2, <1>3, <1>4, <2>1 DEF RateOK, RateTypeOK
  <1>6. Remembered'
    BY <1>1, <1>3, <1>4 DEF RateOK, Remembered
  <1>7. \A s \in Scope, t \in Instant : t > u => passed[s][t] = 0
    <2>1. \A t \in Instant : t > u => t > n
      BY <1>2 DEF Instant
    <2>. QED BY <1>1, <2>1 DEF RateOK
  <1>8. ASSUME NEW s \in Scope \ excused
        PROVE  CountersHold(s, e, passed[s], WindowIndex(s, u))
    <2>1. PICK w, x, y \in Nat : /\ w = Window[s] /\ w >= 1 /\ x = WindowIndex(s, n)
                                 /\ y = WindowIndex(s, u)
      BY <1>2, Instants
    <2>2. x <= y
      BY <1>2, <2>1, WindowOrder
    <2>3. PICK r \in Nat : r < w /\ w * y + r = u
      <3>1. PICK d, r \in Nat : d = u \div w /\ r = u % w /\ r < w /\ w * d + r = u
        BY <1>2, <2>1, Division
      <3>2. d = y
        BY <2>1, <3>1 DEF WindowIndex
      <3>. QED BY <3>1, <3>2
    <2>4. ASSUME NEW j \in -1..MaxTime, j >= y - 1
          PROVE  e[<<s, j>>] >= InWindow(s, passed[s], j)
      <3>1. PICK k : k = <<s, j>>
        OBVIOUS
      <3>2. k \in Slot /\ k[1] = s /\ k[2] = j /\ j \in Int
        BY <3>1, RateLimitAssumption DEF Slot
      <3>3. counter[k] >= InWindow(s, passed[s], j)
        <4>1. j >= x - 1
          BY <2>2, <2>4, <3>2
        <4>. QED BY <1>1, <2>1, <3>1, <4>1 DEF RateOK, CountersHold
      <3>4. counter[k] > 0 => e[k] = counter[k]
        <4>1. SUFFICES ASSUME counter[k] > 0, backend = "redis"
                       PROVE  ~(expiry[k] <= u)
          BY <1>3, <3>2
        <4>2. expiry[k] > w * (j + 2)
          BY <2>1, <3>2, <4>1 DEF RateOK, Remembered
        <4>3. PICK a, b \in Int : a = y + 1 /\ b = j + 2 /\ a <= b
          BY <2>4, <3>2
        <4>4. w * a <= w * b /\ w * a = w * y + w
          BY <4>3, Times
        <4>5. PICK z \in Nat : z = expiry[k]
          BY <1>2, <3>2
        <4>6. z > w * b
          BY <4>2, <4>3, <4>5
        <4>7. z > u
          BY <1>2, <2>3, <4>4, <4>6
        <4>. QED BY <1>2, <4>5, <4>7
      <3>5. InWindow(s, passed[s], j) \in Nat
        BY <1>2, InWindowType
      <3>6. e[k] >= InWindow(s, passed[s], j)
        BY <1>2, <1>4, <3>2, <3>3, <3>4, <3>5
      <3>. QED BY <3>1, <3>6
    <2>. QED BY <2>1, <2>4 DEF CountersHold
  <1>9. ASSUME NEW s \in Scope \ excused
        PROVE  Within(s, passed[s]) /\ Bursts(s, passed[s], crossed, u)
    <2>1. PICK p, X : /\ p = passed[s] /\ p \in [Instant -> Nat]
                      /\ X = crossed /\ X \in [Slot -> Nat]
      BY <1>2 DEF RateOK, RateTypeOK
    <2>2. Bursts(s, p, X, n) /\ Within(s, p)
      BY <1>1, <2>1 DEF RateOK
    <2>3. Burst(s, p, X, n) /\ \A last \in 0..u : last = u \/ last \in 0..n
      BY <1>1, <1>2, <2>2 DEF Bursts
    <2>4. p[u] = 0
      BY <1>1, <1>2, <2>1 DEF RateOK
    <2>5. ASSUME NEW first \in 0..u, u - first < Window[s]
          PROVE  Sum(p, first..u) <= Bound(s, first, u) + Grace(s, X, first, u)
      <3>1. first \in Instant /\ first <= u
        BY <1>2, RateLimitAssumption DEF Instant
      <3>. QED BY <1>1, <1>2, <2>1, <2>3, <2>4, <2>5, <3>1, BurstLater
    <2>6. Burst(s, p, X, u)
      BY <2>5 DEF Burst
    <2>. QED BY <2>1, <2>2, <2>3, <2>6 DEF Bursts
  <1>. QED BY <1>1, <1>3, <1>5, <1>6, <1>7, <1>8, <1>9 DEF RateOK

LEMMA RateKept ==
  ASSUME RateOK, Calls, RateStep
  PROVE  RateOK' /\ Calls' /\ Spares({"hit"})
  <1>1. ASSUME UNCHANGED call
        PROVE  Calls' /\ Spares({"hit"})
    BY <1>1, NoneMoved
  <1>2. ASSUME NEW s \in Scope, HitMemory(s)
        PROVE  RateOK' /\ Calls' /\ Spares({"hit"})
    <2>1. UNCHANGED call
      BY <1>2 DEF HitMemory, AtOnce
    <2>. QED BY <1>1, <1>2, <2>1, HitMemoryKept
  <1>3. CASE \/ \E forgets \in BOOLEAN : Outage(forgets)
             \/ Recovery \/ TimePasses
    <2>1. UNCHANGED call
      BY <1>3 DEF Outage, Recovery, TimePasses, AtOnce, requestVars
    <2>. QED BY <1>1, <1>3, <2>1, OutagesKept, TimePassesKept
  <1>. QED BY <1>2, <1>3, HitRedisKept, CountHitKept, HitUnavailableKept DEF RateStep

-----------------------------------------------------------------------------
(* All of them together.                                                    *)
IInv ==
  /\ Calls
  /\ FleetOK /\ IngestionOK
  /\ RateOK /\ LiveOK /\ RiskOK /\ SchedulerOK /\ SupervisorOK

LEMMA OperationsStart ==
  ASSUME Init
  PROVE  IInv
  <1>1. Calls
    BY DEF Init, RequestsInit, Calls
  <1>2. FleetInit
    BY DEF Init, IngestionInit
  <1>. QED BY <1>1, <1>2, FleetStarts, IngestionStarts, RateStarts, LiveStarts, RiskStarts,
              SchedulerStarts, SupervisorStarts DEF Init, IInv

(* A step of one part keeps the parts that it leaves alone.                 *)
LEMMA OperationsFrame ==
  ASSUME IInv, NEW own, Spares(own)
  PROVE  /\ UNCHANGED fleetVars /\ own \cap fleetOps = {} => FleetOK'
         /\ UNCHANGED ingestionVars /\ "ingest" \notin own => IngestionOK'
         /\ UNCHANGED rateVars /\ "hit" \notin own => RateOK'
         /\ UNCHANGED liveVars => LiveOK'
         /\ UNCHANGED riskVars /\ "rebuild" \notin own => RiskOK'
         /\ UNCHANGED schedulerVars /\ "tick" \notin own => SchedulerOK'
         /\ UNCHANGED supervisorVars => SupervisorOK'
  <1>1. UNCHANGED ingestionVars => UNCHANGED <<clientVars, batchVars>>
    BY DEF ingestionVars
  <1>2. FleetOK /\ IngestionOK /\ RateOK /\ LiveOK /\ RiskOK /\ SchedulerOK /\ SupervisorOK
    BY DEF IInv
  <1>. QED BY <1>1, <1>2, FleetFrame, IngestionFrame, RateFrame, LiveFrame, RiskFrame,
              SchedulerFrame, SupervisorFrame

LEMMA OperationsKept ==
  ASSUME IInv, [Next]_vars
  PROVE  IInv'
  <1>0. Calls /\ FleetOK /\ IngestionOK /\ RateOK /\ LiveOK /\ RiskOK /\ SchedulerOK /\ SupervisorOK
    BY DEF IInv
  <1>1. UNCHANGED ingestionVars => UNCHANGED fleetVars
    BY DEF ingestionVars
  <1>2. CASE /\ IngestionStep
             /\ UNCHANGED <<rateVars, liveVars, riskVars, schedulerVars, supervisorVars>>
    <2>1. PICK own : own = ingestOps \cup fleetOps
      OBVIOUS
    <2>2. FleetOK' /\ IngestionOK' /\ Calls' /\ Spares(own)
      BY <1>0, <1>2, <2>1, IngestionKept
    <2>3. "rebuild" \notin own /\ "tick" \notin own /\ "hit" \notin own
      BY <2>1 DEF ingestOps, fleetOps
    <2>. QED BY <1>2, <2>2, <2>3, OperationsFrame DEF IInv
  <1>3. CASE /\ RateStep
             /\ UNCHANGED <<ingestionVars, liveVars, riskVars, schedulerVars, supervisorVars>>
    <2>1. PICK own : own = {"hit"}
      OBVIOUS
    <2>2. RateOK' /\ Calls' /\ Spares(own)
      BY <1>0, <1>3, <2>1, RateKept
    <2>3. own \cap fleetOps = {} /\ "ingest" \notin own /\ "rebuild" \notin own /\ "tick" \notin own
      BY <2>1 DEF fleetOps
    <2>. QED BY <1>1, <1>3, <2>2, <2>3, OperationsFrame DEF IInv
  <1>4. CASE /\ LiveStep
             /\ UNCHANGED <<ingestionVars, rateVars, riskVars, schedulerVars, supervisorVars>>
    <2>1. LiveOK' /\ Calls' /\ Spares({})
      BY <1>0, <1>4, LiveKept, LiveCalls
    <2>. QED BY <1>1, <1>4, <2>1, OperationsFrame DEF IInv
  <1>5. CASE /\ RiskStep
             /\ UNCHANGED <<ingestionVars, rateVars, liveVars, schedulerVars, supervisorVars>>
    <2>1. PICK own : own = {"rebuild"}
      OBVIOUS
    <2>2. RiskOK' /\ Calls' /\ Spares(own)
      BY <1>0, <1>5, <2>1, RiskKept
    <2>3. own \cap fleetOps = {} /\ "ingest" \notin own /\ "tick" \notin own /\ "hit" \notin own
      BY <2>1 DEF fleetOps
    <2>. QED BY <1>1, <1>5, <2>2, <2>3, OperationsFrame DEF IInv
  <1>6. CASE /\ SchedulerStep
             /\ UNCHANGED <<ingestionVars, rateVars, liveVars, riskVars, supervisorVars>>
    <2>1. PICK own : own = tickOps
      OBVIOUS
    <2>2. SchedulerOK' /\ Calls' /\ Spares(own)
      BY <1>0, <1>6, <2>1, SchedulerKept
    <2>3. own \cap fleetOps = {} /\ "ingest" \notin own /\ "rebuild" \notin own /\ "hit" \notin own
      BY <2>1 DEF fleetOps, tickOps
    <2>. QED BY <1>1, <1>6, <2>2, <2>3, OperationsFrame DEF IInv
  <1>7. CASE /\ SupervisorStep
             /\ UNCHANGED <<ingestionVars, rateVars, liveVars, riskVars, schedulerVars>>
    <2>1. SupervisorOK' /\ Calls' /\ Spares({})
      BY <1>0, <1>7, SupervisorKept, SupervisorCalls
    <2>. QED BY <1>1, <1>7, <2>1, OperationsFrame DEF IInv
  <1>8. CASE UNCHANGED vars
    <2>1. UNCHANGED <<call, ingestionVars, rateVars, liveVars, riskVars, schedulerVars,
                      supervisorVars>>
      BY <1>8 DEF vars, requestVars
    <2>2. Calls' /\ Spares({})
      BY <1>0, <2>1, NoneMoved
    <2>. QED BY <1>1, <2>1, <2>2, OperationsFrame DEF IInv
  <1>. QED BY <1>2, <1>3, <1>4, <1>5, <1>6, <1>7, <1>8 DEF Next

(* The inductive invariant of the operations side: requests under way are   *)
(* what their operations have put there, and every part is as its section   *)
(* above says.                                                              *)
THEOREM OperationsInvariance == Spec => []IInv
  <1>1. Init => IInv
    BY OperationsStart
  <1>2. IInv /\ [Next]_vars => IInv'
    BY OperationsKept
  <1>. QED BY <1>1, <1>2, PTL DEF Spec

(* Every variable of the operations side always has its type, whatever the  *)
(* order in which requests, batches, streams, ticks and the container's     *)
(* processes take their steps.                                              *)
THEOREM OperationsTyped == Spec => []TypeOK
  <1>1. IInv => TypeOK
    BY DEF IInv, FleetOK, IngestionOK, BatchTypes, IngestionTypeOK, RateOK, LiveOK, RiskOK,
       SchedulerOK, SupervisorOK, TypeOK
  <1>. QED BY <1>1, OperationsInvariance, PTL

(* However batches overlap, repeat events or fail half-way, an event is     *)
(* answered "accepted" once at most, and exactly once when its row is       *)
(* accepted (ingestion/service.py).                                         *)
THEOREM AcceptedAnsweredOnce == Spec => []AcknowledgedOnce
  <1>1. IInv => AcknowledgedOnce
    BY DEF IInv, IngestionOK
  <1>. QED BY <1>1, OperationsInvariance, PTL

(* A counter of a data source never exceeds the answers of that outcome     *)
(* given in its name, and equals their number unless a batch wrote it from  *)
(* a value that another had changed since (ingestion/service.py:74).        *)
THEOREM SourceCountersAddUp == Spec => []CountersAddUp
  <1>1. IInv => CountersAddUp
    BY DEF IInv, IngestionOK
  <1>. QED BY <1>1, OperationsInvariance, PTL

(* However registrations race, unless the plan was lowered, the vehicles    *)
(* registered and those being created are fewer than its limit and the      *)
(* requests that may run at a time together: the excess is bounded and does *)
(* not grow with use (saas/service.py:131).                                 *)
THEOREM PlanOverrunBounded == Spec => []OverrunBounded
  <1>1. IInv => OverrunBounded
    BY DEF IInv, FleetOK
  <1>. QED BY <1>1, OperationsInvariance, PTL

(* A burst across the boundary of two windows passes no more than the       *)
(* limit, the share of it that the new window has run for, and the hits     *)
(* that were counted when the window they had read was over: for every      *)
(* limit, every length of the windows and however the hits are spread and   *)
(* overtake one another.                                                    *)
THEOREM BurstsBounded == Spec => []BurstBounded
  <1>1. IInv => BurstBounded
    BY RateImplies DEF IInv
  <1>. QED BY <1>1, OperationsInvariance, PTL

(* A stream that waits and has something to show has a notification coming, *)
(* or one of it was lost where the code can lose one.                       *)
THEOREM WakeupsNotLost == Spec => []NoLostWakeup
  <1>1. ASSUME IInv
        PROVE  NoLostWakeup
    <2>1. ASSUME NEW s \in Stream, stream[s].step = "waiting"
          PROVE  /\ stream[s].shown < positions =>
                      ToSet(stream[s].queue) \cup ToSet(wire) # {} \/ stream[s].missed
                 /\ stream[s].told < alerts =>
                      \/ "safety_event" \in ToSet(stream[s].queue) \cup ToSet(wire)
                      \/ stream[s].unheard
      <3>1. StreamOK(stream[s]) /\ stream[s] \in StreamState
        BY <1>1 DEF IInv, LiveOK, LiveTypeOK
      <3>2. PICK c, q : c = stream[s] /\ q = c.queue
        OBVIOUS
      <3>3. q \in Seq(Kind)
        BY <3>1, <3>2 DEF StreamState
      <3>4. q # <<>> => ToSet(q) # {}
        <4>1. q # <<>> => 1 \in DOMAIN q
          BY <3>3
        <4>. QED BY <4>1 DEF ToSet
      <3>5. c.step = "waiting" => c.kinds = {}
        BY <3>1, <3>2 DEF StreamOK
      <3>. QED BY <2>1, <3>1, <3>2, <3>4, <3>5 DEF StreamOK
    <2>. QED BY <2>1 DEF NoLostWakeup
  <1>. QED BY <1>1, OperationsInvariance, PTL

(* The road risks listed are of one rebuild, those of two only where one    *)
(* had chosen what to delete before the other committed; they have events   *)
(* enough and none in common, whatever the order of the rows.               *)
THEOREM RisksAreOfOneRebuild == Spec => []RisksOfOneRebuild
  <1>1. IInv => RisksOfOneRebuild
    BY RiskImplies DEF IInv
  <1>. QED BY <1>1, OperationsInvariance, PTL

(* The container returns with all its processes gone, with 0 only after a   *)
(* signal and otherwise because a process had stopped by itself or the      *)
(* migrations failed.                                                       *)
THEOREM ContainerStopsForAReason == Spec => []StopsForAReason
  <1>1. IInv => StopsForAReason
    BY DEF IInv, SupervisorOK, StopsForAReason
  <1>. QED BY <1>1, OperationsInvariance, PTL

(* What is metered of a day never shrinks, except by an erasure or by a     *)
(* tick that has lost its lock or did not run alone (usage metering).       *)
THEOREM MeteredActivityNeverShrinks == Spec => ActivityNeverShrinks
  <1>1. ASSUME IInv, [Next]_vars
        PROVE  [\A o \in Org, d \in Day :
                  usage'[o][d] < usage[o][d] =>
                    \/ <<o, d>> \in erased
                    \/ \E p \in Process : /\ At(p, "write")
                                          /\ ~call[p].alive \/ call[p].beside]_<<call, usage>>
    <2>1. SchedulerOK /\ usage \in [Org -> [Day -> UsageRecord]] /\ \A o \in Org, d \in Day : usage[o][d] \in Int
      BY <1>1 DEF IInv, SchedulerOK, SchedulerTypeOK, UsageRecord
    <2>2. SchedulerStep \/ UNCHANGED usage
      BY <1>1 DEF Next, vars, schedulerVars
    <2>3. CASE SchedulerStep
      BY <2>1, <2>3, ActivityKept
    <2>4. CASE UNCHANGED usage
      BY <2>1, <2>4
    <2>. QED BY <2>2, <2>3, <2>4
  <1>. QED BY <1>1, OperationsInvariance, PTL DEF Spec, ActivityNeverShrinks
=============================================================================
