---------------------------- MODULE AccountsProofs ----------------------------
(***************************************************************************)
(* Proofs about accounts and organizations, for any users, organizations,  *)
(* requests under way, plans and bounds.                                   *)
(*                                                                         *)
(* The inductive invariant has a part for each table.  Each part says two  *)
(* things: how the rows of the table agree with one another, and what a    *)
(* request under way still knows of them.  That is the heart of the        *)
(* argument: a request that has not been overtaken (stale) finds the rows  *)
(* it has read as it read them, because every step that changes them       *)
(* overtakes the requests that have read them.  A step of one table keeps  *)
(* the parts of the others, whose requests only go on or end (Follows).    *)
(***************************************************************************)
EXTENDS Accounts, FiniteSetTheorems, SequenceTheorems, WellFoundedInduction, TLAPS

(* What a request under way may be about. *)
Argument == Role \cup Purpose \cup {"none", "past", "reuse", "logout"}

OnAnOrg == {"register", "invite", "resend", "withdraw", "accept", "role",
            "remove", "reset_mfa"}

Operation == OnAnOrg \cup {"idle", "fail", "challenge", "login", "rotate", "revoke",
                           "issue", "setup"}

CallRow == [op : Operation, user : User \cup {None}, org : Org \cup {None}, row : Nat,
            num : Nat, seen : SUBSET Nat, arg : Argument, stale : BOOLEAN]

CallTyped(c) ==
  /\ c \in CallRow
  /\ c.op = "idle" => c = Idle
  /\ c.op # "idle" => c.user \in User
  /\ c.op \in OnAnOrg <=> c.org # None
  /\ c.op = "issue" => c.arg \in Purpose
  /\ c.op \in {"invite", "role"} => c.arg \in Role
  /\ c.op = "role" => c.row # 0

Typed ==
  /\ TypeOK
  /\ call = [p \in Process |-> call[p]]
  /\ \A p \in Process : CallTyped(call[p])

-----------------------------------------------------------------------------
(* The sessions of a family are its first one's, with its credentials.      *)
OfFamily(i, f) ==
  /\ f \in 1..i
  /\ session[f].family = f
  /\ session[f].user = session[i].user
  /\ session[f].cut = session[i].cut
  /\ session[f].via = session[i].via

FamiliesOK ==
  /\ \A i \in DOMAIN session : OfFamily(i, session[i].family)
  /\ \A i \in DOMAIN session : session[i].next # 0 =>
       /\ session[i].next \in DOMAIN session
       /\ session[session[i].next].family = session[i].family

OpenOnce ==
  \A i, j \in DOMAIN session :
    session[i].family = session[j].family /\ session[i].state = "open"
      /\ session[j].state = "open" => i = j \/ session[i].family \in overlapped

(* A login not overtaken has the account's present count of revocations; a  *)
(* rotation not overtaken is about to close what is open of its family.     *)
SessionCall(c) ==
  /\ c.op = "login" /\ ~c.stale => c.row = user[c.user].cut
  /\ c.op \in {"rotate", "revoke"} =>
       /\ c.row \in DOMAIN session
       /\ session[c.row].family = c.num /\ session[c.row].user = c.user
       /\ \A i \in c.seen : i \in DOMAIN session /\ session[i].family = c.num
  /\ c.op = "rotate" /\ ~c.stale /\ c.num \notin overlapped =>
       /\ c.seen = OpenSessions(c.num) /\ c.seen # {}
       /\ session[c.row].cut = user[c.user].cut

(* An open session was opened since the last reset, with a password or a    *)
(* second factor.                                                           *)
NoOldSession ==
  \A i \in DOMAIN session : session[i].state = "open" =>
    session[i].cut = user[session[i].user].cut \/ session[i].family \in overlapped

SessionsOK ==
  /\ FamiliesOK
  /\ OpenOnce
  /\ NoOldSession
  /\ \A u \in User : user[u].status = "none" => user[u].cut = 0
  /\ \A p \in Process : SessionCall(call[p])

-----------------------------------------------------------------------------
(* The key in force and the one to be confirmed are different, no code or   *)
(* key has a number not yet given out, and what was spent is not accepted.  *)
KeysOK(row) ==
  /\ row.secret <= row.keys /\ row.pending <= row.keys
  /\ row.secret # 0 => row.secret # row.pending
  /\ \A code \in row.codes : code[1] <= row.keys

SpentOK(row, f) ==
  /\ f.key \in 1..row.keys
  /\ row.status # "none"
  /\ f.kind = "totp" => f.key # row.pending /\ (f.key = row.secret => f.n <= row.step)
  /\ f.kind = "recovery" => <<f.key, f.n>> \notin row.codes

FactorsOK ==
  /\ SecondFactorOnce
  /\ \A u \in User : KeysOK(user[u])
  /\ \A f \in spent : SpentOK(user[f.user], f)
  /\ \A i \in DOMAIN session : session[i].via # 0 =>
       /\ session[i].via \in DOMAIN challenge
       /\ challenge[session[i].via].state # "open"

-----------------------------------------------------------------------------
UsableOnce ==
  \A i, j \in DOMAIN link :
    link[i].user = link[j].user /\ link[i].purpose = link[j].purpose
      /\ link[i].state = "usable" /\ link[j].state = "usable" =>
         i = j \/ <<link[i].user, link[i].purpose>> \in relinked

(* A request for a link not overtaken is about to use up what is usable.    *)
LinkCall(c) ==
  c.op = "issue" =>
    /\ user[c.user].status # "none"
    /\ ~c.stale /\ <<c.user, c.arg>> \notin relinked => Usable(c.user, c.arg) \subseteq c.seen

LinksOK ==
  /\ UsableOnce
  /\ \A i \in DOMAIN link : user[link[i].user].status # "none"
  /\ \A p \in Process : LinkCall(call[p])

-----------------------------------------------------------------------------
(* An accept under way has its invitation to itself, and it is pending.     *)
InvitationCall(c) ==
  /\ c.op = "accept" => /\ c.row \in DOMAIN invitation
                        /\ invitation[c.row].state = "pending"
                        /\ c.row # 0
  /\ c.op \in {"resend", "withdraw"} => c.row \in DOMAIN invitation

InvitationsOK ==
  /\ InvitationAdmitsOnce
  /\ \A m \in DOMAIN joined : joined[m].by # 0 =>
       /\ joined[m].by \in DOMAIN invitation
       /\ invitation[joined[m].by].state # "pending"
  /\ \A p \in Process : InvitationCall(call[p])
  /\ \A p, q \in Process :
       call[p].op = "accept" /\ call[q].op = "accept" /\ call[p].row = call[q].row => p = q

-----------------------------------------------------------------------------
(* An accept not overtaken has a seat to take.                              *)
PlanCall(c) ==
  /\ c.op \in {"invite", "accept"} => org[c.org].exists
  /\ c.op = "accept" /\ ~c.stale => EnforceUserLimit(c.org)

PlansOK ==
  /\ \A o \in Org : ~org[o].exists => org[o] = NoOrg
  /\ \A o \in Org, u \in User : IsMember(o, u) => org[o].exists
  /\ \A i \in DOMAIN invitation : org[invitation[i].org].exists
  /\ \A p \in Process : PlanCall(call[p])

IInv == Typed /\ SessionsOK /\ FactorsOK /\ LinksOK /\ InvitationsOK /\ PlansOK

-----------------------------------------------------------------------------
(* Requests under way either go on, perhaps overtaken, or end.              *)
Follows ==
  /\ call' = [p \in Process |-> call'[p]]
  /\ \A q \in Process :
       \/ call'[q] = Idle
       \/ call'[q] = call[q]
       \/ call[q].op # "idle" /\ call'[q] = [call[q] EXCEPT !.stale = TRUE]

Overtakes(S) == \A q \in S : call'[q] = Idle \/ call'[q].stale

LEMMA IdleTyped == Idle \in CallRow /\ CallTyped(Idle)
  <1>1. Idle \in CallRow
    BY DEF Idle, CallRow, Argument, Operation
  <1>. QED BY <1>1 DEF Idle, CallTyped, OnAnOrg

LEMMA OvertakenTyped ==
  ASSUME NEW c, CallTyped(c), c.op # "idle"
  PROVE  /\ CallTyped([c EXCEPT !.stale = TRUE])
         /\ [c EXCEPT !.stale = TRUE].stale
  BY DEF CallTyped, CallRow, Idle

LEMMA FollowsTyped ==
  ASSUME Typed, Follows
  PROVE  /\ call' = [p \in Process |-> call'[p]]
         /\ \A p \in Process : CallTyped(call[p]) /\ CallTyped(call'[p])
  BY IdleTyped, OvertakenTyped DEF Typed, Follows

(* What is left of a request after a step: its fields, or nothing.          *)
LEMMA FollowsFields ==
  ASSUME Typed, Follows, NEW q \in Process, call'[q].op # "idle"
  PROVE  /\ call'[q].op = call[q].op /\ call'[q].user = call[q].user
         /\ call'[q].org = call[q].org /\ call'[q].row = call[q].row
         /\ call'[q].num = call[q].num /\ call'[q].seen = call[q].seen
         /\ call'[q].arg = call[q].arg
         /\ call[q].stale => call'[q].stale
         /\ call'[q] # Idle
  <1>1. CallTyped(call[q])
    BY DEF Typed
  <1>2. call'[q] # Idle
    BY DEF Idle
  <1>3. CASE call'[q] = call[q]
    BY <1>2, <1>3
  <1>4. CASE call'[q] = [call[q] EXCEPT !.stale = TRUE]
    BY <1>1, <1>2, <1>4 DEF CallTyped, CallRow
  <1>. QED BY <1>2, <1>3, <1>4 DEF Follows

LEMMA SettleFollows ==
  ASSUME Typed, NEW p, NEW S, \A q \in S : q \in Process /\ call[q].op # "idle",
         Settle(p, S)
  PROVE  /\ Follows /\ Overtakes(S)
         /\ p \in Process => call'[p] = Idle
  <1>1. ASSUME NEW q \in Process, q # p
        PROVE  /\ q \in S => call'[q] = [call[q] EXCEPT !.stale = TRUE] /\ call'[q].stale
               /\ q \notin S => call'[q] = call[q]
    <2>1. CallTyped(call[q]) /\ call'[q] = [call[q] EXCEPT !.stale = @ \/ q \in S]
      BY <1>1 DEF Typed, Settle
    <2>2. CASE q \in S
      <3>1. (call[q].stale \/ q \in S) = TRUE
        BY <2>2
      <3>2. call'[q] = [call[q] EXCEPT !.stale = TRUE]
        BY <2>1, <3>1
      <3>. QED BY <2>1, <2>2, <3>2, OvertakenTyped
    <2>3. CASE q \notin S
      <3>1. (call[q].stale \/ q \in S) = call[q].stale
        BY <2>1, <2>3 DEF CallTyped, CallRow
      <3>2. call'[q] = [call[q] EXCEPT !.stale = call[q].stale]
        BY <2>1, <3>1
      <3>. QED BY <2>1, <2>3, <3>2 DEF CallTyped, CallRow
    <2>. QED BY <2>2, <2>3
  <1>2. p \in Process => call'[p] = Idle
    BY DEF Settle
  <1>3. call' = [q \in Process |-> call'[q]]
    BY DEF Settle
  <1>. QED BY <1>1, <1>2, <1>3 DEF Follows, Overtakes

LEMMA OnUserBusy ==
  ASSUME Typed, NEW u \in User
  PROVE  \A q \in OnUser(u) : q \in Process /\ call[q].op # "idle"
  BY TenancyAssumption DEF OnUser, Typed, CallTyped, Idle

LEMMA OnOrgBusy ==
  ASSUME Typed, NEW o \in Org
  PROVE  \A q \in OnOrg(o) : q \in Process /\ call[q].op # "idle"
  BY TenancyAssumption DEF OnOrg, Typed, CallTyped, Idle

LEMMA AbortFollows ==
  ASSUME Typed, NEW p \in Process, Abort(p)
  PROVE  Follows
  BY DEF Typed, Abort, Follows

LEMMA StillFollows ==
  ASSUME Typed, UNCHANGED call
  PROVE  Follows
  BY DEF Typed, Follows

-----------------------------------------------------------------------------
(* Tables as sequences of rows. *)
LEMMA Appended ==
  ASSUME NEW S, NEW s \in Seq(S), NEW x \in S
  PROVE  /\ Append(s, x) \in Seq(S)
         /\ Len(s) \in Nat /\ DOMAIN s = 1..Len(s)
         /\ DOMAIN Append(s, x) = 1..(Len(s) + 1)
         /\ \A i \in 1..Len(s) : s[i] \in S /\ Append(s, x)[i] = s[i]
         /\ Append(s, x)[Len(s) + 1] = x
  BY AppendProperties, LenProperties, ElementOfSeq

LEMMA Rewritten ==
  ASSUME NEW S, NEW s \in Seq(S), NEW t, t = [i \in DOMAIN s |-> t[i]],
         \A i \in DOMAIN s : t[i] \in S
  PROVE  t \in Seq(S) /\ DOMAIN t = DOMAIN s
  <1>1. DOMAIN s = 1..Len(s) /\ Len(s) \in Nat
    BY LenProperties
  <1>2. t \in [1..Len(s) -> S]
    BY <1>1
  <1>. QED BY <1>1, <1>2, SeqDef

LEMMA RowsTyped ==
  ASSUME Typed
  PROVE  /\ \A i \in DOMAIN session : i \in Nat \ {0} /\ session[i] \in SessionRow
         /\ \A i \in DOMAIN link : i \in Nat \ {0} /\ link[i] \in LinkRow
         /\ \A i \in DOMAIN challenge : i \in Nat \ {0} /\ challenge[i] \in ChallengeRow
         /\ \A i \in DOMAIN invitation : i \in Nat \ {0} /\ invitation[i] \in InvitationRow
         /\ \A i \in DOMAIN joined : i \in Nat \ {0}
         /\ user \in [User -> UserRow]
         /\ org \in [Org -> OrgRow]
  BY LenProperties, ElementOfSeq DEF Typed, TypeOK, TenancyTypeOK, SessionsTypeOK

(* A session that is closed stays what it is otherwise.                     *)
LEMMA ClosedRows ==
  ASSUME Typed, NEW rows
  PROVE  /\ Closed(rows) \in Seq(SessionRow)
         /\ DOMAIN Closed(rows) = DOMAIN session
         /\ \A i \in DOMAIN session :
              /\ Closed(rows)[i].user = session[i].user
              /\ Closed(rows)[i].family = session[i].family
              /\ Closed(rows)[i].reuse = session[i].reuse
              /\ Closed(rows)[i].next = session[i].next
              /\ Closed(rows)[i].cut = session[i].cut
              /\ Closed(rows)[i].via = session[i].via
              /\ Closed(rows)[i].state =
                   IF i \in rows /\ session[i].state = "open" THEN "closed"
                                                              ELSE session[i].state
  <1>1. \A i \in DOMAIN session :
          Closed(rows)[i] = IF i \in rows /\ session[i].state = "open"
                              THEN [session[i] EXCEPT !.state = "closed"] ELSE session[i]
    BY DEF Closed
  <1>2. ASSUME NEW row \in SessionRow
        PROVE  /\ [row EXCEPT !.state = "closed"] \in SessionRow
               /\ [row EXCEPT !.state = "closed"].user = row.user
               /\ [row EXCEPT !.state = "closed"].family = row.family
               /\ [row EXCEPT !.state = "closed"].reuse = row.reuse
               /\ [row EXCEPT !.state = "closed"].next = row.next
               /\ [row EXCEPT !.state = "closed"].cut = row.cut
               /\ [row EXCEPT !.state = "closed"].via = row.via
               /\ [row EXCEPT !.state = "closed"].state = "closed"
    BY DEF SessionRow
  <1>3. \A i \in DOMAIN session : session[i] \in SessionRow
    BY RowsTyped
  <1>4. session \in Seq(SessionRow)
    BY DEF Typed, TypeOK, SessionsTypeOK
  <1>5. Closed(rows) = [i \in DOMAIN session |-> Closed(rows)[i]]
    BY DEF Closed
  <1>6. \A i \in DOMAIN session : Closed(rows)[i] \in SessionRow
    BY <1>1, <1>2, <1>3
  <1>7. Closed(rows) \in Seq(SessionRow) /\ DOMAIN Closed(rows) = DOMAIN session
    BY <1>4, <1>5, <1>6, Rewritten
  <1>8. ASSUME NEW i \in DOMAIN session
        PROVE  /\ Closed(rows)[i].user = session[i].user
               /\ Closed(rows)[i].family = session[i].family
               /\ Closed(rows)[i].reuse = session[i].reuse
               /\ Closed(rows)[i].next = session[i].next
               /\ Closed(rows)[i].cut = session[i].cut
               /\ Closed(rows)[i].via = session[i].via
               /\ Closed(rows)[i].state =
                    IF i \in rows /\ session[i].state = "open" THEN "closed"
                                                               ELSE session[i].state
    <2>1. CASE i \in rows /\ session[i].state = "open"
      <3>1. Closed(rows)[i] = [session[i] EXCEPT !.state = "closed"]
        BY <1>1, <2>1
      <3>. QED BY <1>2, <1>3, <2>1, <3>1
    <2>2. CASE ~(i \in rows /\ session[i].state = "open")
      BY <1>1, <2>2
    <2>. QED BY <2>1, <2>2
  <1>. QED BY <1>7, <1>8

-----------------------------------------------------------------------------
(* Sessions.  A step that opens none: rows keep what they are but for their *)
(* state, and whoever read a row or a count that changes is overtaken.      *)
LEMMA ClosingKeeps ==
  ASSUME Typed, SessionsOK, Follows,
         DOMAIN session' = DOMAIN session,
         \A i \in DOMAIN session :
           /\ session'[i].user = session[i].user /\ session'[i].family = session[i].family
           /\ session'[i].next = session[i].next /\ session'[i].cut = session[i].cut
           /\ session'[i].via = session[i].via
           /\ session'[i].state = "open" => session[i].state = "open",
         overlapped \subseteq overlapped',
         \A i \in DOMAIN session : session'[i].state = "open" =>
           user'[session[i].user].cut = user[session[i].user].cut,
         \A u \in User : user'[u].status = "none" =>
           user[u].status = "none" /\ user'[u].cut = user[u].cut,
         \A q \in Process : call[q].op \in {"login", "rotate"} =>
           \/ call'[q] = Idle \/ call'[q].stale
           \/ /\ user'[call[q].user].cut = user[call[q].user].cut
              /\ call[q].op = "rotate" =>
                   \A i \in DOMAIN session : session[i].family = call[q].num =>
                     session'[i].state = session[i].state
  PROVE  SessionsOK'
  <1>1. FamiliesOK'
    <2>1. DOMAIN session = 1..Len(session) /\ Len(session) \in Nat
      BY LenProperties DEF Typed, TypeOK, SessionsTypeOK
    <2>2. ASSUME NEW i \in DOMAIN session PROVE OfFamily(i, session[i].family)'
      <3>1. OfFamily(i, session[i].family) /\ session[i].family \in DOMAIN session
        BY <2>1 DEF SessionsOK, FamiliesOK, OfFamily
      <3>. QED BY <3>1 DEF OfFamily
    <2>. QED BY <2>2 DEF SessionsOK, FamiliesOK
  <1>2. OpenOnce'
    BY DEF SessionsOK, OpenOnce
  <1>3. NoOldSession'
    BY DEF SessionsOK, NoOldSession
  <1>4. \A u \in User : user'[u].status = "none" => user'[u].cut = 0
    BY DEF SessionsOK
  <1>5. ASSUME NEW q \in Process PROVE SessionCall(call[q])'
    <2>1. CASE call'[q].op = "idle"
      BY <2>1 DEF SessionCall
    <2>2. CASE call'[q].op # "idle"
      <3>1. /\ call'[q].op = call[q].op /\ call'[q].user = call[q].user
            /\ call'[q].row = call[q].row /\ call'[q].num = call[q].num
            /\ call'[q].seen = call[q].seen /\ (call[q].stale => call'[q].stale)
            /\ call'[q] # Idle
        BY <2>2, FollowsFields
      <3>2. SessionCall(call[q])
        BY DEF SessionsOK
      <3>3. call[q].op = "rotate" /\ ~call'[q].stale =>
              OpenSessions(call[q].num)' = OpenSessions(call[q].num)
        BY <3>1 DEF OpenSessions
      <3>. QED BY <3>1, <3>2, <3>3 DEF SessionCall
    <2>. QED BY <2>1, <2>2
  <1>. QED BY <1>1, <1>2, <1>3, <1>4, <1>5 DEF SessionsOK

(* Steps of the other tables. *)
LEMMA SessionsFrame ==
  ASSUME Typed, SessionsOK, Follows, UNCHANGED <<session, overlapped>>,
         \A u \in User : /\ user'[u].cut = user[u].cut
                         /\ user'[u].status = "none" => user[u].status = "none"
  PROVE  SessionsOK'
  <1>1. \A i \in DOMAIN session : session[i].user \in User
    BY RowsTyped DEF SessionRow
  <1>2. \A q \in Process : call[q].op \in {"login", "rotate"} => call[q].user \in User
    BY DEF Typed, CallTyped
  <1>. QED BY <1>1, <1>2, ClosingKeeps

(* A login opens a family of its own. *)
LEMMA OpeningKeeps ==
  ASSUME Typed, SessionsOK, Follows,
         NEW u \in User, NEW cut \in Nat, NEW via \in Nat, NEW late \in BOOLEAN,
         session' = Append(session, NewSession(u, Len(session) + 1, cut, via)),
         overlapped' = IF late THEN overlapped \cup {Len(session) + 1} ELSE overlapped,
         late \/ cut = user'[u].cut,
         \A v \in User : /\ user'[v].cut = user[v].cut
                         /\ user'[v].status = "none" => user[v].status = "none"
  PROVE  SessionsOK' /\ session' \in Seq(SessionRow) /\ overlapped' \subseteq Families'
  <1> DEFINE n == Len(session) + 1
  <1>1. NewSession(u, n, cut, via) \in SessionRow
    <2>1. Len(session) \in Nat
      BY LenProperties DEF Typed, TypeOK, SessionsTypeOK
    <2>. QED BY <2>1 DEF NewSession, SessionRow
  <1>2. /\ session' \in Seq(SessionRow) /\ n \in Nat
        /\ DOMAIN session = 1..(n - 1) /\ DOMAIN session' = 1..n
        /\ \A i \in 1..(n - 1) : session[i] \in SessionRow /\ session'[i] = session[i]
        /\ session'[n] = NewSession(u, n, cut, via)
    BY <1>1, Appended DEF Typed, TypeOK, SessionsTypeOK
  <1>3. /\ session'[n].user = u /\ session'[n].family = n /\ session'[n].next = 0
        /\ session'[n].cut = cut /\ session'[n].via = via
    BY <1>2 DEF NewSession
  <1>4. \A i \in 1..(n - 1) : session[i].family \in 1..i /\ session[i].family # n
    BY <1>2 DEF SessionsOK, FamiliesOK, OfFamily
  <1>5. FamiliesOK'
    <2>1. \A i \in DOMAIN session' : OfFamily(i, session[i].family)'
      BY <1>2, <1>3, <1>4 DEF SessionsOK, FamiliesOK, OfFamily
    <2>2. \A i \in DOMAIN session' : session'[i].next # 0 =>
            /\ session'[i].next \in DOMAIN session'
            /\ session'[session'[i].next].family = session'[i].family
      BY <1>2, <1>3 DEF SessionsOK, FamiliesOK
    <2>. QED BY <2>1, <2>2 DEF FamiliesOK
  <1>6. OpenOnce'
    BY <1>2, <1>3, <1>4 DEF SessionsOK, OpenOnce
  <1>7. NoOldSession'
    <2>1. ASSUME NEW i \in 1..(n - 1), session[i].state = "open"
          PROVE  session[i].cut = user'[session[i].user].cut \/ session[i].family \in overlapped'
      <3>1. session[i].user \in User
        BY <1>2 DEF SessionRow
      <3>2. user'[session[i].user].cut = user[session[i].user].cut
        BY <3>1
      <3>. QED BY <1>2, <2>1, <3>2 DEF SessionsOK, NoOldSession
    <2>. QED BY <1>2, <1>3, <2>1 DEF NoOldSession
  <1>8. ASSUME NEW q \in Process PROVE SessionCall(call[q])'
    <2>1. CASE call'[q].op = "idle"
      BY <2>1 DEF SessionCall
    <2>2. CASE call'[q].op # "idle"
      <3>1. /\ call'[q].op = call[q].op /\ call'[q].user = call[q].user
            /\ call'[q].row = call[q].row /\ call'[q].num = call[q].num
            /\ call'[q].seen = call[q].seen /\ (call[q].stale => call'[q].stale)
        BY <2>2, FollowsFields
      <3>2. SessionCall(call[q]) /\ call[q].user \in User
        BY <2>2, <3>1 DEF SessionsOK, Typed, CallTyped
      <3>3. call[q].op \in {"rotate", "revoke"} =>
              call[q].num # n /\ OpenSessions(call[q].num)' = OpenSessions(call[q].num)
        <4> SUFFICES ASSUME call[q].op \in {"rotate", "revoke"}
                     PROVE  call[q].num # n /\ OpenSessions(call[q].num)' = OpenSessions(call[q].num)
          OBVIOUS
        <4>1. call[q].num # n
          BY <1>2, <1>4, <3>2 DEF SessionCall
        <4>2. \A i : i \in DOMAIN session' <=> i \in DOMAIN session \/ i = n
          BY <1>2
        <4>. QED BY <1>2, <1>3, <3>1, <4>1, <4>2 DEF OpenSessions
      <3>4. user'[call[q].user].cut = user[call[q].user].cut
        BY <3>2
      <3>5. \A i \in DOMAIN session : i \in DOMAIN session' /\ session'[i] = session[i]
        BY <1>2
      <3>6. overlapped \subseteq overlapped'
        OBVIOUS
      <3>. QED BY <3>1, <3>2, <3>3, <3>4, <3>5, <3>6 DEF SessionCall
    <2>. QED BY <2>1, <2>2
  <1>9. \A v \in User : user'[v].status = "none" => user'[v].cut = 0
    BY DEF SessionsOK
  <1>10. overlapped' \subseteq Families'
    BY <1>2, <1>3 DEF Typed, TypeOK, SessionsTypeOK, Families
  <1>. QED BY <1>2, <1>5, <1>6, <1>7, <1>8, <1>9, <1>10 DEF SessionsOK

LEMMA RotationRows ==
  ASSUME Typed, SessionsOK, NEW p \in Process, call[p].op = "rotate",
         RotateRefreshToken(p)
  PROVE  LET c == call[p]
             n == Len(session) + 1
         IN /\ session' \in Seq(SessionRow)
            /\ n \in Nat /\ DOMAIN session = 1..(n - 1) /\ DOMAIN session' = 1..n
            /\ c.row \in 1..(n - 1)
            /\ \A i \in 1..(n - 1) :
                 /\ session'[i].user = session[i].user
                 /\ session'[i].family = session[i].family
                 /\ session'[i].next = IF i = c.row THEN n ELSE session[i].next
                 /\ session'[i].cut = session[i].cut
                 /\ session'[i].via = session[i].via
                 /\ session'[i].state = IF i \in c.seen /\ session[i].state = "open"
                                          THEN "closed" ELSE session[i].state
            /\ session'[n].user = c.user /\ session'[n].family = c.num
            /\ session'[n].next = 0 /\ session'[n].state = "open"
            /\ session'[n].cut = session[c.row].cut
            /\ session'[n].via = session[c.row].via
  <1> DEFINE c == call[p]
             n == Len(session) + 1
             rows == [Closed(c.seen) EXCEPT ![c.row].next = n]
             new == NewSession(c.user, c.num, session[c.row].cut, session[c.row].via)
  <1>1. /\ session' = Append(rows, new)
        /\ c.row \in DOMAIN session /\ c.user \in User /\ c.num \in Nat
    BY DEF RotateRefreshToken, Typed, CallTyped, CallRow, SessionsOK, SessionCall
  <1>2. Closed(c.seen) \in Seq(SessionRow) /\ DOMAIN Closed(c.seen) = DOMAIN session
    BY ClosedRows
  <1>3. Len(session) \in Nat /\ DOMAIN session = 1..Len(session)
    BY LenProperties DEF Typed, TypeOK, SessionsTypeOK
  <1>4. ASSUME NEW row \in SessionRow
        PROVE  /\ [row EXCEPT !.next = n] \in SessionRow
               /\ [row EXCEPT !.next = n].user = row.user
               /\ [row EXCEPT !.next = n].family = row.family
               /\ [row EXCEPT !.next = n].cut = row.cut
               /\ [row EXCEPT !.next = n].via = row.via
               /\ [row EXCEPT !.next = n].state = row.state
               /\ [row EXCEPT !.next = n].next = n
    BY <1>3 DEF SessionRow
  <1>5. Closed(c.seen)[c.row] \in SessionRow
    BY <1>1, <1>2, LenProperties, ElementOfSeq
  <1>6. /\ rows[c.row] = [Closed(c.seen)[c.row] EXCEPT !.next = n]
        /\ \A i \in DOMAIN session : i # c.row => rows[i] = Closed(c.seen)[i]
        /\ rows = [i \in DOMAIN session |-> rows[i]]
    BY <1>1, <1>2 DEF Closed
  <1>7. \A i \in DOMAIN session : Closed(c.seen)[i] \in SessionRow
    BY <1>2, LenProperties, ElementOfSeq
  <1>8. rows \in Seq(SessionRow) /\ DOMAIN rows = DOMAIN session
    <2>1. \A i \in DOMAIN session : rows[i] \in SessionRow
      BY <1>4, <1>5, <1>6, <1>7
    <2>2. session \in Seq(SessionRow)
      BY DEF Typed, TypeOK, SessionsTypeOK
    <2> HIDE DEF rows
    <2>. QED BY <1>6, <2>1, <2>2, Rewritten
  <1>9. Len(rows) = Len(session)
    BY <1>3, <1>8, LenProperties
  <1>10. new \in SessionRow
    BY <1>1, RowsTyped DEF NewSession, SessionRow
  <1>11. /\ session' \in Seq(SessionRow) /\ DOMAIN session' = 1..n
         /\ \A i \in 1..(n - 1) : session'[i] = rows[i]
         /\ session'[n] = new
    <2>1. PICK t : t = rows
      OBVIOUS
    <2>2. t \in Seq(SessionRow) /\ new \in SessionRow /\ session' = Append(t, new)
      BY <1>1, <1>8, <1>10, <2>1
    <2>3. /\ Append(t, new) \in Seq(SessionRow) /\ DOMAIN Append(t, new) = 1..(Len(t) + 1)
          /\ \A i \in 1..Len(t) : Append(t, new)[i] = t[i]
          /\ Append(t, new)[Len(t) + 1] = new
      BY ONLY <2>2, Appended
    <2>4. Len(t) = n - 1 /\ Len(t) + 1 = n
      BY <1>3, <1>9, <2>1
    <2>. QED BY <2>1, <2>2, <2>3, <2>4
  <1>12. \A i \in 1..(n - 1) :
           /\ session'[i].user = session[i].user
           /\ session'[i].family = session[i].family
           /\ session'[i].next = IF i = c.row THEN n ELSE session[i].next
           /\ session'[i].cut = session[i].cut
           /\ session'[i].via = session[i].via
           /\ session'[i].state = IF i \in c.seen /\ session[i].state = "open"
                                    THEN "closed" ELSE session[i].state
    <2> TAKE i \in 1..(n - 1)
    <2> HIDE DEF rows
    <2>1. i \in DOMAIN session /\ session'[i] = rows[i]
      BY <1>3, <1>11
    <2>2. /\ Closed(c.seen)[i].user = session[i].user
          /\ Closed(c.seen)[i].family = session[i].family
          /\ Closed(c.seen)[i].next = session[i].next
          /\ Closed(c.seen)[i].cut = session[i].cut
          /\ Closed(c.seen)[i].via = session[i].via
          /\ Closed(c.seen)[i].state = IF i \in c.seen /\ session[i].state = "open"
                                         THEN "closed" ELSE session[i].state
      BY <2>1, ClosedRows
    <2>3. CASE i = c.row
      <3>1. rows[i] = [Closed(c.seen)[i] EXCEPT !.next = n]
        BY <1>6, <2>3
      <3>. QED BY <1>4, <1>5, <2>1, <2>2, <2>3, <3>1
    <2>4. CASE i # c.row
      <3>1. rows[i] = Closed(c.seen)[i]
        BY <1>6, <2>1, <2>4
      <3>. QED BY <2>1, <2>2, <2>4, <3>1
    <2>. QED BY <2>3, <2>4
  <1>13. /\ session'[n].user = c.user /\ session'[n].family = c.num
         /\ session'[n].next = 0 /\ session'[n].state = "open"
         /\ session'[n].cut = session[c.row].cut
         /\ session'[n].via = session[c.row].via
    BY <1>11 DEF NewSession
  <1>14. n \in Nat /\ DOMAIN session = 1..(n - 1) /\ c.row \in 1..(n - 1)
    BY <1>1, <1>3
  <1> HIDE DEF rows, new, n
  <1>. QED BY <1>11, <1>12, <1>13, <1>14 DEF n

(* A rotation not overtaken closes what is open before it opens the next.   *)
LEMMA RotationKeeps ==
  ASSUME Typed, SessionsOK, Follows, NEW p \in Process, RotateRefreshToken(p),
         call'[p] = Idle, Overtakes(OnFamily(call[p].num))
  PROVE  SessionsOK'
  <1> DEFINE c == call[p]
             n == Len(session) + 1
             Before == 1..(n - 1)
  <1>1. c.op = "rotate" /\ user' = user
        /\ overlapped' = IF c.stale THEN overlapped \cup {c.num} ELSE overlapped
    BY DEF RotateRefreshToken
  <1>2. /\ n \in Nat /\ DOMAIN session = Before /\ DOMAIN session' = 1..n
        /\ c.row \in Before
        /\ \A i \in Before :
             /\ session'[i].user = session[i].user
             /\ session'[i].family = session[i].family
             /\ session'[i].next = IF i = c.row THEN n ELSE session[i].next
             /\ session'[i].cut = session[i].cut
             /\ session'[i].via = session[i].via
             /\ session'[i].state = IF i \in c.seen /\ session[i].state = "open"
                                      THEN "closed" ELSE session[i].state
        /\ session'[n].user = c.user /\ session'[n].family = c.num
        /\ session'[n].next = 0 /\ session'[n].state = "open"
        /\ session'[n].cut = session[c.row].cut
        /\ session'[n].via = session[c.row].via
    BY <1>1, RotationRows
  <1>3. /\ session[c.row].family = c.num /\ session[c.row].user = c.user
        /\ \A i \in c.seen : i \in Before /\ session[i].family = c.num
        /\ ~c.stale /\ c.num \notin overlapped =>
             c.seen = OpenSessions(c.num) /\ session[c.row].cut = user[c.user].cut
    BY <1>1, <1>2 DEF SessionsOK, SessionCall
  <1>4. \A i \in Before : OfFamily(i, session[i].family) /\ session[i].family \in Before
    BY <1>2 DEF SessionsOK, FamiliesOK, OfFamily
  <1>5. FamiliesOK'
    <2>1. ASSUME NEW i \in DOMAIN session' PROVE OfFamily(i, session[i].family)'
      <3>1. CASE i \in Before
        BY <1>2, <1>4, <3>1 DEF OfFamily
      <3>2. CASE i = n
        <4>1. /\ session'[i].family = c.num /\ session'[i].user = session'[c.row].user
              /\ session'[i].cut = session'[c.row].cut
              /\ session'[i].via = session'[c.row].via
          BY <1>2, <1>3, <3>2
        <4>2. /\ c.num \in Before /\ OfFamily(c.row, c.num)
          BY <1>2, <1>3, <1>4
        <4>. QED BY <1>2, <1>3, <3>2, <4>1, <4>2 DEF OfFamily
      <3>. QED BY <1>2, <3>1, <3>2
    <2>2. ASSUME NEW i \in 1..n, session'[i].next # 0
          PROVE  /\ session'[i].next \in DOMAIN session'
                 /\ session'[session'[i].next].family = session'[i].family
      <3>1. CASE i = c.row
        BY <1>2, <1>3, <3>1
      <3>2. CASE i # c.row
        BY <1>2, <2>2, <3>2 DEF SessionsOK, FamiliesOK
      <3>. QED BY <3>1, <3>2
    <2>. QED BY <1>2, <2>1, <2>2 DEF FamiliesOK
  <1>6. overlapped \subseteq overlapped'
    BY <1>1
  <1>7. c.num \in overlapped' \/ \A i \in Before : session[i].family = c.num =>
                                   session'[i].state # "open"
    BY <1>1, <1>2, <1>3 DEF OpenSessions
  <1>8. OpenOnce'
    <2>1. \A i, j \in Before :
            session'[i].family = session'[j].family /\ session'[i].state = "open"
              /\ session'[j].state = "open" => i = j \/ session'[i].family \in overlapped'
      BY <1>2, <1>6 DEF SessionsOK, OpenOnce
    <2>2. \A i \in Before : session'[i].family = c.num /\ session'[i].state = "open" =>
                              c.num \in overlapped'
      BY <1>2, <1>7
    <2>. QED BY <1>2, <2>1, <2>2 DEF OpenOnce
  <1>9. NoOldSession'
    <2>1. \A i \in Before : session'[i].state = "open" =>
            session[i].cut = user[session[i].user].cut \/ session[i].family \in overlapped'
      BY <1>2, <1>6 DEF SessionsOK, NoOldSession
    <2>2. session[c.row].cut = user[c.user].cut \/ c.num \in overlapped'
      BY <1>1, <1>3
    <2>. QED BY <1>1, <1>2, <2>1, <2>2 DEF NoOldSession
  <1>10. ASSUME NEW q \in Process PROVE SessionCall(call[q])'
    <2>1. CASE call'[q].op = "idle"
      BY <2>1 DEF SessionCall
    <2>2. CASE call'[q].op # "idle"
      <3>1. /\ call'[q].op = call[q].op /\ call'[q].user = call[q].user
            /\ call'[q].row = call[q].row /\ call'[q].num = call[q].num
            /\ call'[q].seen = call[q].seen /\ (call[q].stale => call'[q].stale)
            /\ call'[q] # Idle
        BY <2>2, FollowsFields
      <3>2. SessionCall(call[q])
        BY DEF SessionsOK
      <3>3. call[q].op = "rotate" /\ ~call'[q].stale => call[q].num # c.num
        BY <3>1 DEF Overtakes, OnFamily
      <3>4. call[q].op = "rotate" /\ ~call'[q].stale =>
              OpenSessions(call[q].num)' = OpenSessions(call[q].num)
        <4> SUFFICES ASSUME call[q].op = "rotate", ~call'[q].stale
                     PROVE  OpenSessions(call[q].num)' = OpenSessions(call[q].num)
          OBVIOUS
        <4>1. \A i : i \in DOMAIN session' <=> i \in DOMAIN session \/ i = n
          BY <1>2
        <4>2. \A i \in Before : session[i].family = call[q].num => i \notin c.seen
          BY <1>3, <3>3
        <4>. QED BY <1>2, <3>1, <3>3, <4>1, <4>2 DEF OpenSessions
      <3>5. \A i \in DOMAIN session : /\ i \in DOMAIN session'
                                      /\ session'[i].user = session[i].user
                                      /\ session'[i].family = session[i].family
                                      /\ session'[i].cut = session[i].cut
        BY <1>2
      <3>. QED BY <1>1, <1>6, <3>1, <3>2, <3>4, <3>5 DEF SessionCall
    <2>. QED BY <2>1, <2>2
  <1>11. \A u \in User : user'[u].status = "none" => user'[u].cut = 0
    BY <1>1 DEF SessionsOK
  <1>. QED BY <1>5, <1>8, <1>9, <1>10, <1>11 DEF SessionsOK

LEMMA RevocationRows ==
  ASSUME Typed, SessionsOK, NEW p \in Process, RevokeFamily(p)
  PROVE  /\ session' \in Seq(SessionRow)
         /\ DOMAIN session' = DOMAIN session
         /\ \A i \in DOMAIN session :
              /\ session'[i].user = session[i].user
              /\ session'[i].family = session[i].family
              /\ session'[i].next = session[i].next
              /\ session'[i].cut = session[i].cut
              /\ session'[i].via = session[i].via
              /\ session'[i].state = IF i \in call[p].seen /\ session[i].state = "open"
                                       THEN "closed" ELSE session[i].state
  <1> DEFINE rows == Closed(call[p].seen)
             reused(i) == (rows[i].reuse \/ call[p].arg = "reuse")
  <1>1. \A i \in DOMAIN session :
          session'[i] = IF i \in call[p].seen
                          THEN [rows[i] EXCEPT !.reuse = reused(i)] ELSE session[i]
    BY DEF RevokeFamily
  <1>2. session' = [i \in DOMAIN session |-> session'[i]]
    BY DEF RevokeFamily
  <1>3. ASSUME NEW row \in SessionRow, NEW b \in BOOLEAN
        PROVE  /\ [row EXCEPT !.reuse = b] \in SessionRow
               /\ [row EXCEPT !.reuse = b].user = row.user
               /\ [row EXCEPT !.reuse = b].family = row.family
               /\ [row EXCEPT !.reuse = b].next = row.next
               /\ [row EXCEPT !.reuse = b].cut = row.cut
               /\ [row EXCEPT !.reuse = b].via = row.via
               /\ [row EXCEPT !.reuse = b].state = row.state
    BY DEF SessionRow
  <1>4. ASSUME NEW i \in DOMAIN session
        PROVE  /\ session'[i] \in SessionRow
               /\ session'[i].user = session[i].user
               /\ session'[i].family = session[i].family
               /\ session'[i].next = session[i].next
               /\ session'[i].cut = session[i].cut
               /\ session'[i].via = session[i].via
               /\ session'[i].state = IF i \in call[p].seen /\ session[i].state = "open"
                                        THEN "closed" ELSE session[i].state
    <2>1. session[i] \in SessionRow /\ rows[i] \in SessionRow
      BY RowsTyped, ClosedRows, LenProperties, ElementOfSeq
    <2>2. reused(i) \in BOOLEAN
      OBVIOUS
    <2>3. CASE i \in call[p].seen
      <3>1. session'[i] = [rows[i] EXCEPT !.reuse = reused(i)]
        BY <1>1, <2>3
      <3> HIDE DEF reused, rows
      <3>2. /\ session'[i] \in SessionRow
            /\ session'[i].user = rows[i].user
            /\ session'[i].family = rows[i].family
            /\ session'[i].next = rows[i].next
            /\ session'[i].cut = rows[i].cut
            /\ session'[i].via = rows[i].via
            /\ session'[i].state = rows[i].state
        BY <1>3, <2>1, <2>2, <3>1
      <3>. QED BY <2>3, <3>2, ClosedRows DEF rows
    <2>4. CASE i \notin call[p].seen
      BY <1>1, <2>1, <2>4
    <2>. QED BY <2>3, <2>4
  <1>5. session \in Seq(SessionRow)
    BY DEF Typed, TypeOK, SessionsTypeOK
  <1>. QED BY <1>2, <1>4, <1>5, Rewritten

LEMMA RevocationKeeps ==
  ASSUME Typed, SessionsOK, Follows, NEW p \in Process, RevokeFamily(p),
         call'[p] = Idle, Overtakes(OnFamily(call[p].num))
  PROVE  SessionsOK'
  <1>1. /\ call[p].op = "revoke" /\ user' = user
        /\ overlapped' = IF call[p].stale THEN overlapped \cup {call[p].num} ELSE overlapped
    BY DEF RevokeFamily
  <1>2. \A i \in call[p].seen : session[i].family = call[p].num
    BY <1>1 DEF SessionsOK, SessionCall
  <1>3. \A q \in Process : call[q].op \in {"login", "rotate"} =>
          \/ call'[q] = Idle \/ call'[q].stale
          \/ /\ user'[call[q].user].cut = user[call[q].user].cut
             /\ call[q].op = "rotate" =>
                  \A i \in DOMAIN session : session[i].family = call[q].num =>
                    session'[i].state = session[i].state
    <2> SUFFICES ASSUME NEW q \in Process, call[q].op = "rotate",
                        call'[q] # Idle, ~call'[q].stale
                 PROVE  \A i \in DOMAIN session : session[i].family = call[q].num =>
                          session'[i].state = session[i].state
      BY <1>1
    <2>1. call[q].num # call[p].num
      BY DEF Overtakes, OnFamily
    <2>. QED BY <1>2, <2>1, RevocationRows
  <1>. QED BY <1>1, <1>3, ClosingKeeps, RevocationRows

-----------------------------------------------------------------------------
(* The second factor: what its operators do to an account's row.            *)
LEMMA AcceptedRow ==
  ASSUME Typed, FactorsOK, NEW u \in User, NEW f \in Submitted(u), Accepts(u, f)
  PROVE  /\ f \in Factor /\ f.user = u /\ f \notin spent
         /\ Accepted(u, f) \in UserRow
         /\ Accepted(u, f).status = user[u].status /\ Accepted(u, f).cut = user[u].cut
         /\ KeysOK(Accepted(u, f))
         /\ \A g \in spent \cup {f} : g.user = u /\ user[u].status # "none" =>
              SpentOK(Accepted(u, f), g)
  <1> DEFINE row == user[u]
  <1>1. row \in UserRow /\ KeysOK(row)
    BY RowsTyped DEF FactorsOK
  <1>2. /\ f \in Factor /\ f.user = u /\ f.key \in 1..row.keys
        /\ f.kind \in {"totp", "recovery"} /\ f.n \in Nat
    <2>1. row.keys \in Nat /\ MaxStep \in Nat /\ CodeCount \in Nat
      BY <1>1, SessionsAssumption DEF UserRow
    <2>2. CASE f \in [kind : {"totp"}, user : {u}, key : 1..row.keys, n : 1..MaxStep]
      BY <2>1, <2>2 DEF Factor
    <2>3. CASE f \in [kind : {"recovery"}, user : {u}, key : 1..row.keys,
                      n : 1..CodeCount]
      BY <2>1, <2>3 DEF Factor
    <2>. QED BY <2>2, <2>3 DEF Submitted
  <1>3. \A g \in spent : g \in Factor /\ (g.user = u => SpentOK(row, g))
    BY DEF FactorsOK, Typed, TypeOK, SessionsTypeOK
  <1>4. CASE f.kind = "totp"
    <2>1. Accepted(u, f) = [row EXCEPT !.step = f.n] /\ f.key = row.secret /\ f.n > row.step
      BY <1>4 DEF Accepted, Accepts
    <2>2. /\ Accepted(u, f) \in UserRow
          /\ Accepted(u, f).status = row.status /\ Accepted(u, f).cut = row.cut
          /\ Accepted(u, f).secret = row.secret /\ Accepted(u, f).pending = row.pending
          /\ Accepted(u, f).codes = row.codes /\ Accepted(u, f).keys = row.keys
          /\ Accepted(u, f).step = f.n
      BY <1>1, <1>2, <2>1 DEF UserRow
    <2>3. row.step \in Nat
      BY <1>1 DEF UserRow
    <2>4. f \notin spent
      <3>1. f \in spent => SpentOK(row, f)
        BY <1>2, <1>3
      <3>2. ~(f.n <= row.step)
        BY <1>2, <2>1, <2>3
      <3>. QED BY <1>4, <2>1, <3>1, <3>2 DEF SpentOK
    <2>5. KeysOK(Accepted(u, f))
      BY <1>1, <2>2 DEF KeysOK
    <2>6. ASSUME NEW g \in spent, g.user = u, user[u].status # "none"
          PROVE  SpentOK(Accepted(u, f), g)
      <3>1. g.n \in Nat /\ SpentOK(row, g)
        BY <1>3, <2>6 DEF Factor
      <3>. QED BY <1>2, <2>1, <2>2, <2>3, <3>1 DEF SpentOK
    <2>7. user[u].status # "none" => SpentOK(Accepted(u, f), f)
      BY <1>1, <1>2, <1>4, <2>1, <2>2 DEF SpentOK, KeysOK
    <2>. QED BY <1>2, <2>2, <2>4, <2>5, <2>6, <2>7
  <1>5. CASE f.kind = "recovery"
    <2> DEFINE left == row.codes \ {<<f.key, f.n>>}
    <2>1. Accepted(u, f) = [row EXCEPT !.codes = left] /\ <<f.key, f.n>> \in row.codes
      BY <1>5 DEF Accepted, Accepts
    <2>2. /\ Accepted(u, f) \in UserRow
          /\ Accepted(u, f).status = row.status /\ Accepted(u, f).cut = row.cut
          /\ Accepted(u, f).secret = row.secret /\ Accepted(u, f).pending = row.pending
          /\ Accepted(u, f).codes = left /\ Accepted(u, f).keys = row.keys
          /\ Accepted(u, f).step = row.step
      BY <1>1, <1>2, <2>1 DEF UserRow
    <2>3. f \notin spent
      BY <1>2, <1>3, <1>5, <2>1 DEF SpentOK
    <2>4. KeysOK(Accepted(u, f))
      BY <1>1, <2>2 DEF KeysOK
    <2>5. \A g \in spent : g.user = u => SpentOK(Accepted(u, f), g)
      BY <1>3, <2>2 DEF SpentOK
    <2>6. user[u].status # "none" => SpentOK(Accepted(u, f), f)
      BY <1>2, <1>5, <2>2 DEF SpentOK
    <2>. QED BY <1>2, <2>2, <2>3, <2>4, <2>5, <2>6
  <1>. QED BY <1>2, <1>4, <1>5

LEMMA FreshCodesRow ==
  ASSUME NEW row \in UserRow, KeysOK(row)
  PROVE  /\ FreshCodes(row) \in UserRow
         /\ FreshCodes(row).status = row.status /\ FreshCodes(row).cut = row.cut
         /\ KeysOK(FreshCodes(row))
         /\ \A g \in Factor : SpentOK(row, g) => SpentOK(FreshCodes(row), g)
  <1> DEFINE new == {<<row.keys + 1, n>> : n \in 1..CodeCount}
  <1>1. row.keys \in Nat /\ new \subseteq Nat \X Nat
    <2>1. row.keys \in Nat
      BY DEF UserRow
    <2>2. \A n \in 1..CodeCount : n \in Nat
      BY SessionsAssumption
    <2>3. ASSUME NEW code \in new PROVE code \in Nat \X Nat
      <3>1. PICK n \in 1..CodeCount : code = <<row.keys + 1, n>>
        OBVIOUS
      <3>. QED BY <2>1, <2>2, <3>1
    <2> HIDE DEF new
    <2>. QED BY <2>1, <2>3
  <1>2. \A code \in new : code[1] = row.keys + 1
    OBVIOUS
  <1>3. /\ FreshCodes(row) \in UserRow
        /\ FreshCodes(row).status = row.status /\ FreshCodes(row).cut = row.cut
        /\ FreshCodes(row).secret = row.secret /\ FreshCodes(row).pending = row.pending
        /\ FreshCodes(row).step = row.step
        /\ FreshCodes(row).codes = new /\ FreshCodes(row).keys = row.keys + 1
    <2>1. FreshCodes(row) = [row EXCEPT !.codes = new, !.keys = row.keys + 1]
      BY DEF FreshCodes, UserRow
    <2> HIDE DEF new
    <2>2. /\ FreshCodes(row).status = row.status /\ FreshCodes(row).cut = row.cut
          /\ FreshCodes(row).secret = row.secret /\ FreshCodes(row).pending = row.pending
          /\ FreshCodes(row).step = row.step
          /\ FreshCodes(row).codes = new /\ FreshCodes(row).keys = row.keys + 1
      BY <2>1 DEF UserRow
    <2>3. new \in SUBSET (Nat \X Nat) /\ row.keys + 1 \in Nat
      BY <1>1
    <2>4. FreshCodes(row) \in UserRow
      BY <2>1, <2>3 DEF UserRow
    <2>. QED BY <2>2, <2>4
  <1> HIDE DEF new
  <1>4. KeysOK(FreshCodes(row))
    BY <1>1, <1>2, <1>3 DEF KeysOK, UserRow
  <1>5. ASSUME NEW g \in Factor, SpentOK(row, g) PROVE SpentOK(FreshCodes(row), g)
    <2>1. <<g.key, g.n>> \notin new
      BY <1>1, <1>2, <1>5 DEF SpentOK
    <2>. QED BY <1>1, <1>3, <1>5, <2>1 DEF SpentOK
  <1>. QED BY <1>3, <1>4, <1>5

LEMMA ClearedRow ==
  ASSUME NEW row \in UserRow, KeysOK(row)
  PROVE  /\ ClearMfa(row) \in UserRow
         /\ ClearMfa(row).status = row.status /\ ClearMfa(row).cut = row.cut
         /\ KeysOK(ClearMfa(row))
         /\ \A g \in Factor : SpentOK(row, g) => SpentOK(ClearMfa(row), g)
  <1>1. /\ ClearMfa(row) \in UserRow
        /\ ClearMfa(row).status = row.status /\ ClearMfa(row).cut = row.cut
        /\ ClearMfa(row).secret = 0 /\ ClearMfa(row).pending = 0
        /\ ClearMfa(row).step = 0
        /\ ClearMfa(row).codes = {} /\ ClearMfa(row).keys = row.keys
    BY DEF ClearMfa, UserRow
  <1>2. row.keys \in Nat
    BY DEF UserRow
  <1>. QED BY <1>1, <1>2 DEF KeysOK, SpentOK

LEMMA RecordOnce ==
  ASSUME Typed, FactorsOK, NEW f \in Factor, f \notin spent, Record(f)
  PROVE  /\ spent' = spent \cup {f} /\ spent' \subseteq Factor
         /\ respent' = {} /\ respent' \subseteq spent'
  BY DEF Record, FactorsOK, SecondFactorOnce, Typed, TypeOK, SessionsTypeOK

(* A step on the second factor of at most one account, which opens no       *)
(* family of sessions by a challenge.                                       *)
LEMMA FactorsKeep ==
  ASSUME Typed, FactorsOK,
         spent' \subseteq Factor, respent' = {},
         \A u \in User : /\ KeysOK(user'[u])
                         /\ \A f \in spent' : f.user = u => SpentOK(user'[u], f),
         DOMAIN challenge \subseteq DOMAIN challenge',
         \A i \in DOMAIN challenge :
           challenge[i].state # "open" => challenge'[i].state # "open",
         \A i \in DOMAIN challenge' : challenge'[i].attempts <= MaxAttempts,
         \A i \in DOMAIN session' :
           \/ session'[i].via = 0
           \/ \E j \in DOMAIN session : /\ session[j].via = session'[i].via
                                        /\ session[j].family = session'[i].family
  PROVE  FactorsOK'
  <1>1. \A f \in spent' : f.user \in User
    BY DEF Factor
  <1>2. SecondFactorOnce'
    <2>1. ASSUME NEW i \in DOMAIN session', NEW j \in DOMAIN session',
                 session'[i].via = session'[j].via, session'[i].via # 0
          PROVE  session'[i].family = session'[j].family
      <3>1. PICK k \in DOMAIN session : session[k].via = session'[i].via
                                        /\ session[k].family = session'[i].family
        BY <2>1
      <3>2. PICK m \in DOMAIN session : session[m].via = session'[j].via
                                        /\ session[m].family = session'[j].family
        BY <2>1
      <3>. QED BY <2>1, <3>1, <3>2 DEF FactorsOK, SecondFactorOnce
    <2>. QED BY <2>1 DEF SecondFactorOnce
  <1>3. ASSUME NEW i \in DOMAIN session', session'[i].via # 0
        PROVE  /\ session'[i].via \in DOMAIN challenge'
               /\ challenge'[session'[i].via].state # "open"
    <2>1. PICK j \in DOMAIN session : session[j].via = session'[i].via
      BY <1>3
    <2>. QED BY <1>3, <2>1 DEF FactorsOK
  <1>. QED BY <1>1, <1>2, <1>3 DEF FactorsOK

(* Steps that change nothing of the second factor. *)
LEMMA FactorsFrame ==
  ASSUME Typed, FactorsOK, UNCHANGED <<spent, respent, challenge>>,
         \A u \in User :
           /\ user'[u].secret = user[u].secret /\ user'[u].pending = user[u].pending
           /\ user'[u].step = user[u].step /\ user'[u].codes = user[u].codes
           /\ user'[u].keys = user[u].keys
           /\ user'[u].status = "none" => user[u].status = "none",
         \A i \in DOMAIN session' :
           \/ session'[i].via = 0
           \/ \E j \in DOMAIN session : /\ session[j].via = session'[i].via
                                        /\ session[j].family = session'[i].family
  PROVE  FactorsOK'
  <1>1. \A u \in User : /\ KeysOK(user'[u])
                        /\ \A f \in spent : f.user = u => SpentOK(user'[u], f)
    BY DEF FactorsOK, KeysOK, SpentOK
  <1>2. /\ spent \subseteq Factor /\ respent = {}
        /\ \A i \in DOMAIN challenge : challenge[i].attempts <= MaxAttempts
    BY DEF FactorsOK, SecondFactorOnce, Typed, TypeOK, SessionsTypeOK
  <1>. QED BY <1>1, <1>2, FactorsKeep

-----------------------------------------------------------------------------
(* Steps that leave a table alone. *)
LEMMA LinksFrame ==
  ASSUME Typed, LinksOK, Follows, UNCHANGED <<link, relinked>>,
         \A u \in User : user'[u].status = "none" => user[u].status = "none"
  PROVE  LinksOK'
  <1>1. UsableOnce'
    BY DEF LinksOK, UsableOnce
  <1>2. \A i \in DOMAIN link : link[i].user \in User
    BY RowsTyped DEF LinkRow
  <1>3. ASSUME NEW q \in Process PROVE LinkCall(call[q])'
    <2>1. CASE call'[q].op = "idle"
      BY <2>1 DEF LinkCall
    <2>2. CASE call'[q].op # "idle"
      <3>1. /\ call'[q].op = call[q].op /\ call'[q].user = call[q].user
            /\ call'[q].seen = call[q].seen /\ call'[q].arg = call[q].arg
            /\ (call[q].stale => call'[q].stale)
        BY <2>2, FollowsFields
      <3>2. LinkCall(call[q]) /\ call[q].user \in User
        BY <2>2, <3>1 DEF LinksOK, Typed, CallTyped
      <3>3. Usable(call[q].user, call[q].arg)' = Usable(call[q].user, call[q].arg)
        BY <3>1 DEF Usable
      <3>. QED BY <3>1, <3>2, <3>3 DEF LinkCall
    <2>. QED BY <2>1, <2>2
  <1>. QED BY <1>1, <1>2, <1>3 DEF LinksOK

LEMMA InvitationsFrame ==
  ASSUME Typed, InvitationsOK, Follows, UNCHANGED <<invitation, joined>>
  PROVE  InvitationsOK'
  <1>1. \A q \in Process : call'[q].op # "idle" =>
          call'[q].op = call[q].op /\ call'[q].row = call[q].row
    BY FollowsFields
  <1>2. \A q \in Process : InvitationCall(call[q])'
    BY <1>1 DEF InvitationsOK, InvitationCall
  <1>3. \A p, q \in Process : call'[p].op = "accept" /\ call'[q].op = "accept"
          /\ call'[p].row = call'[q].row => p = q
    BY <1>1 DEF InvitationsOK
  <1>4. InvitationAdmitsOnce'
    BY DEF InvitationsOK, InvitationAdmitsOnce
  <1>. QED BY <1>2, <1>3, <1>4 DEF InvitationsOK

LEMMA PlansFrame ==
  ASSUME Typed, PlansOK, Follows, UNCHANGED <<org, member, invitation>>
  PROVE  PlansOK'
  <1>1. ASSUME NEW q \in Process PROVE PlanCall(call[q])'
    <2>1. CASE call'[q].op = "idle"
      BY <2>1 DEF PlanCall
    <2>2. CASE call'[q].op # "idle"
      <3>1. /\ call'[q].op = call[q].op /\ call'[q].org = call[q].org
            /\ (call[q].stale => call'[q].stale)
        BY <2>2, FollowsFields
      <3>2. EnforceUserLimit(call[q].org)' = EnforceUserLimit(call[q].org)
        BY <3>1 DEF EnforceUserLimit, GrowthBlocked, WithinPlan, Seats, IsMember
      <3>. QED BY <3>1, <3>2 DEF PlansOK, PlanCall
    <2>. QED BY <2>1, <2>2
  <1>. QED BY <1>1 DEF PlansOK, IsMember

(* Every table has rows of its kind. *)
TablesTyped ==
  /\ user \in [User -> UserRow]
  /\ access \subseteq AccessToken
  /\ session \in Seq(SessionRow)
  /\ link \in Seq(LinkRow)
  /\ challenge \in Seq(ChallengeRow)
  /\ spent \subseteq Factor /\ respent \subseteq spent
  /\ overlapped \subseteq Families
  /\ relinked \subseteq User \X Purpose

TenantTablesTyped ==
  /\ org \in [Org -> OrgRow]
  /\ member \in [Org -> [User -> MemberRow]]
  /\ joined \in Seq([org : Org, user : User, by : Nat])
  /\ \A o \in Org, u \in User :
       \/ member[o][u] = NoMember
       \/ /\ member[o][u].role # "none"
          /\ member[o][u].id \in DOMAIN joined
          /\ joined[member[o][u].id].org = o /\ joined[member[o][u].id].user = u
  /\ invitation \in Seq(InvitationRow)

LEMMA TablesOf == Typed => TablesTyped /\ TenantTablesTyped /\ budget \in [Area -> Nat]
  BY DEF Typed, TypeOK, TenancyTypeOK, SessionsTypeOK, TablesTyped, TenantTablesTyped

LEMMA TypedAgain ==
  ASSUME Typed, Follows, TablesTyped', TenantTablesTyped', budget' \in [Area -> Nat]
  PROVE  Typed'
  <1>1. \A p \in Process : DOMAIN call'[p] = DOMAIN Idle
    BY FollowsTyped DEF CallTyped, CallRow, Idle
  <1>. QED BY <1>1, FollowsTyped
       DEF Typed, TypeOK, TenancyTypeOK, SessionsTypeOK, TablesTyped, TenantTablesTyped

(* A step that only one area pays for, or none. *)
LEMMA Spent ==
  ASSUME Typed, NEW area \in Area, Spend(area)
  PROVE  budget' \in [Area -> Nat]
  BY TablesOf DEF Spend, Area

LEMMA TenantTablesFrame ==
  ASSUME Typed, UNCHANGED <<org, member, joined, invitation>>
  PROVE  TenantTablesTyped'
  BY TablesOf DEF TenantTablesTyped, NoMember

(* Steps of accounts leave organizations, members and invitations alone.    *)
LEMMA AccountKeeps ==
  ASSUME IInv, Follows, UNCHANGED <<org, member, joined, invitation>>,
         TablesTyped', budget' \in [Area -> Nat], SessionsOK', FactorsOK', LinksOK'
  PROVE  IInv'
  BY TypedAgain, TenantTablesFrame, InvitationsFrame, PlansFrame DEF IInv

-----------------------------------------------------------------------------
(* Requests that begin. *)
LEMMA BeginKeeps ==
  ASSUME IInv, NEW p \in Process, NEW area \in Area, NEW c, Begin(p, area, c),
         UNCHANGED <<user, org, member, joined, access, sessionVars, invitation>>,
         CallTyped(c), SessionCall(c), LinkCall(c), InvitationCall(c), PlanCall(c),
         c.op = "accept" => c.row \notin Held
  PROVE  IInv'
  <1>1. /\ call' = [q \in Process |-> call'[q]] /\ call'[p] = c
        /\ \A q \in Process \ {p} : call'[q] = call[q]
    BY DEF Begin, IInv, Typed
  <1>2. \A q \in Process : CallTyped(call'[q])
    BY <1>1 DEF IInv, Typed
  <1>3. Typed'
    <2>1. \A q \in Process : DOMAIN call'[q] = DOMAIN Idle
      BY <1>2 DEF CallTyped, CallRow, Idle
    <2>2. TablesTyped' /\ TenantTablesTyped'
      BY TablesOf DEF TablesTyped, TenantTablesTyped, NoMember, sessionVars, IInv, Families
    <2>3. budget' \in [Area -> Nat]
      BY Spent DEF Begin, IInv
    <2>. QED BY <1>1, <1>2, <2>1, <2>2, <2>3
         DEF Typed, TypeOK, TenancyTypeOK, SessionsTypeOK, TablesTyped, TenantTablesTyped
  <1>4. SessionsOK'
    <2>1. \A q \in Process : SessionCall(call[q])'
      BY <1>1 DEF IInv, SessionsOK, SessionCall, OpenSessions, sessionVars
    <2>. QED BY <2>1 DEF IInv, SessionsOK, FamiliesOK, OfFamily, OpenOnce,
                         NoOldSession, sessionVars
  <1>5. FactorsOK'
    BY FactorsFrame DEF IInv, sessionVars
  <1>6. LinksOK'
    <2>1. \A q \in Process : LinkCall(call[q])'
      BY <1>1 DEF IInv, LinksOK, LinkCall, Usable, sessionVars
    <2>. QED BY <2>1 DEF IInv, LinksOK, UsableOnce, sessionVars
  <1>7. InvitationsOK'
    <2>1. \A q \in Process : InvitationCall(call[q])'
      BY <1>1 DEF IInv, InvitationsOK, InvitationCall
    <2>2. \A q, r \in Process : call'[q].op = "accept" /\ call'[r].op = "accept"
            /\ call'[q].row = call'[r].row => q = r
      BY <1>1 DEF IInv, InvitationsOK, Held
    <2>. QED BY <2>1, <2>2 DEF IInv, InvitationsOK, InvitationAdmitsOnce
  <1>8. PlansOK'
    <2>1. ASSUME NEW q \in Process PROVE PlanCall(call[q])'
      <3>1. PlanCall(call'[q])
        BY <1>1 DEF IInv, PlansOK
      <3>2. EnforceUserLimit(call[q].org)' = EnforceUserLimit(call'[q].org)
        BY DEF EnforceUserLimit, GrowthBlocked, WithinPlan, Seats, IsMember
      <3>. QED BY <3>1, <3>2 DEF PlanCall
    <2>. QED BY <2>1 DEF IInv, PlansOK, IsMember
  <1>. QED BY <1>3, <1>4, <1>5, <1>6, <1>7, <1>8 DEF IInv

(* The one request of these fields, as a set. *)
Request(op, u, o, row, num, seen, arg) ==
  [op : {op}, user : {u}, org : {o}, row : {row}, num : {num}, seen : {seen},
   arg : {arg}, stale : {FALSE}]

LEMMA RequestKeeps ==
  ASSUME IInv, NEW p \in Process, NEW area \in Area,
         NEW op \in Operation \ {"idle"}, NEW u \in User, NEW o \in Org \cup {None},
         NEW row \in Nat, NEW num \in Nat, NEW seen \in SUBSET Nat, NEW arg \in Argument,
         NEW c \in Request(op, u, o, row, num, seen, arg), Begin(p, area, c),
         UNCHANGED <<user, org, member, joined, access, sessionVars, invitation>>,
         op \in OnAnOrg <=> o # None,
         op = "issue" => arg \in Purpose,
         op \in {"invite", "role"} => arg \in Role,
         op = "role" => row # 0,
         op = "login" => row = user[u].cut,
         op \in {"rotate", "revoke"} =>
           /\ row \in DOMAIN session
           /\ session[row].family = num /\ session[row].user = u
           /\ \A i \in seen : i \in DOMAIN session /\ session[i].family = num,
         op = "rotate" /\ num \notin overlapped =>
           seen = OpenSessions(num) /\ seen # {} /\ session[row].cut = user[u].cut,
         op = "issue" => user[u].status # "none" /\ Usable(u, arg) \subseteq seen,
         op = "accept" => /\ invitation[row].state = "pending" /\ row # 0
                          /\ row \notin Held /\ EnforceUserLimit(o),
         op \in {"resend", "withdraw", "accept"} => row \in DOMAIN invitation,
         op \in {"invite", "accept"} => org[o].exists
  PROVE  IInv'
  <1>1. /\ c.op = op /\ c.user = u /\ c.org = o /\ c.row = row /\ c.num = num
        /\ c.seen = seen /\ c.arg = arg /\ ~c.stale
    BY DEF Request
  <1>2. c \in CallRow
    BY DEF Request, CallRow
  <1>3. CallTyped(c)
    BY <1>1, <1>2 DEF CallTyped
  <1>4. SessionCall(c)
    BY <1>1 DEF SessionCall
  <1>5. LinkCall(c)
    BY <1>1 DEF LinkCall
  <1>6. InvitationCall(c) /\ (c.op = "accept" => c.row \notin Held)
    BY <1>1 DEF InvitationCall
  <1>7. PlanCall(c)
    BY <1>1 DEF PlanCall
  <1>. QED BY <1>3, <1>4, <1>5, <1>6, <1>7, BeginKeeps

LEMMA AuthenticateKeeps ==
  ASSUME IInv, NEW p \in Process, NEW u \in User, Authenticate(p, u), UNCHANGED invitation
  PROVE  IInv'
  <1> DEFINE c(op) == [Idle EXCEPT !.op = op, !.user = u, !.num = user[u].failed,
                                   !.row = user[u].cut, !.arg = user[u].until]
  <1>1. PICK op \in {"fail", "challenge", "login"} : Begin(p, "account", c(op))
    BY DEF Authenticate
  <1>2. c(op) \in Request(op, u, None, user[u].cut, user[u].failed, {}, user[u].until)
    BY DEF Idle, Request
  <1>3. /\ user[u].cut \in Nat /\ user[u].failed \in Nat
        /\ user[u].until \in Argument
    BY RowsTyped DEF IInv, UserRow, Authenticate, Argument
  <1>4. /\ UNCHANGED <<user, org, member, joined, access, sessionVars, invitation>>
        /\ op \in Operation \ {"idle"} /\ op \notin OnAnOrg
        /\ op \notin {"rotate", "revoke", "issue"}
        /\ "account" \in Area
    BY DEF Authenticate, Operation, OnAnOrg, Area
  <1> HIDE DEF c
  <1>. QED BY <1>1, <1>2, <1>3, <1>4, RequestKeeps DEF OnAnOrg

LEMMA IssueKeeps ==
  ASSUME IInv, NEW p \in Process, NEW u \in User,
         ForgotPassword(p, u) \/ ResendVerification(p, u), UNCHANGED invitation
  PROVE  IInv'
  <1> DEFINE c(purpose) == [Idle EXCEPT !.op = "issue", !.user = u, !.arg = purpose,
                                        !.seen = Usable(u, purpose)]
  <1>1. PICK purpose \in Purpose : Begin(p, "account", c(purpose))
    BY DEF ForgotPassword, RequestPasswordReset, ResendVerification,
           SendEmailVerification, IssueToken, Purpose
  <1>2. c(purpose) \in Request("issue", u, None, 0, 0, Usable(u, purpose), purpose)
    BY DEF Idle, Request
  <1>3. UNCHANGED <<user, org, member, joined, access, sessionVars, invitation>>
    BY DEF ForgotPassword, ResendVerification
  <1>4. user[u].status # "none"
    BY DEF ForgotPassword, RequestPasswordReset, ResendVerification, SignedIn,
           VerifiedTokens, CurrentContext, AuthoritativeAccess
  <1>5. Usable(u, purpose) \in SUBSET Nat
    BY RowsTyped DEF IInv, Usable
  <1>6. /\ "issue" \in Operation \ {"idle"} /\ "issue" \notin OnAnOrg
        /\ purpose \in Argument /\ "account" \in Area
    BY DEF Operation, OnAnOrg, Argument, Area
  <1> HIDE DEF c
  <1>. QED BY <1>1, <1>2, <1>3, <1>4, <1>5, <1>6, RequestKeeps

LEMMA SetupKeeps ==
  ASSUME IInv, NEW p \in Process, NEW u \in User, BeginMfaSetup(p, u), UNCHANGED invitation
  PROVE  IInv'
  <1> DEFINE c == [Idle EXCEPT !.op = "setup", !.user = u]
  <1>1. Begin(p, "account", c)
    BY DEF BeginMfaSetup
  <1>2. c \in Request("setup", u, None, 0, 0, {}, "none")
    BY DEF Idle, Request
  <1>3. UNCHANGED <<user, org, member, joined, access, sessionVars, invitation>>
    BY DEF BeginMfaSetup
  <1>4. /\ "setup" \in Operation \ {"idle"} /\ "setup" \notin OnAnOrg
        /\ "none" \in Argument /\ "account" \in Area
    BY DEF Operation, OnAnOrg, Argument, Area
  <1> HIDE DEF c
  <1>. QED BY <1>1, <1>2, <1>3, <1>4, RequestKeeps

(* What may be rotated is what is open of its family. *)
LEMMA RefreshKeeps ==
  ASSUME IInv, NEW p \in Process, NEW i \in DOMAIN session, NEW retry \in BOOLEAN,
         Refresh(p, i, retry) \/ Logout(p, i), UNCHANGED invitation
  PROVE  IInv'
  <1> DEFINE u == session[i].user
             f == session[i].family
             c(op, rows, arg) == [Idle EXCEPT !.op = op, !.user = u, !.row = i, !.num = f,
                                              !.seen = rows, !.arg = arg]
  <1>1. /\ i \in Nat /\ u \in User /\ f \in Nat
        /\ \A j \in DOMAIN session : j \in Nat
    BY RowsTyped DEF IInv, SessionRow
  <1>2. /\ "rotate" \in Operation \ {"idle"} /\ "rotate" \notin OnAnOrg
        /\ "revoke" \in Operation \ {"idle"} /\ "revoke" \notin OnAnOrg
        /\ {"none", "reuse", "logout"} \subseteq Argument /\ "account" \in Area
    BY DEF Operation, OnAnOrg, Argument, Area
  <1>3. UNCHANGED <<user, org, member, joined, access, sessionVars, invitation>>
    BY DEF Refresh, Logout, OnSession
  <1>4. ASSUME NEW op, NEW rows, NEW arg
        PROVE  c(op, rows, arg) \in Request(op, u, None, i, f, rows, arg)
    BY DEF Idle, Request
  <1>5. \/ /\ session[i].state = "open"
           /\ Begin(p, "account", c("rotate", {i}, "none"))
        \/ /\ UnusedSuccessor(i, retry)
           /\ Begin(p, "account", c("rotate", {session[i].next}, "none"))
        \/ Begin(p, "account", c("revoke", OpenSessions(f), "reuse"))
        \/ Begin(p, "account", c("revoke", OpenSessions(f), "logout"))
    BY DEF Refresh, Logout, OnSession
  <1> HIDE DEF c
  <1>6. ASSUME NEW j \in DOMAIN session, session[j].family = f, session[j].state = "open",
               Begin(p, "account", c("rotate", {j}, "none"))
        PROVE  IInv'
    <2>1. f \notin overlapped => {j} = OpenSessions(f)
      BY <1>6 DEF IInv, SessionsOK, OpenOnce, OpenSessions
    <2>2. session[j].user = u /\ session[j].cut = session[i].cut
      BY <1>6 DEF IInv, SessionsOK, FamiliesOK, OfFamily
    <2>3. f \notin overlapped => session[i].cut = user[u].cut
      BY <1>6, <2>2 DEF IInv, SessionsOK, NoOldSession
    <2>4. c("rotate", {j}, "none") \in Request("rotate", u, None, i, f, {j}, "none")
      BY <1>4
    <2>. QED BY <1>1, <1>2, <1>3, <1>6, <2>1, <2>3, <2>4, RequestKeeps
  <1>7. ASSUME NEW arg \in {"reuse", "logout"},
               Begin(p, "account", c("revoke", OpenSessions(f), arg))
        PROVE  IInv'
    <2>1. OpenSessions(f) \in SUBSET Nat
          /\ \A j \in OpenSessions(f) : j \in DOMAIN session /\ session[j].family = f
      BY <1>1 DEF OpenSessions
    <2>2. c("revoke", OpenSessions(f), arg)
            \in Request("revoke", u, None, i, f, OpenSessions(f), arg)
      BY <1>4
    <2>. QED BY <1>1, <1>2, <1>3, <1>7, <2>1, <2>2, RequestKeeps
  <1>8. UnusedSuccessor(i, retry) =>
          /\ session[i].next \in DOMAIN session
          /\ session[session[i].next].family = f
          /\ session[session[i].next].state = "open"
    BY DEF UnusedSuccessor, IInv, SessionsOK, FamiliesOK
  <1>. QED BY <1>5, <1>6, <1>7, <1>8

(* Requests of an organization.  Whoever is let in acts where it exists.    *)
LEMMA Permitted ==
  ASSUME IInv, NEW o \in Org, NEW a \in User, NEW permission,
         RequirePermission(o, a, permission)
  PROVE  org[o].exists
  BY TenancyAssumption
  DEF RequirePermission, VerifiedTokens, CurrentContext, AuthoritativeAccess, IInv, PlansOK

LEMMA RegisterKeeps ==
  ASSUME IInv, NEW p \in Process, NEW u \in User, NEW o \in Org, Register(p, u, o)
  PROVE  IInv'
  <1> DEFINE c == [Idle EXCEPT !.op = "register", !.user = u, !.org = o]
  <1>1. /\ Begin(p, "tenant", c)
        /\ UNCHANGED <<user, org, member, joined, access, sessionVars, invitation>>
    BY DEF Register
  <1>2. c \in Request("register", u, o, 0, 0, {}, "none")
    BY DEF Idle, Request
  <1>3. /\ "register" \in Operation \ {"idle"} /\ "register" \in OnAnOrg
        /\ "none" \in Argument /\ "tenant" \in Area /\ o # None
    BY TenancyAssumption DEF Operation, OnAnOrg, Argument, Area
  <1> HIDE DEF c
  <1>. QED BY <1>1, <1>2, <1>3, RequestKeeps

LEMMA CreateInvitationKeeps ==
  ASSUME IInv, NEW p \in Process, NEW a \in User, NEW u \in User, NEW o \in Org,
         NEW role \in Offered, CreateInvitation(p, a, o, u, role)
  PROVE  IInv'
  <1> DEFINE c == [Idle EXCEPT !.op = "invite", !.user = u, !.org = o, !.arg = role]
  <1>1. /\ Begin(p, "tenant", c)
        /\ UNCHANGED <<user, org, member, joined, access, sessionVars, invitation>>
    BY DEF CreateInvitation
  <1>2. c \in Request("invite", u, o, 0, 0, {}, role)
    BY DEF Idle, Request
  <1>3. /\ "invite" \in Operation \ {"idle"} /\ "invite" \in OnAnOrg
        /\ role \in Argument /\ role \in Role /\ "tenant" \in Area /\ o # None
    BY TenancyAssumption, AccountsAssumption DEF Operation, OnAnOrg, Argument, Area
  <1>4. org[o].exists
    BY Permitted DEF CreateInvitation
  <1> HIDE DEF c
  <1>. QED BY <1>1, <1>2, <1>3, <1>4, RequestKeeps

LEMMA OnInvitationKeeps ==
  ASSUME IInv, NEW p \in Process, NEW a \in User, NEW i \in DOMAIN invitation,
         ResendInvitation(p, a, i) \/ RevokeInvitation(p, a, i)
  PROVE  IInv'
  <1> DEFINE c(op) == [Idle EXCEPT !.op = op, !.user = a, !.org = invitation[i].org,
                                   !.row = i]
  <1>1. PICK op \in {"resend", "withdraw"} : Begin(p, "tenant", c(op))
    BY DEF ResendInvitation, RevokeInvitation, OnInvitation
  <1>2. UNCHANGED <<user, org, member, joined, access, sessionVars, invitation>>
    BY DEF ResendInvitation, RevokeInvitation, OnInvitation
  <1>3. c(op) \in Request(op, a, invitation[i].org, i, 0, {}, "none")
    BY DEF Idle, Request
  <1>4. /\ op \in Operation \ {"idle"} /\ op \in OnAnOrg /\ op \notin {"issue", "accept", "invite"}
        /\ op \notin {"login", "rotate", "revoke", "role"}
        /\ "none" \in Argument /\ "tenant" \in Area
    BY DEF Operation, OnAnOrg, Argument, Area
  <1>5. i \in Nat /\ invitation[i].org \in Org /\ invitation[i].org # None
    BY RowsTyped, TenancyAssumption DEF IInv, InvitationRow
  <1> HIDE DEF c
  <1>. QED BY <1>1, <1>2, <1>3, <1>4, <1>5, RequestKeeps

LEMMA AcceptKeeps ==
  ASSUME IInv, NEW p \in Process, NEW i \in DOMAIN invitation, AcceptInvitation(p, i)
  PROVE  IInv'
  <1> DEFINE o == invitation[i].org
             u == invitation[i].user
             new == IF user[u].status = "none" THEN 1 ELSE 0
             c(num) == [Idle EXCEPT !.op = "accept", !.user = u, !.org = o, !.row = i,
                                    !.num = num]
  <1>1. /\ Begin(p, "tenant", c(new))
        /\ UNCHANGED <<user, org, member, joined, access, sessionVars, invitation>>
        /\ invitation[i].state = "pending" /\ i \notin Held /\ EnforceUserLimit(o)
    BY DEF AcceptInvitation, MayAccept, Pending
  <1>2. PICK num \in Nat : num = new
    OBVIOUS
  <1>3. c(num) \in Request("accept", u, o, i, num, {}, "none")
    BY DEF Idle, Request
  <1>4. /\ "accept" \in Operation \ {"idle"} /\ "accept" \in OnAnOrg
        /\ "none" \in Argument /\ "tenant" \in Area
    BY DEF Operation, OnAnOrg, Argument, Area
  <1>5. /\ i \in Nat /\ o \in Org /\ u \in User /\ o # None /\ i # 0
    BY RowsTyped, TenancyAssumption DEF IInv, InvitationRow
  <1>6. org[o].exists
    BY DEF IInv, PlansOK
  <1>7. Begin(p, "tenant", c(num))
    BY <1>1, <1>2
  <1> HIDE DEF c, new
  <1>. QED BY <1>1, <1>3, <1>4, <1>5, <1>6, <1>7, RequestKeeps

LEMMA OnMemberKeeps ==
  ASSUME IInv, NEW p \in Process, NEW a \in User, NEW u \in User, NEW o \in Org,
         \/ \E role \in Offered : SetRole(p, a, o, u, role)
         \/ RemoveMember(p, a, o, u)
         \/ ResetMemberMfa(p, a, o, u)
  PROVE  IInv'
  <1> DEFINE c(op, arg) == [Idle EXCEPT !.op = op, !.user = u, !.org = o,
                                        !.row = member[o][u].id, !.arg = arg]
  <1>1. PICK op \in {"role", "remove", "reset_mfa"}, arg \in Offered \cup {"none"} :
          Begin(p, "tenant", c(op, arg)) /\ (op = "role" => arg \in Offered)
    BY DEF SetRole, RemoveMember, ResetMemberMfa, OnMember
  <1>2. UNCHANGED <<user, org, member, joined, access, sessionVars, invitation>>
    BY DEF SetRole, RemoveMember, ResetMemberMfa, OnMember
  <1>3. c(op, arg) \in Request(op, u, o, member[o][u].id, 0, {}, arg)
    BY DEF Idle, Request
  <1>4. /\ op \in Operation \ {"idle"} /\ op \in OnAnOrg
        /\ op \notin {"issue", "accept", "invite", "resend", "withdraw"}
        /\ op \notin {"login", "rotate", "revoke"}
        /\ arg \in Argument /\ "tenant" \in Area
    BY AccountsAssumption DEF Operation, OnAnOrg, Argument, Area
  <1>5. op = "role" => arg \in Role
    BY <1>1, AccountsAssumption
  <1>6. member[o][u].id \in Nat \ {0} /\ o # None
    <2>1. IsMember(o, u)
      BY DEF SetRole, RemoveMember, ResetMemberMfa, OnMember
    <2>. QED BY <2>1, TablesOf, TenancyAssumption
         DEF IInv, TenantTablesTyped, MemberRow, IsMember
  <1> HIDE DEF c
  <1>. QED BY <1>1, <1>2, <1>3, <1>4, <1>5, <1>6, RequestKeeps

-----------------------------------------------------------------------------
(* Steps of an account. *)
LEMMA RowWritten ==
  ASSUME Typed, NEW u \in User, NEW row \in UserRow, user' = [user EXCEPT ![u] = row]
  PROVE  /\ user' \in [User -> UserRow]
         /\ user'[u] = row
         /\ \A v \in User : v # u => user'[v] = user[v]
  BY RowsTyped

(* The session opened for an account names an organization that has it.     *)
LEMMA FirstMembership ==
  ASSUME Typed, NEW u \in User
  PROVE  ActiveMembership(u) \in Org \cup {None}
  <1> DEFINE Mine == {o \in Org : IsMember(o, u)}
             R == OpToRel(<, Nat)
             Ids == {member[o][u].id : o \in Mine}
  <1>1. \A o \in Org : member[o][u].id \in Nat
    BY TablesOf DEF TenantTablesTyped, MemberRow
  <1>2. CASE Mine # {}
    <2>1. Ids \subseteq Nat /\ Ids # {}
      BY <1>1, <1>2
    <2>2. PICK n \in Ids : \A m \in Ids : ~(<<m, n>> \in R)
      <3> HIDE DEF R, Ids
      <3>. QED BY <2>1, NatLessThanWellFounded, WFMin DEF R
    <2>3. PICK o \in Mine : n = member[o][u].id
      BY <2>2
    <2>4. ASSUME NEW q \in Org, IsMember(q, u)
          PROVE  member[o][u].id <= member[q][u].id
      <3>1. ~(<<member[q][u].id, n>> \in R)
        BY <2>2, <2>4
      <3>2. ~(member[q][u].id < n)
        BY <1>1, <2>3, <3>1 DEF OpToRel
      <3>. QED BY <1>1, <2>3, <3>2
    <2>5. \E w \in Org : /\ IsMember(w, u)
                         /\ \A q \in Org : IsMember(q, u) =>
                              member[w][u].id <= member[q][u].id
      BY <2>3, <2>4
    <2>. QED BY <2>5 DEF ActiveMembership
  <1>3. CASE Mine = {}
    BY <1>3 DEF ActiveMembership
  <1>. QED BY <1>2, <1>3

LEMMA AccessIssued ==
  ASSUME Typed, NEW u \in User, IssueAccess(u)
  PROVE  access' \subseteq AccessToken
  <1>1. user[u].cut \in Nat
    BY RowsTyped DEF UserRow
  <1>. QED BY <1>1, FirstMembership, TablesOf DEF IssueAccess, AccessToken, TablesTyped

(* An account's row changes, and neither its status nor its count of        *)
(* revocations.                                                             *)
LEMMA QuietKeeps ==
  ASSUME IInv, Follows, NEW u \in User, NEW row \in UserRow,
         user' = [user EXCEPT ![u] = row],
         row.status = user[u].status, row.cut = user[u].cut,
         UNCHANGED <<org, member, joined, invitation, access, session, link,
                     overlapped, relinked>>,
         challenge' \in Seq(ChallengeRow), spent' \subseteq Factor,
         respent' \subseteq spent', budget' \in [Area -> Nat], FactorsOK'
  PROVE  IInv'
  <1>1. /\ user' \in [User -> UserRow]
        /\ \A v \in User : user'[v].status = user[v].status /\ user'[v].cut = user[v].cut
    BY RowWritten DEF IInv
  <1>2. SessionsOK' /\ LinksOK'
    BY <1>1, SessionsFrame, LinksFrame DEF IInv
  <1>3. TablesTyped'
    BY <1>1, TablesOf DEF IInv, TablesTyped, Families
  <1>. QED BY <1>2, <1>3, AccountKeeps

LEMMA CountFailureKeeps ==
  ASSUME IInv, NEW p \in Process, CountFailure(p), UNCHANGED invitation
  PROVE  IInv'
  <1> DEFINE u == call[p].user
             full == (call[p].num + 1 >= MaxFailed)
             failed == IF full THEN 0 ELSE call[p].num + 1
             until == IF full THEN "ahead" ELSE user[u].until
             row == [user[u] EXCEPT !.failed = failed, !.until = until]
  <1>1. u \in User /\ user[u] \in UserRow /\ call[p].num \in Nat
    BY RowsTyped DEF IInv, Typed, CallTyped, CallRow, CountFailure
  <1>2. user' = [user EXCEPT ![u] = row]
    BY DEF CountFailure
  <1>3. failed \in Nat /\ until \in {"none", "ahead", "past"}
    BY <1>1 DEF UserRow
  <1> HIDE DEF failed, until
  <1>4. /\ row \in UserRow /\ row.status = user[u].status /\ row.cut = user[u].cut
        /\ row.secret = user[u].secret /\ row.pending = user[u].pending
        /\ row.step = user[u].step /\ row.codes = user[u].codes
        /\ row.keys = user[u].keys
    BY <1>1, <1>3 DEF UserRow
  <1> HIDE DEF row
  <1>5. Follows /\ UNCHANGED <<org, member, joined, access, budget, sessionVars>>
    BY SettleFollows DEF CountFailure, IInv
  <1>6. FactorsOK'
    BY <1>1, <1>2, <1>4, <1>5, RowWritten, FactorsFrame DEF IInv, sessionVars
  <1>. QED BY <1>1, <1>2, <1>4, <1>5, <1>6, QuietKeeps, TablesOf
           DEF IInv, TablesTyped, sessionVars

LEMMA LockExpiresKeeps ==
  ASSUME IInv, NEW u \in User, LockExpires(u), UNCHANGED invitation
  PROVE  IInv'
  <1> DEFINE row == [user[u] EXCEPT !.until = "past"]
  <1>1. user[u] \in UserRow
    BY RowsTyped DEF IInv
  <1>2. user' = [user EXCEPT ![u] = row]
    BY DEF LockExpires
  <1>3. /\ row \in UserRow /\ row.status = user[u].status /\ row.cut = user[u].cut
        /\ row.secret = user[u].secret /\ row.pending = user[u].pending
        /\ row.step = user[u].step /\ row.codes = user[u].codes
        /\ row.keys = user[u].keys
    BY <1>1 DEF UserRow
  <1> HIDE DEF row
  <1>4. Follows /\ UNCHANGED <<org, member, joined, access, budget, sessionVars>>
    BY StillFollows DEF LockExpires, IInv
  <1>5. FactorsOK'
    BY <1>2, <1>3, <1>4, RowWritten, FactorsFrame DEF IInv, sessionVars
  <1>. QED BY <1>2, <1>3, <1>4, <1>5, QuietKeeps, TablesOf DEF IInv, TablesTyped, sessionVars

(* A key to be confirmed has a number of its own. *)
LEMMA MfaSetupKeeps ==
  ASSUME IInv, NEW p \in Process, MfaSetup(p), UNCHANGED invitation
  PROVE  IInv'
  <1> DEFINE u == call[p].user
             n == user[u].keys + 1
             row == [user[u] EXCEPT !.pending = n, !.keys = n]
  <1>1. u \in User /\ user[u] \in UserRow
    BY RowsTyped DEF IInv, Typed, CallTyped, CallRow, MfaSetup
  <1>2. user' = [user EXCEPT ![u] = row]
    BY <1>1 DEF MfaSetup, UserRow
  <1>3. user[u].keys \in Nat /\ n \in Nat /\ n = user[u].keys + 1 /\ user[u].secret \in Nat
    BY <1>1 DEF UserRow
  <1> HIDE DEF n
  <1>4. /\ row \in UserRow /\ row.status = user[u].status /\ row.cut = user[u].cut
        /\ row.secret = user[u].secret /\ row.pending = n
        /\ row.step = user[u].step /\ row.codes = user[u].codes
        /\ row.keys = n
    BY <1>1, <1>3 DEF UserRow
  <1> HIDE DEF row
  <1>5. Follows /\ UNCHANGED <<org, member, joined, access, budget, sessionVars>>
    BY SettleFollows DEF MfaSetup, IInv
  <1>6. KeysOK(row)
    <2>1. KeysOK(user[u]) /\ \A code \in user[u].codes : code[1] \in Nat
      BY <1>1 DEF IInv, FactorsOK, UserRow
    <2>. QED BY <1>3, <1>4, <2>1 DEF KeysOK
  <1>7. \A f \in spent : f.user = u => SpentOK(row, f)
    <2>1. \A f \in spent : f \in Factor /\ (f.user = u => SpentOK(user[u], f))
      BY TablesOf DEF IInv, FactorsOK, TablesTyped
    <2>. QED BY <1>3, <1>4, <2>1 DEF SpentOK, Factor
  <1>8. FactorsOK'
    <2>1. \A v \in User : KeysOK(user'[v]) /\ \A f \in spent : f.user = v => SpentOK(user'[v], f)
      BY <1>1, <1>2, <1>4, <1>6, <1>7, RowWritten DEF IInv, FactorsOK
    <2>2. /\ respent = {} /\ \A i \in DOMAIN challenge : challenge[i].attempts <= MaxAttempts
      BY DEF IInv, FactorsOK, SecondFactorOnce
    <2>. QED BY <1>5, <2>1, <2>2, FactorsKeep, TablesOf DEF IInv, TablesTyped, sessionVars
  <1>. QED BY <1>1, <1>2, <1>4, <1>5, <1>8, QuietKeeps, TablesOf
           DEF IInv, TablesTyped, sessionVars

(* A second factor is taken and recorded in the row it was checked against. *)
LEMMA FactorTaken ==
  ASSUME IInv, NEW u \in User, NEW row \in UserRow, user' = [user EXCEPT ![u] = row],
         KeysOK(row), NEW f \in Factor, f \notin spent, f.user = u, Record(f),
         \A g \in spent \cup {f} : g.user = u => SpentOK(row, g)
  PROVE  /\ \A v \in User : /\ KeysOK(user'[v])
                            /\ \A g \in spent' : g.user = v => SpentOK(user'[v], g)
         /\ spent' \subseteq Factor /\ respent' = {} /\ respent' \subseteq spent'
  <1>1. /\ spent' = spent \cup {f} /\ spent' \subseteq Factor
        /\ respent' = {} /\ respent' \subseteq spent'
    BY RecordOnce DEF IInv
  <1>2. user'[u] = row /\ \A v \in User : v # u => user'[v] = user[v]
    BY RowWritten DEF IInv
  <1>3. ASSUME NEW v \in User
        PROVE  KeysOK(user'[v]) /\ \A g \in spent' : g.user = v => SpentOK(user'[v], g)
    <2>1. CASE v = u
      BY <1>1, <1>2, <2>1
    <2>2. CASE v # u
      BY <1>1, <1>2, <2>2 DEF IInv, FactorsOK
    <2>. QED BY <2>1, <2>2
  <1>. QED BY <1>1, <1>3

LEMMA LockedAccountKeeps ==
  ASSUME IInv, NEW u \in User, NEW row \in UserRow, LockedAccount(u),
         user' = [user EXCEPT ![u] = row], UNCHANGED invitation,
         row.status = user[u].status, row.cut = user[u].cut, KeysOK(row),
         NEW f \in Factor, f \notin spent, f.user = u, Record(f),
         \A g \in spent \cup {f} : g.user = u => SpentOK(row, g)
  PROVE  IInv'
  <1>1. /\ UNCHANGED <<org, member, joined, access, call, session, link, challenge,
                       overlapped, relinked, invitation>>
        /\ budget' \in [Area -> Nat]
    BY Spent DEF LockedAccount, IInv, Area
  <1>2. /\ \A v \in User : /\ KeysOK(user'[v])
                           /\ \A g \in spent' : g.user = v => SpentOK(user'[v], g)
        /\ spent' \subseteq Factor /\ respent' = {} /\ respent' \subseteq spent'
    BY FactorTaken
  <1>3. FactorsOK'
    <2>1. \A i \in DOMAIN challenge : challenge[i].attempts <= MaxAttempts
      BY DEF IInv, FactorsOK, SecondFactorOnce
    <2>. QED BY <1>1, <1>2, <2>1, FactorsKeep DEF IInv
  <1>4. Follows
    BY <1>1, StillFollows DEF IInv
  <1>5. challenge' \in Seq(ChallengeRow)
    BY <1>1, TablesOf DEF IInv, TablesTyped
  <1>. QED BY <1>1, <1>2, <1>3, <1>4, <1>5, QuietKeeps

LEMMA SignedInActive ==
  ASSUME NEW u \in User, SignedIn(u)
  PROVE  user[u].status = "active"
  BY DEF SignedIn, VerifiedTokens, CurrentContext, AuthoritativeAccess

LEMMA ConfirmMfaKeeps ==
  ASSUME IInv, NEW u \in User, NEW step \in 1..MaxStep, ConfirmMfa(u, step),
         UNCHANGED invitation
  PROVE  IInv'
  <1> DEFINE old == user[u]
             mid == [old EXCEPT !.secret = old.pending, !.pending = 0, !.step = step]
             f == [kind |-> "totp", user |-> u, key |-> old.pending, n |-> step]
  <1>1. /\ old \in UserRow /\ KeysOK(old) /\ old.status = "active" /\ step \in Nat
    BY RowsTyped, SignedInActive, SessionsAssumption
       DEF IInv, FactorsOK, ConfirmMfa, LockedAccount
  <1>2. /\ LockedAccount(u) /\ user' = [user EXCEPT ![u] = FreshCodes(mid)]
        /\ Record(f) /\ old.pending # 0
    BY DEF ConfirmMfa
  <1>3. /\ mid \in UserRow /\ mid.status = old.status /\ mid.cut = old.cut
        /\ mid.secret = old.pending /\ mid.pending = 0 /\ mid.step = step
        /\ mid.codes = old.codes /\ mid.keys = old.keys
    BY <1>1 DEF UserRow
  <1> HIDE DEF mid
  <1>4. /\ f \in Factor /\ f.user = u /\ f.kind = "totp" /\ f.key = old.pending
        /\ f.n = step
    BY <1>1 DEF Factor, UserRow
  <1> HIDE DEF f
  <1>5. /\ old.pending \in Nat /\ old.keys \in Nat /\ old.pending \in 1..old.keys
    BY <1>1, <1>2 DEF UserRow, KeysOK
  <1>6. KeysOK(mid)
    BY <1>1, <1>2, <1>3, <1>5 DEF KeysOK
  <1>7. ASSUME NEW g \in spent, g.user = u PROVE SpentOK(mid, g)
    <2>1. SpentOK(old, g)
      BY <1>7 DEF IInv, FactorsOK
    <2>. QED BY <1>3, <1>5, <2>1 DEF SpentOK
  <1>8. f \notin spent
    BY <1>4 DEF IInv, FactorsOK, SpentOK
  <1>9. SpentOK(mid, f)
    BY <1>1, <1>3, <1>4, <1>5 DEF SpentOK
  <1>10. \A g \in spent : g \in Factor
    BY TablesOf DEF IInv, TablesTyped
  <1>11. /\ FreshCodes(mid) \in UserRow
         /\ FreshCodes(mid).status = old.status /\ FreshCodes(mid).cut = old.cut
         /\ KeysOK(FreshCodes(mid))
         /\ \A g \in spent \cup {f} : g.user = u => SpentOK(FreshCodes(mid), g)
    BY <1>3, <1>4, <1>6, <1>7, <1>9, <1>10, FreshCodesRow
  <1>. QED BY <1>2, <1>4, <1>8, <1>11, LockedAccountKeeps

LEMMA FactorUsedKeeps ==
  ASSUME IInv, NEW u \in User, NEW f \in Submitted(u),
         DisableMfa(u, f) \/ RegenerateRecoveryCodes(u, f), UNCHANGED invitation
  PROVE  IInv'
  <1> DEFINE row == Accepted(u, f)
  <1>1. LockedAccount(u) /\ Accepts(u, f) /\ Record(f)
    BY DEF DisableMfa, RegenerateRecoveryCodes
  <1>2. user[u].status = "active"
    BY <1>1, SignedInActive DEF LockedAccount
  <1>3. /\ f \in Factor /\ f.user = u /\ f \notin spent
        /\ row \in UserRow /\ row.status = user[u].status /\ row.cut = user[u].cut
        /\ KeysOK(row) /\ \A g \in spent \cup {f} : g.user = u => SpentOK(row, g)
    BY <1>1, <1>2, AcceptedRow DEF IInv
  <1>4. \A g \in spent \cup {f} : g \in Factor
    BY <1>3, TablesOf DEF IInv, TablesTyped
  <1> HIDE DEF row
  <1>5. CASE user' = [user EXCEPT ![u] = ClearMfa(row)]
    <2>1. PICK new \in UserRow : new = ClearMfa(row)
      BY <1>3, ClearedRow
    <2>2. /\ new.status = user[u].status /\ new.cut = user[u].cut /\ KeysOK(new)
          /\ \A g \in spent \cup {f} : g.user = u => SpentOK(new, g)
      BY <1>3, <1>4, <2>1, ClearedRow
    <2>3. user' = [user EXCEPT ![u] = new]
      BY <1>5, <2>1
    <2>. QED BY <1>1, <1>3, <2>2, <2>3, LockedAccountKeeps
  <1>6. CASE user' = [user EXCEPT ![u] = FreshCodes(row)]
    <2>1. PICK new \in UserRow : new = FreshCodes(row)
      BY <1>3, FreshCodesRow
    <2>2. /\ new.status = user[u].status /\ new.cut = user[u].cut /\ KeysOK(new)
          /\ \A g \in spent \cup {f} : g.user = u => SpentOK(new, g)
      BY <1>3, <1>4, <2>1, FreshCodesRow
    <2>3. user' = [user EXCEPT ![u] = new]
      BY <1>6, <2>1
    <2>. QED BY <1>1, <1>3, <2>2, <2>3, LockedAccountKeeps
  <1>. QED BY <1>5, <1>6 DEF DisableMfa, RegenerateRecoveryCodes, row

-----------------------------------------------------------------------------
(* Login *)
LEMMA ForgottenRow ==
  ASSUME Typed, NEW p \in Process, call[p].user \in User, ForgetFailures(call[p])
  PROVE  \E row \in UserRow :
           /\ user' = [user EXCEPT ![call[p].user] = row]
           /\ row.status = user[call[p].user].status /\ row.cut = user[call[p].user].cut
           /\ row.secret = user[call[p].user].secret
           /\ row.pending = user[call[p].user].pending
           /\ row.step = user[call[p].user].step /\ row.codes = user[call[p].user].codes
           /\ row.keys = user[call[p].user].keys
  <1> DEFINE u == call[p].user
             failed == IF call[p].num = 0 THEN user[u].failed ELSE 0
             until == IF call[p].arg = "none" THEN user[u].until ELSE "none"
             row == [user[u] EXCEPT !.failed = failed, !.until = until]
  <1>1. user[u] \in UserRow
    BY RowsTyped
  <1>2. failed \in Nat /\ until \in {"none", "ahead", "past"}
    BY <1>1 DEF UserRow
  <1>3. user' = [user EXCEPT ![u] = row]
    BY DEF ForgetFailures
  <1> HIDE DEF failed, until
  <1>4. /\ row \in UserRow /\ row.status = user[u].status /\ row.cut = user[u].cut
        /\ row.secret = user[u].secret /\ row.pending = user[u].pending
        /\ row.step = user[u].step /\ row.codes = user[u].codes
        /\ row.keys = user[u].keys
    BY <1>1, <1>2 DEF UserRow
  <1> HIDE DEF row
  <1>. QED BY <1>3, <1>4

(* A challenge that begins, or costs an attempt, leaves the rest alone.     *)
LEMMA ChallengesKept ==
  ASSUME IInv, UNCHANGED <<spent, respent, session>>,
         \A v \in User : /\ user'[v].secret = user[v].secret
                         /\ user'[v].pending = user[v].pending
                         /\ user'[v].step = user[v].step /\ user'[v].codes = user[v].codes
                         /\ user'[v].keys = user[v].keys
                         /\ user'[v].status = user[v].status,
         DOMAIN challenge \subseteq DOMAIN challenge',
         \A i \in DOMAIN challenge : challenge'[i].state = challenge[i].state,
         \A i \in DOMAIN challenge' : challenge'[i].attempts <= MaxAttempts
  PROVE  FactorsOK'
  <1>1. /\ \A v \in User : KeysOK(user[v])
        /\ \A v \in User : \A f \in spent : f.user = v => SpentOK(user[v], f)
        /\ respent = {}
    BY DEF IInv, FactorsOK, SecondFactorOnce
  <1>2. \A v \in User : /\ KeysOK(user'[v])
                        /\ \A f \in spent : f.user = v => SpentOK(user'[v], f)
    BY <1>1 DEF KeysOK, SpentOK
  <1>. QED BY <1>1, <1>2, FactorsKeep, TablesOf DEF IInv, TablesTyped

LEMMA CreateChallengeKeeps ==
  ASSUME IInv, NEW p \in Process, CreateChallenge(p), UNCHANGED invitation
  PROVE  IInv'
  <1> DEFINE u == call[p].user
             new == [user |-> u, attempts |-> 0, cut |-> call[p].row, state |-> "open"]
  <1>1. /\ u \in User /\ call[p].row \in Nat
        /\ ForgetFailures(call[p]) /\ challenge' = Append(challenge, new)
    BY DEF CreateChallenge, IInv, Typed, CallTyped, CallRow
  <1>2. PICK row \in UserRow :
          /\ user' = [user EXCEPT ![u] = row]
          /\ row.status = user[u].status /\ row.cut = user[u].cut
          /\ row.secret = user[u].secret /\ row.pending = user[u].pending
          /\ row.step = user[u].step /\ row.codes = user[u].codes
          /\ row.keys = user[u].keys
    BY <1>1, ForgottenRow DEF IInv
  <1>3. /\ Follows
        /\ UNCHANGED <<org, member, joined, access, budget, session, link, spent,
                       respent, overlapped, relinked>>
    BY SettleFollows DEF CreateChallenge, IInv
  <1>4. new \in ChallengeRow /\ new.attempts = 0
    BY <1>1 DEF ChallengeRow
  <1> HIDE DEF new
  <1>5. /\ challenge \in Seq(ChallengeRow) /\ challenge' \in Seq(ChallengeRow)
        /\ Len(challenge) \in Nat
        /\ DOMAIN challenge = 1..Len(challenge)
        /\ DOMAIN challenge' = 1..(Len(challenge) + 1)
        /\ \A i \in DOMAIN challenge : challenge'[i] = challenge[i]
        /\ challenge'[Len(challenge) + 1].attempts = 0
    BY <1>1, <1>4, Appended, TablesOf DEF IInv, TablesTyped
  <1>6. FactorsOK'
    <2>1. \A v \in User : /\ user'[v].secret = user[v].secret
                          /\ user'[v].pending = user[v].pending
                          /\ user'[v].step = user[v].step /\ user'[v].codes = user[v].codes
                          /\ user'[v].keys = user[v].keys
                          /\ user'[v].status = user[v].status
      BY <1>1, <1>2, RowWritten DEF IInv
    <2>2. /\ DOMAIN challenge \subseteq DOMAIN challenge'
          /\ \A i \in DOMAIN challenge' : i \in DOMAIN challenge \/ i = Len(challenge) + 1
      BY <1>5
    <2>3. \A i \in DOMAIN challenge' : challenge'[i].attempts <= MaxAttempts
      BY <1>5, <2>2, SessionsAssumption DEF IInv, FactorsOK, SecondFactorOnce
    <2>. QED BY <1>3, <1>5, <2>1, <2>2, <2>3, ChallengesKept
  <1>. QED BY <1>1, <1>2, <1>3, <1>5, <1>6, QuietKeeps, TablesOf DEF IInv, TablesTyped

LEMMA RefuseKeeps ==
  ASSUME IInv, NEW i \in DOMAIN challenge, RefuseMfaChallenge(i), UNCHANGED invitation
  PROVE  IInv'
  <1> DEFINE row == [challenge[i] EXCEPT !.attempts = @ + 1]
  <1>1. challenge[i] \in ChallengeRow /\ challenge[i].user \in User
        /\ challenge[i].attempts < MaxAttempts
    BY RowsTyped DEF IInv, ChallengeRow, RefuseMfaChallenge, OpenChallenge
  <1>2. challenge' = [challenge EXCEPT ![i] = row]
    BY DEF RefuseMfaChallenge
  <1>3. row \in ChallengeRow /\ row.attempts = challenge[i].attempts + 1
        /\ row.state = challenge[i].state
    BY <1>1 DEF ChallengeRow
  <1>4. row.attempts <= MaxAttempts
    BY <1>1, <1>3, SessionsAssumption DEF ChallengeRow
  <1> HIDE DEF row
  <1>5. challenge' \in Seq(ChallengeRow) /\ DOMAIN challenge' = DOMAIN challenge
        /\ challenge'[i] = row /\ \A j \in DOMAIN challenge : j # i => challenge'[j] = challenge[j]
    <2>1. challenge \in Seq(ChallengeRow)
      BY TablesOf DEF IInv, TablesTyped
    <2>2. \A j \in DOMAIN challenge : challenge[j] \in ChallengeRow
      BY RowsTyped DEF IInv
    <2>. QED BY <1>2, <1>3, <2>1, <2>2, Rewritten
  <1>6. /\ UNCHANGED <<user, org, member, joined, access, call, session, link, spent,
                       respent, overlapped, relinked>>
        /\ Follows /\ budget' \in [Area -> Nat]
    BY StillFollows, Spent DEF RefuseMfaChallenge, IInv, Area
  <1>7. FactorsOK'
    <2>1. \A j \in DOMAIN challenge : challenge'[j].state = challenge[j].state
      BY <1>3, <1>5
    <2>2. \A j \in DOMAIN challenge : challenge'[j].attempts <= MaxAttempts
      BY <1>4, <1>5 DEF IInv, FactorsOK, SecondFactorOnce
    <2>. QED BY <1>5, <1>6, <2>1, <2>2, ChallengesKept
  <1>8. user[challenge[i].user] \in UserRow
        /\ user' = [user EXCEPT ![challenge[i].user] = user[challenge[i].user]]
    BY <1>1, <1>6, RowsTyped DEF IInv
  <1>. QED BY <1>1, <1>5, <1>6, <1>7, <1>8, QuietKeeps, TablesOf DEF IInv, TablesTyped

LEMMA LoginKeeps ==
  ASSUME IInv, NEW p \in Process, Login(p), UNCHANGED invitation
  PROVE  IInv'
  <1> DEFINE c == call[p]
             n == Len(session) + 1
  <1>1. /\ c.user \in User /\ c.row \in Nat /\ c.stale \in BOOLEAN
        /\ c.stale \/ c.row = user[c.user].cut
        /\ ForgetFailures(c) /\ IssueAccess(c.user)
    BY DEF Login, IInv, Typed, CallTyped, CallRow, SessionsOK, SessionCall, StartSession
  <1>2. PICK row \in UserRow :
          /\ user' = [user EXCEPT ![c.user] = row]
          /\ row.status = user[c.user].status /\ row.cut = user[c.user].cut
          /\ row.secret = user[c.user].secret /\ row.pending = user[c.user].pending
          /\ row.step = user[c.user].step /\ row.codes = user[c.user].codes
          /\ row.keys = user[c.user].keys
    BY <1>1, ForgottenRow DEF IInv
  <1>3. /\ user' \in [User -> UserRow] /\ user'[c.user] = row
        /\ \A v \in User : v # c.user => user'[v] = user[v]
    BY <1>1, <1>2, RowWritten DEF IInv
  <1>4. /\ Follows
        /\ UNCHANGED <<org, member, joined, budget, link, challenge, spent, respent, relinked>>
    BY SettleFollows DEF Login, IInv
  <1>5. /\ session' = Append(session, NewSession(c.user, n, c.row, 0))
        /\ overlapped' = IF c.stale THEN overlapped \cup {n} ELSE overlapped
    BY DEF Login, StartSession
  <1>6. SessionsOK' /\ session' \in Seq(SessionRow) /\ overlapped' \subseteq Families'
    <2>1. \A v \in User : /\ user'[v].cut = user[v].cut
                          /\ user'[v].status = "none" => user[v].status = "none"
      BY <1>2, <1>3
    <2>2. c.stale \/ c.row = user'[c.user].cut
      BY <1>1, <2>1
    <2>3. 0 \in Nat
      OBVIOUS
    <2>. QED BY <1>1, <1>4, <1>5, <2>1, <2>2, <2>3, OpeningKeeps DEF IInv
  <1>7. FactorsOK'
    <2>1. \A i \in DOMAIN session' :
            \/ session'[i].via = 0
            \/ \E j \in DOMAIN session : /\ session[j].via = session'[i].via
                                         /\ session[j].family = session'[i].family
      <3>1. session \in Seq(SessionRow) /\ Len(session) \in Nat /\ DOMAIN session = 1..(n - 1)
        BY TablesOf, LenProperties DEF IInv, TablesTyped
      <3>2. /\ DOMAIN session' = 1..n
            /\ \A i \in 1..(n - 1) : session'[i] = session[i]
            /\ session'[n] = NewSession(c.user, n, c.row, 0)
        BY <1>5, <3>1, AppendProperties
      <3>3. session'[n].via = 0
        BY <3>2 DEF NewSession
      <3>. QED BY <3>1, <3>2, <3>3
    <2>2. \A u \in User :
           /\ user'[u].secret = user[u].secret /\ user'[u].pending = user[u].pending
           /\ user'[u].step = user[u].step /\ user'[u].codes = user[u].codes
           /\ user'[u].keys = user[u].keys
           /\ user'[u].status = "none" => user[u].status = "none"
      BY <1>2, <1>3
    <2>. QED BY <1>4, <2>1, <2>2, FactorsFrame DEF IInv
  <1>8. LinksOK'
    <2>1. \A u \in User : user'[u].status = "none" => user[u].status = "none"
      BY <1>2, <1>3
    <2>. QED BY <1>4, <2>1, LinksFrame DEF IInv
  <1>9. TablesTyped' /\ budget' \in [Area -> Nat]
    <2>1. access' \subseteq AccessToken
      BY <1>1, AccessIssued DEF IInv
    <2>. QED BY <1>3, <1>4, <1>6, <2>1, TablesOf DEF IInv, TablesTyped
  <1>. QED BY <1>4, <1>6, <1>7, <1>8, <1>9, AccountKeeps

(* A challenge taken opens the one family of its own. *)
LEMMA VerifyKeeps ==
  ASSUME IInv, NEW i \in DOMAIN challenge, NEW f \in Submitted(challenge[i].user),
         VerifyMfaChallenge(i, f), UNCHANGED invitation
  PROVE  IInv'
  <1> DEFINE u == challenge[i].user
             n == Len(session) + 1
             row == Accepted(u, f)
             taken == [challenge[i] EXCEPT !.state = "consumed"]
  <1>1. /\ i \in Nat \ {0} /\ challenge[i] \in ChallengeRow /\ u \in User
        /\ user[u] \in UserRow /\ challenge[i].state = "open" /\ user[u].status = "active"
        /\ Accepts(u, f) /\ Spend("account") /\ Record(f)
        /\ user' = [user EXCEPT ![u] = row] /\ challenge' = [challenge EXCEPT ![i] = taken]
        /\ IssueAccess(u)
        /\ UNCHANGED <<org, member, joined, call, link, relinked>>
    BY RowsTyped DEF IInv, ChallengeRow, VerifyMfaChallenge, OpenChallenge, StartSession
  <1>2. /\ session' = Append(session, NewSession(u, n, user[u].cut, i))
        /\ overlapped' = IF FALSE THEN overlapped \cup {n} ELSE overlapped
    BY DEF VerifyMfaChallenge, StartSession
  <1>3. /\ f \in Factor /\ f.user = u /\ f \notin spent
        /\ row \in UserRow /\ row.status = user[u].status /\ row.cut = user[u].cut
        /\ KeysOK(row) /\ \A g \in spent \cup {f} : g.user = u => SpentOK(row, g)
    BY <1>1, AcceptedRow DEF IInv
  <1> HIDE DEF row
  <1>4. /\ user' \in [User -> UserRow] /\ user'[u] = row
        /\ \A v \in User : v # u => user'[v] = user[v]
    BY <1>1, <1>3, RowWritten DEF IInv
  <1>5. \A v \in User : user'[v].cut = user[v].cut /\ user'[v].status = user[v].status
    BY <1>3, <1>4
  <1>6. Follows /\ budget' \in [Area -> Nat]
    BY <1>1, StillFollows, Spent DEF IInv, Area
  <1>7. SessionsOK' /\ session' \in Seq(SessionRow) /\ overlapped' \subseteq Families'
    <2>1. user[u].cut \in Nat /\ user[u].cut = user'[u].cut
      BY <1>1, <1>5 DEF UserRow
    <2>. QED BY <1>1, <1>2, <1>5, <1>6, <2>1, OpeningKeeps DEF IInv
  <1>8. /\ taken \in ChallengeRow /\ taken.state = "consumed"
        /\ taken.attempts = challenge[i].attempts
    BY <1>1 DEF ChallengeRow
  <1> HIDE DEF taken
  <1>9. /\ challenge' \in Seq(ChallengeRow) /\ DOMAIN challenge' = DOMAIN challenge
        /\ challenge'[i] = taken
        /\ \A j \in DOMAIN challenge : j # i => challenge'[j] = challenge[j]
    <2>1. challenge \in Seq(ChallengeRow)
      BY TablesOf DEF IInv, TablesTyped
    <2>2. \A j \in DOMAIN challenge : challenge[j] \in ChallengeRow
      BY RowsTyped DEF IInv
    <2>. QED BY <1>1, <1>8, <2>1, <2>2, Rewritten
  <1>10. /\ \A v \in User : /\ KeysOK(user'[v])
                            /\ \A g \in spent' : g.user = v => SpentOK(user'[v], g)
         /\ spent' \subseteq Factor /\ respent' = {} /\ respent' \subseteq spent'
    BY <1>1, <1>3, FactorTaken
  <1>11. /\ DOMAIN session = 1..(n - 1) /\ n \in Nat /\ DOMAIN session' = 1..n
         /\ \A j \in 1..(n - 1) : session'[j] = session[j]
         /\ session'[n].via = i
    <2>1. session \in Seq(SessionRow) /\ Len(session) \in Nat /\ DOMAIN session = 1..(n - 1)
      BY TablesOf, LenProperties DEF IInv, TablesTyped
    <2>2. session'[n] = NewSession(u, n, user[u].cut, i)
      BY <1>2, <2>1, AppendProperties
    <2>. QED BY <1>2, <2>1, <2>2, AppendProperties DEF NewSession
  <1>12. \A j \in DOMAIN session : session[j].via # 0 =>
           /\ session[j].via # i
           /\ session[j].via \in DOMAIN challenge
           /\ challenge[session[j].via].state # "open"
    BY <1>1 DEF IInv, FactorsOK
  <1>13. FactorsOK'
    <2>1. \A j \in DOMAIN challenge' : challenge'[j].attempts <= MaxAttempts
      BY <1>8, <1>9 DEF IInv, FactorsOK, SecondFactorOnce
    <2>2. \A j, k \in DOMAIN session' :
            session'[j].via = session'[k].via /\ session'[j].via # 0 =>
              session'[j].family = session'[k].family
      BY <1>11, <1>12 DEF IInv, FactorsOK, SecondFactorOnce
    <2>3. \A j \in DOMAIN session' : session'[j].via # 0 =>
            /\ session'[j].via \in DOMAIN challenge'
            /\ challenge'[session'[j].via].state # "open"
      BY <1>8, <1>9, <1>11, <1>12
    <2>4. \A g \in spent' : SpentOK(user'[g.user], g)
      BY <1>10 DEF Factor
    <2>. QED BY <1>10, <2>1, <2>2, <2>3, <2>4 DEF FactorsOK, SecondFactorOnce
  <1>14. LinksOK'
    BY <1>1, <1>5, <1>6, LinksFrame DEF IInv
  <1>15. TablesTyped'
    <2>1. access' \subseteq AccessToken
      BY <1>1, AccessIssued DEF IInv
    <2>. QED BY <1>1, <1>4, <1>7, <1>9, <1>10, <2>1, TablesOf DEF IInv, TablesTyped
  <1>. QED BY <1>1, <1>6, <1>7, <1>13, <1>14, <1>15, AccountKeeps

-----------------------------------------------------------------------------
(* Rotation, revocation and links *)
LEMMA RotateKeeps ==
  ASSUME IInv, NEW p \in Process, RotateRefreshToken(p), UNCHANGED invitation
  PROVE  IInv'
  <1> DEFINE c == call[p]
             n == Len(session) + 1
  <1>1. /\ c.op = "rotate" /\ c.user \in User /\ c.stale \in BOOLEAN
        /\ SessionCall(c)
    BY DEF RotateRefreshToken, IInv, Typed, CallTyped, CallRow, SessionsOK
  <1>2. /\ Follows /\ call'[p] = Idle /\ Overtakes(OnFamily(c.num))
        /\ UNCHANGED <<user, org, member, joined, budget, link, challenge, spent, respent,
                       relinked>>
    <2>1. \A q \in OnFamily(c.num) : q \in Process /\ call[q].op # "idle"
      BY DEF OnFamily
    <2>. QED BY <2>1, SettleFollows DEF RotateRefreshToken, IInv
  <1>3. SessionsOK'
    BY <1>2, RotationKeeps DEF IInv
  <1>4. /\ session' \in Seq(SessionRow)
        /\ n \in Nat /\ DOMAIN session = 1..(n - 1) /\ DOMAIN session' = 1..n
        /\ c.row \in 1..(n - 1)
        /\ \A i \in 1..(n - 1) : /\ session'[i].family = session[i].family
                                 /\ session'[i].via = session[i].via
        /\ session'[n].family = c.num /\ session'[n].via = session[c.row].via
    BY <1>1, RotationRows DEF IInv
  <1>5. session[c.row].family = c.num
    BY <1>1 DEF SessionCall
  <1>6. overlapped' \subseteq Families'
    <2>1. \A f \in Families : f \in Families'
      BY <1>4 DEF Families
    <2>2. c.num \in Families'
      BY <1>4 DEF Families
    <2>3. overlapped \subseteq Families /\ overlapped' \subseteq overlapped \cup {c.num}
      BY TablesOf DEF IInv, TablesTyped, RotateRefreshToken
    <2>. QED BY <2>1, <2>2, <2>3
  <1>7. FactorsOK'
    <2>1. \A i \in DOMAIN session' :
            \E j \in DOMAIN session : /\ session[j].via = session'[i].via
                                      /\ session[j].family = session'[i].family
      BY <1>4, <1>5
    <2>. QED BY <1>2, <2>1, FactorsFrame DEF IInv
  <1>8. LinksOK'
    BY <1>2, LinksFrame DEF IInv
  <1>9. TablesTyped' /\ budget' \in [Area -> Nat]
    <2>1. access' \subseteq AccessToken
      BY <1>1, AccessIssued DEF IInv, RotateRefreshToken
    <2>. QED BY <1>2, <1>4, <1>6, <2>1, TablesOf DEF IInv, TablesTyped
  <1>. QED BY <1>2, <1>3, <1>7, <1>8, <1>9, AccountKeeps

LEMMA RevokeKeeps ==
  ASSUME IInv, NEW p \in Process, RevokeFamily(p), UNCHANGED invitation
  PROVE  IInv'
  <1> DEFINE c == call[p]
  <1>1. c.op = "revoke" /\ SessionCall(c)
    BY DEF RevokeFamily, IInv, SessionsOK
  <1>2. /\ Follows /\ call'[p] = Idle /\ Overtakes(OnFamily(c.num))
        /\ UNCHANGED <<user, org, member, joined, access, budget, link, challenge, spent,
                       respent, relinked>>
    <2>1. \A q \in OnFamily(c.num) : q \in Process /\ call[q].op # "idle"
      BY DEF OnFamily
    <2>. QED BY <2>1, SettleFollows DEF RevokeFamily, IInv
  <1>3. SessionsOK'
    BY <1>2, RevocationKeeps DEF IInv
  <1>4. /\ session' \in Seq(SessionRow) /\ DOMAIN session' = DOMAIN session
        /\ \A i \in DOMAIN session : /\ session'[i].family = session[i].family
                                     /\ session'[i].via = session[i].via
    BY RevocationRows DEF IInv
  <1>5. overlapped' \subseteq Families'
    <2>1. c.num \in Families /\ overlapped' \subseteq overlapped \cup {c.num}
      BY <1>1 DEF SessionCall, Families, RevokeFamily
    <2>2. overlapped \subseteq Families
      BY TablesOf DEF IInv, TablesTyped
    <2>3. \A f \in Families : f \in Families'
      BY <1>4 DEF Families
    <2>. QED BY <2>1, <2>2, <2>3
  <1>6. FactorsOK'
    BY <1>2, <1>4, FactorsFrame DEF IInv
  <1>7. LinksOK'
    BY <1>2, LinksFrame DEF IInv
  <1>8. TablesTyped' /\ budget' \in [Area -> Nat]
    BY <1>2, <1>4, <1>5, TablesOf DEF IInv, TablesTyped
  <1>. QED BY <1>2, <1>3, <1>6, <1>7, <1>8, AccountKeeps

LEMMA UsedUpRows ==
  ASSUME Typed, NEW rows
  PROVE  /\ UseUp(rows) \in Seq(LinkRow)
         /\ DOMAIN UseUp(rows) = DOMAIN link
         /\ \A i \in DOMAIN link :
              /\ UseUp(rows)[i].user = link[i].user
              /\ UseUp(rows)[i].purpose = link[i].purpose
              /\ UseUp(rows)[i].state =
                   IF i \in rows /\ link[i].state = "usable" THEN "used" ELSE link[i].state
  <1>1. \A i \in DOMAIN link :
          UseUp(rows)[i] = IF i \in rows /\ link[i].state = "usable"
                             THEN [link[i] EXCEPT !.state = "used"] ELSE link[i]
    BY DEF UseUp
  <1>2. ASSUME NEW row \in LinkRow
        PROVE  /\ [row EXCEPT !.state = "used"] \in LinkRow
               /\ [row EXCEPT !.state = "used"].user = row.user
               /\ [row EXCEPT !.state = "used"].purpose = row.purpose
               /\ [row EXCEPT !.state = "used"].state = "used"
    BY DEF LinkRow
  <1>3. \A i \in DOMAIN link : link[i] \in LinkRow
    BY RowsTyped
  <1>4. ASSUME NEW i \in DOMAIN link
        PROVE  /\ UseUp(rows)[i] \in LinkRow
               /\ UseUp(rows)[i].user = link[i].user
               /\ UseUp(rows)[i].purpose = link[i].purpose
               /\ UseUp(rows)[i].state =
                    IF i \in rows /\ link[i].state = "usable" THEN "used" ELSE link[i].state
    <2>1. CASE i \in rows /\ link[i].state = "usable"
      <3>1. UseUp(rows)[i] = [link[i] EXCEPT !.state = "used"]
        BY <1>1, <2>1
      <3>. QED BY <1>2, <1>3, <2>1, <3>1
    <2>2. CASE ~(i \in rows /\ link[i].state = "usable")
      BY <1>1, <1>3, <2>2
    <2>. QED BY <2>1, <2>2
  <1>5. UseUp(rows) = [i \in DOMAIN link |-> UseUp(rows)[i]]
    BY DEF UseUp
  <1>6. UseUp(rows) \in Seq(LinkRow) /\ DOMAIN UseUp(rows) = DOMAIN link
    BY <1>4, <1>5, Rewritten, TablesOf DEF TablesTyped
  <1>. QED BY <1>4, <1>6

(* Links are only used up, or deleted with their account. *)
LEMMA LinksUsed ==
  ASSUME Typed, LinksOK, Follows, UNCHANGED relinked, DOMAIN link' = DOMAIN link,
         \A i \in DOMAIN link :
           /\ link'[i].user = link[i].user /\ link'[i].purpose = link[i].purpose
           /\ link'[i].state = "usable" => link[i].state = "usable",
         \A u \in User : user'[u].status = "none" => user[u].status = "none"
  PROVE  LinksOK'
  <1>1. UsableOnce'
    BY DEF LinksOK, UsableOnce
  <1>2. \A i \in DOMAIN link : link[i].user \in User
    BY RowsTyped DEF LinkRow
  <1>3. ASSUME NEW q \in Process PROVE LinkCall(call[q])'
    <2>1. CASE call'[q].op = "idle"
      BY <2>1 DEF LinkCall
    <2>2. CASE call'[q].op # "idle"
      <3>1. /\ call'[q].op = call[q].op /\ call'[q].user = call[q].user
            /\ call'[q].seen = call[q].seen /\ call'[q].arg = call[q].arg
            /\ (call[q].stale => call'[q].stale)
        BY <2>2, FollowsFields
      <3>2. LinkCall(call[q]) /\ call[q].user \in User
        BY <2>2, <3>1 DEF LinksOK, Typed, CallTyped
      <3>3. Usable(call[q].user, call[q].arg)' \subseteq Usable(call[q].user, call[q].arg)
        BY <3>1 DEF Usable
      <3>. QED BY <3>1, <3>2, <3>3 DEF LinkCall
    <2>. QED BY <2>1, <2>2
  <1>. QED BY <1>1, <1>2, <1>3 DEF LinksOK

(* A link issued by a request not overtaken is the only one usable.         *)
LEMMA InsertTokenKeeps ==
  ASSUME IInv, NEW p \in Process, InsertToken(p), UNCHANGED invitation
  PROVE  IInv'
  <1> DEFINE c == call[p]
             old == UseUp(c.seen)
             n == Len(old) + 1
             new == [user |-> c.user, purpose |-> c.arg, state |-> "usable"]
             key == <<c.user, c.arg>>
  <1>1. /\ c.op = "issue" /\ c.user \in User /\ c.arg \in Purpose /\ LinkCall(c)
        /\ link' = Append(old, new)
        /\ relinked' = IF c.stale THEN relinked \cup {key} ELSE relinked
    BY DEF InsertToken, IInv, Typed, CallTyped, LinksOK
  <1>2. /\ Follows /\ call'[p] = Idle /\ Overtakes(Issuing(c.user, c.arg))
        /\ UNCHANGED <<user, org, member, joined, access, budget, session, challenge, spent,
                       respent, overlapped>>
    <2>1. \A q \in Issuing(c.user, c.arg) : q \in Process /\ call[q].op # "idle"
      BY DEF Issuing
    <2>. QED BY <2>1, SettleFollows DEF InsertToken, IInv
  <1>3. /\ old \in Seq(LinkRow) /\ DOMAIN old = DOMAIN link
        /\ \A i \in DOMAIN link :
             /\ old[i].user = link[i].user /\ old[i].purpose = link[i].purpose
             /\ old[i].state = IF i \in c.seen /\ link[i].state = "usable" THEN "used"
                                                                   ELSE link[i].state
    BY UsedUpRows DEF IInv
  <1> HIDE DEF old
  <1>4. /\ new \in LinkRow /\ new.user = c.user /\ new.purpose = c.arg
        /\ new.state = "usable"
    BY <1>1 DEF LinkRow
  <1> HIDE DEF new
  <1>5. /\ link' \in Seq(LinkRow) /\ n \in Nat /\ DOMAIN link' = 1..n
        /\ DOMAIN link = 1..(n - 1)
        /\ \A i \in 1..(n - 1) : link'[i] = old[i]
        /\ link'[n] = new
    BY <1>1, <1>3, <1>4, Appended
  <1>6. c.stale \/ key \in relinked \/
          \A i \in 1..(n - 1) : link[i].user = c.user /\ link[i].purpose = c.arg =>
            old[i].state # "usable"
    BY <1>1, <1>3, <1>5 DEF LinkCall, Usable
  <1>7. UsableOnce'
    <2>1. ASSUME NEW i \in 1..n, NEW j \in 1..n,
                 link'[i].user = link'[j].user, link'[i].purpose = link'[j].purpose,
                 link'[i].state = "usable", link'[j].state = "usable", i # j
          PROVE  <<link'[i].user, link'[i].purpose>> \in relinked'
      <3>1. relinked \subseteq relinked'
        BY <1>1
      <3>2. CASE i \in 1..(n - 1) /\ j \in 1..(n - 1)
        <4>1. /\ link[i].user = link[j].user /\ link[i].purpose = link[j].purpose
              /\ link[i].state = "usable" /\ link[j].state = "usable"
              /\ link'[i].user = link[i].user /\ link'[i].purpose = link[i].purpose
          BY <1>3, <1>5, <2>1, <3>2
        <4>. QED BY <1>5, <2>1, <3>1, <3>2, <4>1 DEF IInv, LinksOK, UsableOnce
      <3>3. CASE i = n \/ j = n
        <4>1. PICK k \in 1..(n - 1) : /\ link'[k].user = c.user /\ link'[k].purpose = c.arg
                                      /\ link'[k].state = "usable"
          BY <1>4, <1>5, <2>1, <3>3
        <4>2. c.stale \/ key \in relinked
          BY <1>3, <1>5, <1>6, <4>1
        <4>3. link'[i].user = c.user /\ link'[i].purpose = c.arg
          BY <1>4, <1>5, <2>1, <3>3
        <4>. QED BY <1>1, <4>2, <4>3
      <3>. QED BY <1>5, <3>2, <3>3
    <2>. QED BY <1>5, <2>1 DEF UsableOnce
  <1>8. ASSUME NEW q \in Process PROVE LinkCall(call[q])'
    <2>1. CASE call'[q].op = "idle"
      BY <2>1 DEF LinkCall
    <2>2. CASE call'[q].op # "idle"
      <3>1. /\ call'[q].op = call[q].op /\ call'[q].user = call[q].user
            /\ call'[q].seen = call[q].seen /\ call'[q].arg = call[q].arg
            /\ (call[q].stale => call'[q].stale) /\ call'[q] # Idle
        BY <1>2, <2>2, FollowsFields DEF IInv
      <3>2. LinkCall(call[q])
        BY DEF IInv, LinksOK
      <3>3. call[q].op = "issue" /\ ~call'[q].stale =>
              ~(call[q].user = c.user /\ call[q].arg = c.arg)
        BY <1>2, <3>1 DEF Overtakes, Issuing
      <3>4. call[q].op = "issue" /\ ~call'[q].stale =>
              Usable(call[q].user, call[q].arg)' \subseteq Usable(call[q].user, call[q].arg)
        BY <1>3, <1>4, <1>5, <3>1, <3>3 DEF Usable
      <3>5. relinked \subseteq relinked'
        BY <1>1
      <3>. QED BY <1>2, <3>1, <3>2, <3>4, <3>5 DEF LinkCall
    <2>. QED BY <2>1, <2>2
  <1>9. \A i \in DOMAIN link' : user'[link'[i].user].status # "none"
    BY <1>1, <1>2, <1>3, <1>4, <1>5 DEF IInv, LinksOK, LinkCall
  <1>10. LinksOK'
    BY <1>7, <1>8, <1>9 DEF LinksOK
  <1>11. SessionsOK' /\ FactorsOK'
    BY <1>2, SessionsFrame, FactorsFrame DEF IInv
  <1>12. TablesTyped' /\ budget' \in [Area -> Nat]
    <2>1. relinked' \subseteq User \X Purpose
      BY <1>1, TablesOf DEF IInv, TablesTyped
    <2>. QED BY <1>2, <1>5, <2>1, TablesOf DEF IInv, TablesTyped, Families
  <1>. QED BY <1>2, <1>10, <1>11, <1>12, AccountKeeps

(* The sessions of an account are all closed, or deleted, and its requests  *)
(* overtaken: a reset, an erasure.                                          *)
LEMMA UserClosed ==
  ASSUME IInv, Follows, NEW u \in User, Overtakes(OnUser(u)),
         UNCHANGED overlapped, session' \in Seq(SessionRow),
         DOMAIN session' = DOMAIN session,
         \A i \in DOMAIN session :
           /\ session'[i].user = session[i].user /\ session'[i].family = session[i].family
           /\ session'[i].next = session[i].next /\ session'[i].cut = session[i].cut
           /\ session'[i].via = session[i].via
           /\ session[i].user = u => session'[i].state # "open"
           /\ session[i].user # u => session'[i].state = session[i].state,
         \A v \in User : v # u => user'[v] = user[v],
         user'[u].status # "none"
  PROVE  SessionsOK' /\ overlapped' \subseteq Families'
  <1>1. \A i \in DOMAIN session : session[i].user \in User
    BY RowsTyped DEF IInv, SessionRow
  <1>2. ASSUME NEW q \in Process, call[q].op \in {"login", "rotate"},
               call'[q] # Idle, ~call'[q].stale
        PROVE  /\ user'[call[q].user].cut = user[call[q].user].cut
               /\ call[q].op = "rotate" =>
                    \A i \in DOMAIN session : session[i].family = call[q].num =>
                      session'[i].state = session[i].state
    <2>1. call[q].user \in User /\ call[q].user # u
      BY <1>2 DEF Overtakes, OnUser, IInv, Typed, CallTyped
    <2>2. ASSUME call[q].op = "rotate", NEW i \in DOMAIN session,
                 session[i].family = call[q].num
          PROVE  session[i].user = call[q].user
      <3>1. /\ call[q].row \in DOMAIN session /\ session[call[q].row].family = call[q].num
            /\ session[call[q].row].user = call[q].user
        BY <2>2 DEF IInv, SessionsOK, SessionCall
      <3>. QED BY <2>2, <3>1 DEF IInv, SessionsOK, FamiliesOK, OfFamily
    <2>. QED BY <2>1, <2>2
  <1>3. SessionsOK'
    BY <1>1, <1>2, ClosingKeeps DEF IInv
  <1>4. overlapped' \subseteq Families'
    <2>1. overlapped' \subseteq {session[i].family : i \in DOMAIN session}
      BY TablesOf DEF IInv, TablesTyped, Families
    <2>2. \A i \in DOMAIN session : i \in DOMAIN session' /\ session'[i].family = session[i].family
      OBVIOUS
    <2>. QED BY <2>1, <2>2 DEF Families
  <1>. QED BY <1>3, <1>4

LEMMA ClosedForRows ==
  ASSUME Typed, NEW u \in User
  PROVE  /\ ClosedFor(u) \in Seq(SessionRow)
         /\ DOMAIN ClosedFor(u) = DOMAIN session
         /\ \A i \in DOMAIN session :
              /\ ClosedFor(u)[i].user = session[i].user
              /\ ClosedFor(u)[i].family = session[i].family
              /\ ClosedFor(u)[i].next = session[i].next
              /\ ClosedFor(u)[i].cut = session[i].cut
              /\ ClosedFor(u)[i].via = session[i].via
              /\ session[i].user = u => ClosedFor(u)[i].state # "open"
              /\ session[i].user # u => ClosedFor(u)[i].state = session[i].state
  BY ClosedRows DEF ClosedFor

LEMMA ResetKeeps ==
  ASSUME IInv, NEW i \in DOMAIN link, ResetPassword(i), UNCHANGED invitation
  PROVE  IInv'
  <1> DEFINE u == link[i].user
             n == user[u].cut + 1
             row == [user[u] EXCEPT !.failed = 0, !.until = "none", !.cut = n]
  <1>1. u \in User /\ user[u] \in UserRow /\ user[u].status = "active"
    BY RowsTyped DEF IInv, LinkRow, ResetPassword, ConsumeReset
  <1>0. user' = [user EXCEPT ![u] = row] /\ n \in Nat
    BY <1>1, RowsTyped DEF ResetPassword, ConsumeReset, UserRow, IInv
  <1>2. /\ user' = [user EXCEPT ![u] = row]
        /\ n \in Nat
        /\ link' = UseUp(Usable(u, "password_reset"))
        /\ session' = ClosedFor(u)
        /\ UNCHANGED <<org, member, joined, access, challenge, spent, respent,
                       overlapped, relinked, invitation>>
    BY <1>0 DEF ResetPassword, ConsumeReset
  <1> HIDE DEF n
  <1>3. /\ row \in UserRow /\ row.status = user[u].status
        /\ row.secret = user[u].secret /\ row.pending = user[u].pending
        /\ row.step = user[u].step /\ row.codes = user[u].codes
        /\ row.keys = user[u].keys
    BY <1>1, <1>2 DEF UserRow
  <1> HIDE DEF row
  <1>4. /\ user' \in [User -> UserRow] /\ user'[u] = row
        /\ \A v \in User : v # u => user'[v] = user[v]
    BY <1>1, <1>2, <1>3, RowWritten DEF IInv
  <1>5. Follows /\ Overtakes(OnUser(u)) /\ budget' \in [Area -> Nat]
    BY <1>1, SettleFollows, OnUserBusy, Spent DEF ResetPassword, ConsumeReset, IInv, Area
  <1>6. /\ session' \in Seq(SessionRow) /\ DOMAIN session' = DOMAIN session
        /\ \A j \in DOMAIN session :
             /\ session'[j].user = session[j].user /\ session'[j].family = session[j].family
             /\ session'[j].next = session[j].next /\ session'[j].cut = session[j].cut
             /\ session'[j].via = session[j].via
             /\ session[j].user = u => session'[j].state # "open"
             /\ session[j].user # u => session'[j].state = session[j].state
    BY <1>1, <1>2, ClosedForRows DEF IInv
  <1>7. user'[u].status # "none"
    BY <1>1, <1>3, <1>4
  <1>8. SessionsOK' /\ overlapped' \subseteq Families'
    BY <1>1, <1>2, <1>4, <1>5, <1>6, <1>7, UserClosed
  <1>9. FactorsOK'
    BY <1>2, <1>3, <1>4, <1>6, FactorsFrame DEF IInv
  <1>10. /\ link' \in Seq(LinkRow) /\ DOMAIN link' = DOMAIN link
         /\ \A j \in DOMAIN link :
              /\ link'[j].user = link[j].user /\ link'[j].purpose = link[j].purpose
              /\ link'[j].state = "usable" => link[j].state = "usable"
    BY <1>2, UsedUpRows DEF IInv
  <1>11. LinksOK'
    BY <1>2, <1>4, <1>5, <1>7, <1>10, LinksUsed DEF IInv
  <1>12. TablesTyped'
    BY <1>2, <1>4, <1>6, <1>8, <1>10, TablesOf DEF IInv, TablesTyped
  <1>. QED BY <1>2, <1>5, <1>8, <1>9, <1>11, <1>12, AccountKeeps

LEMMA VerifyEmailKeeps ==
  ASSUME IInv, NEW i \in DOMAIN link, VerifyEmail(i), UNCHANGED invitation
  PROVE  IInv'
  <1> DEFINE u == link[i].user
             row == [user[u] EXCEPT !.verified = TRUE]
  <1>1. u \in User /\ user[u] \in UserRow
    BY RowsTyped DEF IInv, LinkRow
  <1>2. /\ user' = [user EXCEPT ![u] = row] /\ link' = UseUp({i})
        /\ UNCHANGED <<org, member, joined, access, call, session, challenge, spent, respent,
                       overlapped, relinked, invitation>>
    BY DEF VerifyEmail, ConsumeVerification
  <1>3. /\ row \in UserRow /\ row.status = user[u].status /\ row.cut = user[u].cut
        /\ row.secret = user[u].secret /\ row.pending = user[u].pending
        /\ row.step = user[u].step /\ row.codes = user[u].codes
        /\ row.keys = user[u].keys
    BY <1>1 DEF UserRow
  <1> HIDE DEF row
  <1>4. /\ user' \in [User -> UserRow] /\ user'[u] = row
        /\ \A v \in User : v # u => user'[v] = user[v]
    BY <1>1, <1>2, <1>3, RowWritten DEF IInv
  <1>5. Follows /\ budget' \in [Area -> Nat]
    BY <1>2, StillFollows, Spent DEF VerifyEmail, IInv, Area
  <1>6. SessionsOK' /\ FactorsOK'
    BY <1>2, <1>3, <1>4, <1>5, SessionsFrame, FactorsFrame DEF IInv
  <1>7. /\ link' \in Seq(LinkRow) /\ DOMAIN link' = DOMAIN link
        /\ \A j \in DOMAIN link :
             /\ link'[j].user = link[j].user /\ link'[j].purpose = link[j].purpose
             /\ link'[j].state = "usable" => link[j].state = "usable"
    BY <1>2, UsedUpRows DEF IInv
  <1>8. LinksOK'
    BY <1>2, <1>3, <1>4, <1>5, <1>7, LinksUsed DEF IInv
  <1>9. TablesTyped'
    BY <1>2, <1>4, <1>7, TablesOf DEF IInv, TablesTyped, Families
  <1>. QED BY <1>2, <1>5, <1>6, <1>8, <1>9, AccountKeeps

(* The steps of accounts keep the invariant. *)
LEMMA AccountStepKeeps ==
  ASSUME IInv, AccountStep, UNCHANGED invitation
  PROVE  IInv'
  <1>1. CASE \E p \in Process :
               \/ \E u \in User : \/ Authenticate(p, u)
                                  \/ ForgotPassword(p, u)
                                  \/ ResendVerification(p, u)
                                  \/ BeginMfaSetup(p, u)
               \/ \E i \in DOMAIN session : \/ \E retry \in BOOLEAN : Refresh(p, i, retry)
                                            \/ Logout(p, i)
    BY <1>1, AuthenticateKeeps, IssueKeeps, SetupKeeps, RefreshKeeps
  <1>2. CASE \E p \in Process :
               \/ CountFailure(p) \/ Login(p) \/ CreateChallenge(p)
               \/ RotateRefreshToken(p) \/ RevokeFamily(p)
               \/ InsertToken(p) \/ MfaSetup(p)
    BY <1>2, CountFailureKeeps, LoginKeeps, CreateChallengeKeeps, RotateKeeps, RevokeKeeps,
       InsertTokenKeeps, MfaSetupKeeps
  <1>3. CASE \E u \in User :
               \/ LockExpires(u)
               \/ \E n \in 1..MaxStep : ConfirmMfa(u, n)
               \/ \E f \in Submitted(u) : DisableMfa(u, f) \/ RegenerateRecoveryCodes(u, f)
    BY <1>3, LockExpiresKeeps, ConfirmMfaKeeps, FactorUsedKeeps
  <1>4. CASE \E i \in DOMAIN link : ResetPassword(i) \/ VerifyEmail(i)
    BY <1>4, ResetKeeps, VerifyEmailKeeps
  <1>5. CASE \E i \in DOMAIN challenge :
               \/ \E f \in Submitted(challenge[i].user) : VerifyMfaChallenge(i, f)
               \/ RefuseMfaChallenge(i)
    BY <1>5, VerifyKeeps, RefuseKeeps
  <1>. QED BY <1>1, <1>2, <1>3, <1>4, <1>5 DEF AccountStep

-----------------------------------------------------------------------------
(* Steps of an organization that leave accounts and sessions alone.         *)
LEMMA TenantKeeps ==
  ASSUME IInv, Follows, UNCHANGED <<user, access, sessionVars>>,
         TenantTablesTyped', budget' \in [Area -> Nat], InvitationsOK', PlansOK'
  PROVE  IInv'
  <1>1. SessionsOK' /\ FactorsOK' /\ LinksOK'
    BY SessionsFrame, FactorsFrame, LinksFrame DEF IInv, sessionVars
  <1>2. TablesTyped'
    BY TablesOf DEF IInv, TablesTyped, sessionVars, Families
  <1>. QED BY <1>1, <1>2, TypedAgain DEF IInv

(* A change of members, plans or invitations, after which an accept that is *)
(* not overtaken still has its seat.                                        *)
LEMMA PlansKeep ==
  ASSUME Typed, PlansOK, Follows,
         \A o \in Org : /\ org[o].exists => org'[o].exists
                        /\ ~org'[o].exists => org'[o] = NoOrg,
         \A o \in Org, u \in User : member'[o][u].id # 0 => org'[o].exists,
         \A i \in DOMAIN invitation' : org'[invitation'[i].org].exists,
         \A o \in Org :
           \/ EnforceUserLimit(o) => EnforceUserLimit(o)'
           \/ \A q \in Process : call[q].op = "accept" /\ call[q].org = o =>
                call'[q] = Idle \/ call'[q].stale
  PROVE  PlansOK'
  <1>1. ASSUME NEW q \in Process PROVE PlanCall(call[q])'
    <2>1. CASE call'[q].op = "idle"
      BY <2>1 DEF PlanCall
    <2>2. CASE call'[q].op # "idle"
      <3>1. /\ call'[q].op = call[q].op /\ call'[q].org = call[q].org
            /\ (call[q].stale => call'[q].stale) /\ call'[q] # Idle
        BY <2>2, FollowsFields
      <3>2. PlanCall(call[q])
        BY DEF PlansOK
      <3>3. call[q].op \in OnAnOrg => call[q].org \in Org
        BY DEF Typed, CallTyped, CallRow
      <3>4. PICK o : o = call[q].org
        OBVIOUS
      <3>5. ASSUME call[q].op = "accept", ~call'[q].stale PROVE EnforceUserLimit(o)'
        <4>1. o \in Org
          BY <3>3, <3>4, <3>5 DEF OnAnOrg
        <4>2. EnforceUserLimit(o)
          BY <3>1, <3>2, <3>4, <3>5 DEF PlanCall
        <4>3. EnforceUserLimit(o) => EnforceUserLimit(o)'
          BY <3>1, <3>4, <3>5, <4>1
        <4>. QED BY <4>2, <4>3
      <3>6. EnforceUserLimit(o)' <=> EnforceUserLimit(call[q].org)'
        BY <3>1, <3>4 DEF EnforceUserLimit, GrowthBlocked, WithinPlan, Seats, IsMember
      <3>. QED BY <3>1, <3>2, <3>3, <3>5, <3>6 DEF PlanCall, OnAnOrg
    <2>. QED BY <2>1, <2>2
  <1>. QED BY <1>1 DEF PlansOK, IsMember

LEMMA SeatsOf ==
  ASSUME NEW o
  PROVE  /\ IsFiniteSet({u \in User : IsMember(o, u)})
         /\ Seats(o) \in Nat
  BY TenancyAssumption, FS_Subset, FS_CardinalityType DEF Seats

(* With the same plan and no more members there is still a seat.            *)
LEMMA SeatStays ==
  ASSUME Typed, NEW o \in Org, org'[o].plan = org[o].plan,
         org'[o].subscription = org[o].subscription,
         \A u \in User : member'[o][u].id # 0 => member[o][u].id # 0,
         EnforceUserLimit(o)
  PROVE  EnforceUserLimit(o)'
  <1> DEFINE Now == {u \in User : member[o][u].id # 0}
             Then == {u \in User : member'[o][u].id # 0}
  <1>1. Now \subseteq User /\ Then \subseteq Now
    OBVIOUS
  <1>2. IsFiniteSet(Now)
    BY <1>1, FS_Subset, TenancyAssumption
  <1>3. Cardinality(Then) <= Cardinality(Now)
        /\ Cardinality(Then) \in Nat /\ Cardinality(Now) \in Nat
    <2>1. IsFiniteSet(Then) /\ Cardinality(Then) <= Cardinality(Now)
      BY <1>1, <1>2, FS_Subset
    <2>. QED BY <1>2, <2>1, FS_CardinalityType
  <1>4. Seats(o) = Cardinality(Now) /\ Seats(o)' = Cardinality(Then)
    BY DEF Seats, IsMember
  <1>5. org[o].plan \in Plan /\ UserLimit[org[o].plan] \in Int
    BY RowsTyped, TenancyAssumption DEF OrgRow
  <1> HIDE DEF Now, Then
  <1>6. WithinPlan(o, Seats(o) + 1)' <=>
          (UserLimit[org'[o].plan] >= 0 => Seats(o)' + 1 <= UserLimit[org'[o].plan])
    BY DEF WithinPlan
  <1>7. UserLimit[org[o].plan] >= 0 => Seats(o) + 1 <= UserLimit[org[o].plan]
    BY DEF EnforceUserLimit, WithinPlan
  <1>. QED BY <1>3, <1>4, <1>5, <1>6, <1>7 DEF EnforceUserLimit, GrowthBlocked

LEMMA InvitationWritten ==
  ASSUME Typed, NEW i \in DOMAIN invitation, NEW row \in InvitationRow,
         invitation' = [invitation EXCEPT ![i] = row]
  PROVE  /\ invitation' \in Seq(InvitationRow) /\ DOMAIN invitation' = DOMAIN invitation
         /\ invitation'[i] = row
         /\ \A j \in DOMAIN invitation : j # i => invitation'[j] = invitation[j]
  <1>1. invitation \in Seq(InvitationRow)
    BY TablesOf DEF TenantTablesTyped
  <1>2. \A j \in DOMAIN invitation : invitation[j] \in InvitationRow
    BY RowsTyped
  <1>. QED BY <1>1, <1>2, Rewritten

LEMMA InsertInvitationKeeps ==
  ASSUME IInv, NEW p \in Process, InsertInvitation(p)
  PROVE  IInv'
  <1> DEFINE c == call[p]
             n == Len(invitation) + 1
             new == [org |-> c.org, user |-> c.user, role |-> c.arg, expired |-> FALSE,
                     state |-> "pending"]
  <1>1. /\ c.op = "invite" /\ c.user \in User /\ c.org \in Org /\ c.arg \in Role
        /\ org[c.org].exists /\ invitation' = Append(invitation, new)
    BY DEF InsertInvitation, IInv, Typed, CallTyped, CallRow, OnAnOrg, PlansOK, PlanCall
  <1>2. /\ Follows
        /\ UNCHANGED <<user, org, member, joined, access, budget, sessionVars>>
    BY SettleFollows DEF InsertInvitation, IInv
  <1>3. new \in InvitationRow /\ new.org = c.org
    BY <1>1 DEF InvitationRow
  <1> HIDE DEF new
  <1>4. /\ invitation' \in Seq(InvitationRow) /\ n \in Nat
        /\ DOMAIN invitation = 1..(n - 1) /\ DOMAIN invitation' = 1..n
        /\ \A i \in 1..(n - 1) : invitation'[i] = invitation[i]
        /\ invitation'[n] = new
    BY <1>1, <1>3, Appended, TablesOf DEF IInv, TenantTablesTyped
  <1>5. InvitationsOK'
    <2>1. \A q \in Process : call'[q].op # "idle" =>
            call'[q].op = call[q].op /\ call'[q].row = call[q].row
      BY <1>2, FollowsFields DEF IInv
    <2>2. \A i \in DOMAIN invitation : i \in DOMAIN invitation' /\ invitation'[i] = invitation[i]
      BY <1>4
    <2>3. \A q \in Process : InvitationCall(call[q])'
      BY <2>1, <2>2 DEF IInv, InvitationsOK, InvitationCall
    <2>4. \A q, r \in Process : call'[q].op = "accept" /\ call'[r].op = "accept"
            /\ call'[q].row = call'[r].row => q = r
      BY <2>1 DEF IInv, InvitationsOK
    <2>5. InvitationAdmitsOnce'
      BY <1>2 DEF IInv, InvitationsOK, InvitationAdmitsOnce
    <2>6. \A m \in DOMAIN joined' : joined'[m].by # 0 =>
            joined'[m].by \in DOMAIN invitation' /\ invitation'[joined'[m].by].state # "pending"
      BY <1>2, <2>2 DEF IInv, InvitationsOK
    <2>. QED BY <2>3, <2>4, <2>5, <2>6 DEF InvitationsOK
  <1>6. PlansOK'
    <2>1. \A o \in Org : EnforceUserLimit(o) => EnforceUserLimit(o)'
      BY <1>2, SeatStays DEF IInv
    <2>2. \A i \in DOMAIN invitation' : org'[invitation'[i].org].exists
      BY <1>1, <1>2, <1>3, <1>4 DEF IInv, PlansOK
    <2>. QED BY <1>2, <2>1, <2>2, PlansKeep DEF IInv, PlansOK, IsMember
  <1>7. TenantTablesTyped' /\ budget' \in [Area -> Nat]
    BY <1>2, <1>4, TablesOf DEF IInv, TenantTablesTyped, NoMember
  <1>. QED BY <1>2, <1>5, <1>6, <1>7, TenantKeeps

(* An invitation is written that no accept under way holds, and is not made *)
(* pending again.                                                           *)
LEMMA InvitationRewritten ==
  ASSUME IInv, Follows, NEW i \in DOMAIN invitation, NEW row \in InvitationRow,
         invitation' = [invitation EXCEPT ![i] = row],
         UNCHANGED <<user, org, member, joined, access, budget, sessionVars>>,
         row.org = invitation[i].org,
         \/ row.state = invitation[i].state
         \/ i \notin Held /\ row.state # "pending"
  PROVE  IInv'
  <1>1. /\ invitation' \in Seq(InvitationRow) /\ DOMAIN invitation' = DOMAIN invitation
        /\ invitation'[i] = row
        /\ \A j \in DOMAIN invitation : j # i => invitation'[j] = invitation[j]
    BY InvitationWritten DEF IInv
  <1>2. InvitationsOK'
    <2>1. \A q \in Process : call'[q].op # "idle" =>
            call'[q].op = call[q].op /\ call'[q].row = call[q].row
      BY FollowsFields DEF IInv
    <2>2. \A q \in Process : InvitationCall(call[q])'
      BY <1>1, <2>1 DEF IInv, InvitationsOK, InvitationCall, Held
    <2>3. \A q, r \in Process : call'[q].op = "accept" /\ call'[r].op = "accept"
            /\ call'[q].row = call'[r].row => q = r
      BY <2>1 DEF IInv, InvitationsOK
    <2>4. InvitationAdmitsOnce'
      BY DEF IInv, InvitationsOK, InvitationAdmitsOnce
    <2>5. \A m \in DOMAIN joined' : joined'[m].by # 0 =>
            joined'[m].by \in DOMAIN invitation' /\ invitation'[joined'[m].by].state # "pending"
      BY <1>1 DEF IInv, InvitationsOK
    <2>. QED BY <2>2, <2>3, <2>4, <2>5 DEF InvitationsOK
  <1>3. PlansOK'
    <2>1. \A o \in Org : EnforceUserLimit(o) => EnforceUserLimit(o)'
      BY SeatStays DEF IInv
    <2>2. \A j \in DOMAIN invitation' : org'[invitation'[j].org].exists
      BY <1>1 DEF IInv, PlansOK
    <2>. QED BY <2>1, <2>2, PlansKeep DEF IInv, PlansOK, IsMember
  <1>4. TenantTablesTyped' /\ budget' \in [Area -> Nat]
    BY <1>1, TablesOf DEF IInv, TenantTablesTyped, NoMember
  <1>. QED BY <1>2, <1>3, <1>4, TenantKeeps

LEMMA UpdateInvitationKeeps ==
  ASSUME IInv, NEW p \in Process, UpdateInvitation(p)
  PROVE  IInv'
  <1> DEFINE c == call[p]
             old == invitation[c.row]
             state == IF old.state \in {"accepted", "both"} THEN "both" ELSE "revoked"
             row == IF c.op = "resend" THEN [old EXCEPT !.expired = FALSE]
                                       ELSE [old EXCEPT !.state = state]
  <1>1. /\ c.row \in DOMAIN invitation /\ old \in InvitationRow
        /\ c.row \notin Held /\ invitation' = [invitation EXCEPT ![c.row] = row]
    BY RowsTyped DEF UpdateInvitation, IInv, InvitationsOK, InvitationCall
  <1>2. /\ Follows
        /\ UNCHANGED <<user, org, member, joined, access, budget, sessionVars>>
    BY SettleFollows DEF UpdateInvitation, IInv
  <1>3. state \in {"both", "revoked"}
    OBVIOUS
  <1> HIDE DEF state
  <1>4. /\ row \in InvitationRow /\ row.org = old.org
        /\ row.state = old.state \/ row.state # "pending"
    BY <1>1, <1>3 DEF InvitationRow
  <1> HIDE DEF row
  <1>. QED BY <1>1, <1>2, <1>4, InvitationRewritten

LEMMA InvitationExpiresKeeps ==
  ASSUME IInv, NEW i \in DOMAIN invitation, InvitationExpires(i)
  PROVE  IInv'
  <1> DEFINE row == [invitation[i] EXCEPT !.expired = TRUE]
  <1>1. invitation[i] \in InvitationRow /\ invitation' = [invitation EXCEPT ![i] = row]
    BY RowsTyped DEF InvitationExpires, IInv
  <1>2. Follows /\ UNCHANGED <<user, org, member, joined, access, budget, sessionVars>>
    BY StillFollows DEF InvitationExpires, IInv, tenancyVars
  <1>3. row \in InvitationRow /\ row.org = invitation[i].org /\ row.state = invitation[i].state
    BY <1>1 DEF InvitationRow
  <1> HIDE DEF row
  <1>. QED BY <1>1, <1>2, <1>3, InvitationRewritten

-----------------------------------------------------------------------------
(* Memberships *)
LEMMA MemberWritten ==
  ASSUME Typed, NEW o \in Org, NEW u \in User, NEW row \in MemberRow,
         member' = [member EXCEPT ![o][u] = row]
  PROVE  /\ member' \in [Org -> [User -> MemberRow]]
         /\ member'[o][u] = row
         /\ \A q \in Org, v \in User : q # o \/ v # u => member'[q][v] = member[q][v]
  BY TablesOf DEF TenantTablesTyped

LEMMA MemberTyped ==
  ASSUME Typed, NEW o \in Org, NEW u \in User
  PROVE  /\ member[o][u] \in MemberRow
         /\ member[o][u].id # 0 => member[o][u].role # "none"
         /\ \/ member[o][u] = NoMember
            \/ /\ member[o][u].role # "none" /\ member[o][u].id \in DOMAIN joined
               /\ joined[member[o][u].id].org = o /\ joined[member[o][u].id].user = u
  BY TablesOf DEF TenantTablesTyped, NoMember

(* One row written: no member, or one joined before. *)
LEMMA RowTyped ==
  ASSUME Typed, NEW o \in Org, NEW u \in User, NEW row \in MemberRow,
         member' = [member EXCEPT ![o][u] = row],
         UNCHANGED <<org, joined>>, invitation' \in Seq(InvitationRow),
         \/ row = NoMember
         \/ /\ row.role # "none" /\ row.id \in DOMAIN joined
            /\ joined[row.id].org = o /\ joined[row.id].user = u
  PROVE  TenantTablesTyped'
  <1>1. \A q \in Org, v \in User :
          \/ member'[q][v] = NoMember
          \/ /\ member'[q][v].role # "none" /\ member'[q][v].id \in DOMAIN joined
             /\ joined[member'[q][v].id].org = q /\ joined[member'[q][v].id].user = v
    BY MemberWritten, MemberTyped
  <1>2. member' \in [Org -> [User -> MemberRow]]
    BY MemberWritten
  <1>3. org \in [Org -> OrgRow] /\ joined \in Seq([org : Org, user : User, by : Nat])
    BY TablesOf DEF TenantTablesTyped
  <1>. QED BY <1>1, <1>2, <1>3 DEF TenantTablesTyped, NoMember

LEMMA JoinTyped ==
  ASSUME Typed, NEW o \in Org, NEW u \in User, NEW role \in Role, NEW by \in Nat,
         Join(o, u, role, by), org' \in [Org -> OrgRow], invitation' \in Seq(InvitationRow)
  PROVE  /\ TenantTablesTyped'
         /\ Len(joined) \in Nat /\ DOMAIN joined = 1..Len(joined)
         /\ DOMAIN joined' = 1..(Len(joined) + 1)
         /\ \A m \in DOMAIN joined : joined'[m] = joined[m]
         /\ joined'[Len(joined) + 1].by = by
         /\ \A q \in Org, v \in User : q # o \/ v # u => member'[q][v] = member[q][v]
  <1> DEFINE n == Len(joined) + 1
             new == [org |-> o, user |-> u, by |-> by]
             row == [role |-> role, id |-> n]
  <1>1. joined \in Seq([org : Org, user : User, by : Nat])
    BY TablesOf DEF TenantTablesTyped
  <1>2. /\ new \in [org : Org, user : User, by : Nat]
        /\ new.org = o /\ new.user = u /\ new.by = by
    OBVIOUS
  <1>3. joined' = Append(joined, new) /\ member' = [member EXCEPT ![o][u] = row]
    BY DEF Join
  <1> HIDE DEF new
  <1>4. /\ joined' \in Seq([org : Org, user : User, by : Nat])
        /\ Len(joined) \in Nat /\ DOMAIN joined = 1..Len(joined) /\ DOMAIN joined' = 1..n
        /\ \A m \in 1..Len(joined) : joined'[m] = joined[m]
        /\ joined'[n] = new
    BY <1>1, <1>2, <1>3, Appended
  <1>5. row \in MemberRow /\ row.role = role /\ row.id = n /\ role # "none"
    BY <1>4 DEF MemberRow, Role
  <1> HIDE DEF row
  <1>6. /\ member' \in [Org -> [User -> MemberRow]]
        /\ member'[o][u] = row
        /\ \A q \in Org, v \in User : q # o \/ v # u => member'[q][v] = member[q][v]
    <2>1. member \in [Org -> [User -> MemberRow]]
      BY TablesOf DEF TenantTablesTyped
    <2>. QED BY <1>3, <1>5, <2>1
  <1>7. ASSUME NEW q \in Org, NEW v \in User
        PROVE  \/ member'[q][v] = NoMember
               \/ /\ member'[q][v].role # "none" /\ member'[q][v].id \in DOMAIN joined'
                  /\ joined'[member'[q][v].id].org = q /\ joined'[member'[q][v].id].user = v
    <2>1. CASE q = o /\ v = u
      BY <1>2, <1>4, <1>5, <1>6, <2>1
    <2>2. CASE q # o \/ v # u
      <3>1. member'[q][v] = member[q][v]
        BY <1>6, <2>2
      <3>2. \A m \in DOMAIN joined : m \in DOMAIN joined' /\ joined'[m] = joined[m]
        BY <1>4
      <3>. QED BY <3>1, <3>2, MemberTyped
    <2>. QED BY <2>1, <2>2
  <1>8. TenantTablesTyped'
    BY <1>4, <1>6, <1>7 DEF TenantTablesTyped, NoMember
  <1>. QED BY <1>2, <1>4, <1>6, <1>8

(* A role is changed, or a membership ends. *)
LEMMA MemberKeeps ==
  ASSUME IInv, Follows, NEW o \in Org, NEW u \in User, NEW row \in MemberRow,
         member' = [member EXCEPT ![o][u] = row], row.id # 0 => member[o][u].id # 0,
         UNCHANGED <<user, org, joined, access, budget, sessionVars, invitation>>,
         \/ row = NoMember
         \/ /\ row.role # "none" /\ row.id \in DOMAIN joined
            /\ joined[row.id].org = o /\ joined[row.id].user = u
  PROVE  IInv'
  <1>1. TenantTablesTyped'
    BY RowTyped, TablesOf DEF IInv, TenantTablesTyped
  <1>2. \A q \in Org, v \in User : member'[q][v].id # 0 => member[q][v].id # 0
    BY MemberWritten DEF IInv
  <1>3. PlansOK'
    <2>1. \A q \in Org : EnforceUserLimit(q) => EnforceUserLimit(q)'
      BY <1>2, SeatStays DEF IInv
    <2>. QED BY <1>2, <2>1, PlansKeep DEF IInv, PlansOK, IsMember
  <1>4. InvitationsOK' /\ budget' \in [Area -> Nat]
    BY InvitationsFrame, TablesOf DEF IInv
  <1>. QED BY <1>1, <1>3, <1>4, TenantKeeps

LEMMA UpdateMemberRoleKeeps ==
  ASSUME IInv, NEW p \in Process, UpdateMemberRole(p)
  PROVE  IInv'
  <1> DEFINE c == call[p]
             old == member[c.org][c.user]
             row == [old EXCEPT !.role = c.arg]
  <1>1. /\ c.org \in Org /\ c.user \in User /\ c.arg \in Role /\ c.row # 0
        /\ old.id = c.row
    BY DEF UpdateMemberRole, IInv, Typed, CallTyped, CallRow, OnAnOrg
  <1>2. member' = [member EXCEPT ![c.org][c.user] = row]
    BY DEF UpdateMemberRole
  <1>3. /\ Follows
        /\ UNCHANGED <<user, org, joined, access, budget, sessionVars, invitation>>
    BY SettleFollows DEF UpdateMemberRole, IInv
  <1>4. /\ old \in MemberRow /\ old # NoMember
        /\ old.id \in DOMAIN joined
        /\ joined[old.id].org = c.org /\ joined[old.id].user = c.user
    BY <1>1, MemberTyped DEF IInv, NoMember
  <1>5. row \in MemberRow /\ row.role # "none" /\ row.id = old.id
    BY <1>1, <1>4 DEF MemberRow, Role
  <1> HIDE DEF row
  <1>. QED BY <1>1, <1>2, <1>3, <1>4, <1>5, MemberKeeps

LEMMA DeleteMemberKeeps ==
  ASSUME IInv, NEW p \in Process, DeleteMember(p)
  PROVE  IInv'
  <1>1. call[p].org \in Org /\ call[p].user \in User
    BY DEF DeleteMember, IInv, Typed, CallTyped, CallRow, OnAnOrg
  <1>2. member' = [member EXCEPT ![call[p].org][call[p].user] = NoMember]
    BY DEF DeleteMember, Leave
  <1>3. /\ Follows
        /\ UNCHANGED <<user, org, joined, access, budget, sessionVars, invitation>>
    BY SettleFollows DEF DeleteMember, IInv
  <1>4. NoMember \in MemberRow /\ NoMember.id = 0
    BY DEF NoMember, MemberRow
  <1>. QED BY <1>1, <1>2, <1>3, <1>4, MemberKeeps

LEMMA NewUserRow ==
  ASSUME NEW verified \in BOOLEAN
  PROVE  /\ NewUser(verified) \in UserRow /\ NewUser(verified).status = "active"
         /\ NewUser(verified).cut = 0 /\ KeysOK(NewUser(verified))
  <1>1. /\ NewUser(verified) \in UserRow /\ NewUser(verified).status = "active"
        /\ NewUser(verified).cut = 0 /\ NewUser(verified).secret = 0
        /\ NewUser(verified).pending = 0 /\ NewUser(verified).keys = 0
        /\ NewUser(verified).codes = {}
    BY DEF NewUser, NoUser, UserRow
  <1>. QED BY <1>1 DEF KeysOK

(* A membership by an invitation, which no other has come from.             *)
LEMMA AdmitMemberKeeps ==
  ASSUME IInv, NEW p \in Process, AdmitMember(p)
  PROVE  IInv'
  <1> DEFINE c == call[p]
             u == c.user
             o == c.org
             i == c.row
             old == invitation[i]
             row == IF c.num = 1 THEN NewUser(TRUE) ELSE [user[u] EXCEPT !.verified = TRUE]
             taken == [old EXCEPT !.state = "accepted"]
  <1>1. /\ c.op = "accept" /\ u \in User /\ o \in Org /\ i \in DOMAIN invitation
        /\ i \in Nat \ {0} /\ old \in InvitationRow /\ old.role \in Role
        /\ old.state = "pending" /\ org[o].exists /\ user[u] \in UserRow
    BY RowsTyped
    DEF AdmitMember, IInv, Typed, CallTyped, CallRow, OnAnOrg, InvitationsOK,
        InvitationCall, PlansOK, PlanCall, InvitationRow
  <1>2. /\ c.num = 1 => user[u].status = "none"
        /\ user' = [user EXCEPT ![u] = row]
        /\ Join(o, u, old.role, i)
        /\ invitation' = [invitation EXCEPT ![i] = taken]
        /\ UNCHANGED <<org, access, budget, sessionVars>>
    BY DEF AdmitMember
  <1>3. Follows /\ Overtakes(OnOrg(o)) /\ call'[p] = Idle
    BY <1>1, SettleFollows, OnOrgBusy DEF AdmitMember, IInv
  <1>4. taken \in InvitationRow /\ taken.org = old.org /\ taken.state = "accepted"
    BY <1>1 DEF InvitationRow
  <1> HIDE DEF taken
  <1>5. /\ invitation' \in Seq(InvitationRow) /\ DOMAIN invitation' = DOMAIN invitation
        /\ invitation'[i] = taken
        /\ \A j \in DOMAIN invitation : j # i => invitation'[j] = invitation[j]
    BY <1>1, <1>2, <1>4, InvitationWritten DEF IInv
  <1>6. /\ row \in UserRow
        /\ row.status # "none" \/ row.status = user[u].status
        /\ row.cut = user[u].cut /\ KeysOK(row)
        /\ \A f \in spent : f.user = u => SpentOK(row, f)
    <2>1. CASE c.num = 1
      <3>1. /\ NewUser(TRUE) \in UserRow /\ NewUser(TRUE).status = "active"
            /\ NewUser(TRUE).cut = 0 /\ KeysOK(NewUser(TRUE))
        BY NewUserRow
      <3>2. user[u].status = "none" /\ user[u].cut = 0
        BY <1>1, <1>2, <2>1 DEF IInv, SessionsOK
      <3>3. \A f \in spent : f.user # u
        BY <3>2 DEF IInv, FactorsOK, SpentOK
      <3>. QED BY <2>1, <3>1, <3>2, <3>3
    <2>2. CASE c.num # 1
      <3>1. row = [user[u] EXCEPT !.verified = TRUE]
        BY <2>2
      <3> HIDE DEF row
      <3>2. /\ row \in UserRow /\ row.status = user[u].status /\ row.cut = user[u].cut
            /\ row.secret = user[u].secret /\ row.pending = user[u].pending
            /\ row.step = user[u].step /\ row.codes = user[u].codes
            /\ row.keys = user[u].keys
        BY <1>1, <3>1 DEF UserRow
      <3>. QED BY <1>1, <3>2 DEF IInv, FactorsOK, KeysOK, SpentOK
    <2>. QED BY <2>1, <2>2
  <1> HIDE DEF row
  <1>7. /\ user' \in [User -> UserRow] /\ user'[u] = row
        /\ \A v \in User : v # u => user'[v] = user[v]
    BY <1>1, <1>2, <1>6, RowWritten DEF IInv
  <1>8. /\ TenantTablesTyped'
        /\ Len(joined) \in Nat /\ DOMAIN joined = 1..Len(joined)
        /\ DOMAIN joined' = 1..(Len(joined) + 1)
        /\ \A m \in DOMAIN joined : joined'[m] = joined[m]
        /\ joined'[Len(joined) + 1].by = i
        /\ \A q \in Org, v \in User : q # o \/ v # u => member'[q][v] = member[q][v]
    <2>1. org' \in [Org -> OrgRow]
      BY <1>2, TablesOf DEF IInv, TenantTablesTyped
    <2>. QED BY <1>1, <1>2, <1>5, <2>1, JoinTyped DEF IInv
  <1>9. InvitationsOK'
    <2>1. \A q \in Process : call'[q].op # "idle" =>
            call'[q].op = call[q].op /\ call'[q].row = call[q].row /\ q # p
      BY <1>3, FollowsFields DEF IInv, Idle
    <2>2. \A q \in Process : InvitationCall(call[q])'
      BY <1>1, <1>5, <2>1 DEF IInv, InvitationsOK, InvitationCall
    <2>3. \A q, r \in Process : call'[q].op = "accept" /\ call'[r].op = "accept"
            /\ call'[q].row = call'[r].row => q = r
      BY <2>1 DEF IInv, InvitationsOK
    <2>4. \A m \in DOMAIN joined : joined[m].by # i
      BY <1>1 DEF IInv, InvitationsOK
    <2>5. InvitationAdmitsOnce'
      BY <1>8, <2>4 DEF IInv, InvitationsOK, InvitationAdmitsOnce
    <2>6. \A m \in DOMAIN joined : joined[m].by # 0 =>
            joined[m].by \in DOMAIN invitation /\ invitation[joined[m].by].state # "pending"
      BY DEF IInv, InvitationsOK
    <2>7. ASSUME NEW m \in DOMAIN joined', joined'[m].by # 0
          PROVE  joined'[m].by \in DOMAIN invitation' /\ invitation'[joined'[m].by].state # "pending"
      <3>1. m \in DOMAIN joined \/ joined'[m].by = i
        BY <1>8
      <3>2. CASE joined'[m].by = i
        BY <1>1, <1>4, <1>5, <3>2
      <3>3. CASE m \in DOMAIN joined /\ joined'[m].by # i
        BY <1>5, <1>8, <2>6, <2>7, <3>3
      <3>. QED BY <3>1, <3>2, <3>3
    <2>. QED BY <2>2, <2>3, <2>5, <2>7 DEF InvitationsOK
  <1>10. PlansOK'
    <2>1. \A q \in Org : q # o => (EnforceUserLimit(q) => EnforceUserLimit(q)')
      BY <1>2, <1>8, SeatStays DEF IInv
    <2>2. \A q \in Process : call[q].org = o => call'[q] = Idle \/ call'[q].stale
      BY <1>3 DEF Overtakes, OnOrg
    <2>3. \A j \in DOMAIN invitation' : org'[invitation'[j].org].exists
      BY <1>2, <1>4, <1>5 DEF IInv, PlansOK
    <2>4. \A q \in Org, v \in User : member'[q][v].id # 0 => org'[q].exists
      BY <1>1, <1>2, <1>8 DEF IInv, PlansOK, IsMember
    <2>5. \A q \in Org :
           \/ EnforceUserLimit(q) => EnforceUserLimit(q)'
           \/ \A r \in Process : call[r].op = "accept" /\ call[r].org = q =>
                call'[r] = Idle \/ call'[r].stale
      BY <2>1, <2>2
    <2>. QED BY <1>2, <1>3, <2>3, <2>4, <2>5, PlansKeep DEF IInv, PlansOK
  <1>11. SessionsOK' /\ LinksOK'
    BY <1>2, <1>3, <1>6, <1>7, SessionsFrame, LinksFrame DEF IInv, sessionVars
  <1>12. FactorsOK'
    <2>1. \A v \in User : KeysOK(user'[v]) /\ \A f \in spent : f.user = v => SpentOK(user'[v], f)
      BY <1>6, <1>7 DEF IInv, FactorsOK
    <2>2. /\ respent = {} /\ \A j \in DOMAIN challenge : challenge[j].attempts <= MaxAttempts
      BY DEF IInv, FactorsOK, SecondFactorOnce
    <2>. QED BY <1>2, <2>1, <2>2, FactorsKeep, TablesOf DEF IInv, TablesTyped, sessionVars
  <1>13. TablesTyped' /\ budget' \in [Area -> Nat]
    BY <1>2, <1>7, TablesOf DEF IInv, TablesTyped, sessionVars, Families
  <1>. QED BY <1>3, <1>8, <1>9, <1>10, <1>11, <1>12, <1>13, TypedAgain DEF IInv

(* The owner resets a member's second factor. *)
LEMMA CutRow ==
  ASSUME NEW row \in UserRow
  PROVE  LET new == [row EXCEPT !.cut = @ + 1]
         IN /\ new \in UserRow /\ new.status = row.status /\ new.cut = row.cut + 1
            /\ new.secret = row.secret /\ new.pending = row.pending
            /\ new.step = row.step /\ new.codes = row.codes /\ new.keys = row.keys
  <1> DEFINE n == row.cut + 1
             new == [row EXCEPT !.cut = n]
  <1>1. n \in Nat
    BY DEF UserRow
  <1> HIDE DEF n
  <1>2. /\ new \in UserRow /\ new.status = row.status /\ new.cut = n
        /\ new.secret = row.secret /\ new.pending = row.pending
        /\ new.step = row.step /\ new.codes = row.codes /\ new.keys = row.keys
    BY <1>1 DEF UserRow
  <1>. QED BY <1>2 DEF n

LEMMA AdminResetKeeps ==
  ASSUME IInv, NEW p \in Process, AdminResetMfa(p)
  PROVE  IInv'
  <1> DEFINE u == call[p].user
             clear == ClearMfa(user[u])
             row == [clear EXCEPT !.cut = @ + 1]
  <1>1. u \in User /\ user[u] \in UserRow /\ user[u].status = "active"
    BY RowsTyped DEF AdminResetMfa, IInv, Typed, CallTyped
  <1>2. /\ user' = [user EXCEPT ![u] = row] /\ session' = ClosedFor(u)
        /\ UNCHANGED <<org, member, joined, access, budget, link, challenge, spent,
                       respent, overlapped, relinked, invitation>>
    BY DEF AdminResetMfa
  <1>3. Follows /\ Overtakes(OnUser(u))
    BY <1>1, SettleFollows, OnUserBusy DEF AdminResetMfa, IInv
  <1>4. /\ clear \in UserRow /\ clear.status = user[u].status /\ KeysOK(clear)
        /\ \A g \in Factor : SpentOK(user[u], g) => SpentOK(clear, g)
    BY <1>1, ClearedRow DEF IInv, FactorsOK
  <1> HIDE DEF clear
  <1>5. /\ row \in UserRow /\ row.status = clear.status
        /\ row.secret = clear.secret /\ row.pending = clear.pending
        /\ row.step = clear.step /\ row.codes = clear.codes /\ row.keys = clear.keys
    BY <1>4, CutRow
  <1> HIDE DEF row
  <1>6. KeysOK(row) /\ \A f \in spent : f.user = u => SpentOK(row, f)
    <2>1. KeysOK(row)
      BY <1>4, <1>5 DEF KeysOK
    <2>2. \A f \in spent : f \in Factor /\ (f.user = u => SpentOK(user[u], f))
      BY TablesOf DEF IInv, FactorsOK, TablesTyped
    <2>. QED BY <1>4, <1>5, <2>1, <2>2 DEF SpentOK
  <1>7. /\ user' \in [User -> UserRow] /\ user'[u] = row
        /\ \A v \in User : v # u => user'[v] = user[v]
    BY <1>1, <1>2, <1>5, RowWritten DEF IInv
  <1>8. user'[u].status # "none"
    BY <1>1, <1>4, <1>5, <1>7
  <1>9. /\ session' \in Seq(SessionRow) /\ DOMAIN session' = DOMAIN session
        /\ \A j \in DOMAIN session :
             /\ session'[j].user = session[j].user /\ session'[j].family = session[j].family
             /\ session'[j].next = session[j].next /\ session'[j].cut = session[j].cut
             /\ session'[j].via = session[j].via
             /\ session[j].user = u => session'[j].state # "open"
             /\ session[j].user # u => session'[j].state = session[j].state
    BY <1>1, <1>2, ClosedForRows DEF IInv
  <1>10. SessionsOK' /\ overlapped' \subseteq Families'
    BY <1>1, <1>2, <1>3, <1>7, <1>8, <1>9, UserClosed
  <1>11. FactorsOK'
    <2>1. \A v \in User : KeysOK(user'[v]) /\ \A f \in spent : f.user = v => SpentOK(user'[v], f)
      BY <1>6, <1>7 DEF IInv, FactorsOK
    <2>2. /\ respent = {} /\ \A j \in DOMAIN challenge : challenge[j].attempts <= MaxAttempts
      BY DEF IInv, FactorsOK, SecondFactorOnce
    <2>. QED BY <1>2, <1>9, <2>1, <2>2, FactorsKeep, TablesOf DEF IInv, TablesTyped
  <1>12. LinksOK'
    BY <1>2, <1>3, <1>7, <1>8, LinksFrame DEF IInv
  <1>13. TablesTyped' /\ budget' \in [Area -> Nat]
    BY <1>2, <1>7, <1>9, <1>10, TablesOf DEF IInv, TablesTyped
  <1>. QED BY <1>2, <1>3, <1>10, <1>11, <1>12, <1>13, AccountKeeps

-----------------------------------------------------------------------------
(* Policies and plans *)
LEMMA OrgKeeps ==
  ASSUME IInv, Follows,
         UNCHANGED <<user, member, joined, access, sessionVars, invitation>>,
         budget' \in [Area -> Nat], org' \in [Org -> OrgRow],
         \A o \in Org : org'[o].exists = org[o].exists /\ (~org[o].exists => org'[o] = org[o]),
         \A o \in Org :
           \/ EnforceUserLimit(o) => EnforceUserLimit(o)'
           \/ \A q \in Process : call[q].op = "accept" /\ call[q].org = o =>
                call'[q] = Idle \/ call'[q].stale
  PROVE  IInv'
  <1>1. TenantTablesTyped'
    BY TablesOf DEF IInv, TenantTablesTyped, NoMember
  <1>2. PlansOK'
    <2>1. \A i \in DOMAIN invitation : invitation[i].org \in Org
      BY RowsTyped DEF IInv, InvitationRow
    <2>. QED BY <2>1, PlansKeep DEF IInv, PlansOK, IsMember
  <1>3. InvitationsOK'
    BY InvitationsFrame DEF IInv
  <1>. QED BY <1>1, <1>2, <1>3, TenantKeeps

LEMMA OrgWritten ==
  ASSUME Typed, NEW o \in Org, NEW row \in OrgRow, org' = [org EXCEPT ![o] = row]
  PROVE  /\ org' \in [Org -> OrgRow] /\ org'[o] = row
         /\ \A q \in Org : q # o => org'[q] = org[q]
  BY RowsTyped

LEMMA PolicyKeeps ==
  ASSUME IInv, NEW a \in User, NEW o \in Org, NEW required \in BOOLEAN,
         UpdateSecurityPolicy(a, o, required)
  PROVE  IInv'
  <1> DEFINE row == [org[o] EXCEPT !.mfaRequired = required]
  <1>1. org[o] \in OrgRow /\ org[o].exists
    BY RowsTyped, Permitted DEF IInv, UpdateSecurityPolicy
  <1>2. /\ org' = [org EXCEPT ![o] = row]
        /\ UNCHANGED <<user, member, joined, access, call, sessionVars, invitation>>
    BY DEF UpdateSecurityPolicy
  <1>3. /\ row \in OrgRow /\ row.exists = org[o].exists
        /\ row.plan = org[o].plan /\ row.subscription = org[o].subscription
    BY <1>1 DEF OrgRow
  <1> HIDE DEF row
  <1>4. /\ org' \in [Org -> OrgRow] /\ org'[o] = row
        /\ \A q \in Org : q # o => org'[q] = org[q]
    BY <1>2, <1>3, OrgWritten DEF IInv
  <1>5. Follows /\ budget' \in [Area -> Nat]
    BY <1>2, StillFollows, Spent DEF UpdateSecurityPolicy, IInv, Area
  <1>6. \A q \in Org : EnforceUserLimit(q) => EnforceUserLimit(q)'
    BY <1>2, <1>3, <1>4, SeatStays DEF IInv
  <1>. QED BY <1>1, <1>2, <1>3, <1>4, <1>5, <1>6, OrgKeeps

LEMMA PlanKeeps ==
  ASSUME IInv, NEW o \in Org, (\E plan \in Plan : ChangePlan(o, plan)) \/ TrialEnds(o)
  PROVE  IInv'
  <1>1. /\ org[o] \in OrgRow /\ org[o].exists
        /\ UNCHANGED <<user, member, joined, access, sessionVars, invitation>>
        /\ Spend("tenant") /\ Settle(None, OnOrg(o))
    BY RowsTyped DEF IInv, ChangePlan, TrialEnds
  <1>2. PICK row \in OrgRow : row.exists = org[o].exists /\ org' = [org EXCEPT ![o] = row]
    <2>1. CASE TrialEnds(o)
      <3> DEFINE row == [org[o] EXCEPT !.subscription = "ended"]
      <3>1. row \in OrgRow /\ row.exists = org[o].exists
        BY <1>1 DEF OrgRow
      <3>2. org' = [org EXCEPT ![o] = row]
        BY <2>1 DEF TrialEnds
      <3> HIDE DEF row
      <3>. QED BY <3>1, <3>2
    <2>2. ASSUME NEW plan \in Plan, ChangePlan(o, plan)
          PROVE  \E row \in OrgRow : row.exists = org[o].exists /\ org' = [org EXCEPT ![o] = row]
      <3> DEFINE row == [org[o] EXCEPT !.plan = plan, !.subscription = "active"]
      <3>1. row \in OrgRow /\ row.exists = org[o].exists
        BY <1>1 DEF OrgRow
      <3>2. org' = [org EXCEPT ![o] = row]
        BY <1>1, <2>2, RowsTyped DEF ChangePlan, PlanChanged, IInv, OrgRow
      <3> HIDE DEF row
      <3>. QED BY <3>1, <3>2
    <2>. QED BY <2>1, <2>2
  <1>3. /\ org' \in [Org -> OrgRow] /\ org'[o] = row
        /\ \A q \in Org : q # o => org'[q] = org[q]
    BY <1>2, OrgWritten DEF IInv
  <1>4. Follows /\ Overtakes(OnOrg(o)) /\ budget' \in [Area -> Nat]
    BY <1>1, SettleFollows, OnOrgBusy, Spent DEF IInv, Area
  <1>5. \A q \in Org : q # o => (EnforceUserLimit(q) => EnforceUserLimit(q)')
    BY <1>1, <1>3, SeatStays DEF IInv
  <1>6. \A q \in Process : call[q].org = o => call'[q] = Idle \/ call'[q].stale
    BY <1>4 DEF Overtakes, OnOrg
  <1>7. \A q \in Org :
          \/ EnforceUserLimit(q) => EnforceUserLimit(q)'
          \/ \A r \in Process : call[r].op = "accept" /\ call[r].org = q =>
               call'[r] = Idle \/ call'[r].stale
    BY <1>5, <1>6
  <1>. QED BY <1>1, <1>2, <1>3, <1>4, <1>7, OrgKeeps

(* What is written down was blocked already. *)
LEMMA ExpireTrialsKeeps ==
  ASSUME IInv, ExpireTrials
  PROVE  IInv'
  <1> DEFINE late(row) == [row EXCEPT !.subscription = "past_due"]
  <1>1. /\ UNCHANGED <<user, member, joined, access, call, budget, sessionVars, invitation>>
        /\ org' = [o \in Org |-> org'[o]]
        /\ \A o \in Org : org'[o] = IF org[o].subscription = "ended" THEN late(org[o])
                                                                    ELSE org[o]
    BY DEF ExpireTrials
  <1>2. ASSUME NEW row \in OrgRow
        PROVE  late(row) \in OrgRow /\ late(row).exists = row.exists
    BY DEF OrgRow
  <1> HIDE DEF late
  <1>3. ASSUME NEW o \in Org
        PROVE  /\ org'[o] \in OrgRow /\ org'[o].exists = org[o].exists
               /\ ~org[o].exists => org'[o] = org[o]
               /\ EnforceUserLimit(o) => EnforceUserLimit(o)'
    <2>1. org[o] \in OrgRow
      BY RowsTyped DEF IInv
    <2>2. CASE org[o].subscription = "ended"
      <3>1. org[o].exists
        BY <2>2 DEF IInv, PlansOK, NoOrg
      <3>2. ~EnforceUserLimit(o)
        BY <2>2 DEF EnforceUserLimit, GrowthBlocked
      <3>. QED BY <1>1, <1>2, <2>1, <2>2, <3>1, <3>2
    <2>3. CASE org[o].subscription # "ended"
      <3>1. org'[o] = org[o]
        BY <1>1, <2>3
      <3>2. EnforceUserLimit(o) => EnforceUserLimit(o)'
        BY <1>1, <3>1, SeatStays DEF IInv
      <3>. QED BY <2>1, <3>1, <3>2
    <2>. QED BY <2>2, <2>3
  <1>4. org' \in [Org -> OrgRow]
    BY <1>1, <1>3
  <1>5. Follows /\ budget' \in [Area -> Nat]
    BY <1>1, StillFollows, TablesOf DEF IInv
  <1>. QED BY <1>1, <1>3, <1>4, <1>5, OrgKeeps

-----------------------------------------------------------------------------
(* Erasure: the rows of a table that are deleted. *)
LEMMA GoneRows ==
  ASSUME NEW S, NEW s \in Seq(S), NEW mine,
         \A row \in S : [row EXCEPT !.state = "gone"] \in S,
         NEW t, t = [i \in DOMAIN s |-> IF i \in mine THEN [s[i] EXCEPT !.state = "gone"]
                                                     ELSE s[i]]
  PROVE  /\ t \in Seq(S) /\ DOMAIN t = DOMAIN s
         /\ \A i \in DOMAIN s : s[i] \in S
         /\ \A i \in DOMAIN s \ mine : t[i] = s[i]
         /\ \A i \in DOMAIN s : i \in mine => t[i] = [s[i] EXCEPT !.state = "gone"]
  <1>1. \A i \in DOMAIN s : s[i] \in S
    BY LenProperties, ElementOfSeq
  <1>2. /\ \A i \in DOMAIN s \ mine : t[i] = s[i]
        /\ \A i \in DOMAIN s : i \in mine => t[i] = [s[i] EXCEPT !.state = "gone"]
    OBVIOUS
  <1>3. \A i \in DOMAIN s : t[i] \in S
    BY <1>1, <1>2
  <1>4. t = [i \in DOMAIN s |-> t[i]]
    OBVIOUS
  <1>. QED BY <1>1, <1>2, <1>3, <1>4, Rewritten

Mine(table, u) == {i \in DOMAIN table : table[i].user = u}

Gone(table, mine) ==
  [i \in DOMAIN table |-> IF i \in mine THEN [table[i] EXCEPT !.state = "gone"]
                                        ELSE table[i]]

LEMMA SessionsGone ==
  ASSUME Typed, NEW u \in User, session' = Gone(session, Mine(session, u))
  PROVE  /\ session' \in Seq(SessionRow) /\ DOMAIN session' = DOMAIN session
         /\ \A j \in DOMAIN session :
              /\ session'[j].user = session[j].user /\ session'[j].family = session[j].family
              /\ session'[j].next = session[j].next /\ session'[j].cut = session[j].cut
              /\ session'[j].via = session[j].via
              /\ session[j].user = u => session'[j].state # "open"
              /\ session[j].user # u => session'[j].state = session[j].state
  <1>1. ASSUME NEW row \in SessionRow
        PROVE  LET new == [row EXCEPT !.state = "gone"]
               IN /\ new \in SessionRow /\ new.user = row.user /\ new.family = row.family
                  /\ new.next = row.next /\ new.cut = row.cut /\ new.via = row.via
                  /\ new.state = "gone"
    BY DEF SessionRow
  <1>2. /\ session' \in Seq(SessionRow) /\ DOMAIN session' = DOMAIN session
        /\ \A i \in DOMAIN session : session[i] \in SessionRow
        /\ \A i \in DOMAIN session \ Mine(session, u) : session'[i] = session[i]
        /\ \A i \in DOMAIN session : i \in Mine(session, u) =>
             session'[i] = [session[i] EXCEPT !.state = "gone"]
    <2>1. session \in Seq(SessionRow)
      BY TablesOf DEF TablesTyped
    <2>2. \A row \in SessionRow : [row EXCEPT !.state = "gone"] \in SessionRow
      BY <1>1
    <2>3. PICK mine : mine = Mine(session, u)
      OBVIOUS
    <2>4. session' = [i \in DOMAIN session |-> IF i \in mine
                                                 THEN [session[i] EXCEPT !.state = "gone"]
                                                 ELSE session[i]]
      BY <2>3 DEF Gone
    <2>. QED BY <2>1, <2>2, <2>3, <2>4, GoneRows
  <1>3. ASSUME NEW j \in DOMAIN session
        PROVE  /\ session'[j].user = session[j].user
               /\ session'[j].family = session[j].family
               /\ session'[j].next = session[j].next /\ session'[j].cut = session[j].cut
               /\ session'[j].via = session[j].via
               /\ session[j].user = u => session'[j].state # "open"
               /\ session[j].user # u => session'[j].state = session[j].state
    <2>1. CASE j \in Mine(session, u)
      <3>1. session[j] \in SessionRow /\ session[j].user = u
            /\ session'[j] = [session[j] EXCEPT !.state = "gone"]
        BY <1>2, <1>3, <2>1 DEF Mine
      <3>. QED BY <1>1, <3>1
    <2>2. CASE j \notin Mine(session, u)
      <3>1. session[j].user # u /\ session'[j] = session[j]
        BY <1>2, <1>3, <2>2 DEF Mine
      <3>. QED BY <3>1
    <2>. QED BY <2>1, <2>2
  <1>. QED BY <1>2, <1>3

LEMMA LinksGone ==
  ASSUME Typed, NEW u \in User, link' = Gone(link, Mine(link, u))
  PROVE  /\ link' \in Seq(LinkRow) /\ DOMAIN link' = DOMAIN link
         /\ \A j \in DOMAIN link :
              /\ link'[j].user = link[j].user /\ link'[j].purpose = link[j].purpose
              /\ link'[j].state = "usable" => link[j].state = "usable"
  <1>1. ASSUME NEW row \in LinkRow
        PROVE  LET new == [row EXCEPT !.state = "gone"]
               IN /\ new \in LinkRow /\ new.user = row.user /\ new.purpose = row.purpose
                  /\ new.state = "gone"
    BY DEF LinkRow
  <1>2. /\ link' \in Seq(LinkRow) /\ DOMAIN link' = DOMAIN link
        /\ \A i \in DOMAIN link : link[i] \in LinkRow
        /\ \A i \in DOMAIN link \ Mine(link, u) : link'[i] = link[i]
        /\ \A i \in DOMAIN link : i \in Mine(link, u) =>
             link'[i] = [link[i] EXCEPT !.state = "gone"]
    <2>1. link \in Seq(LinkRow)
      BY TablesOf DEF TablesTyped
    <2>2. \A row \in LinkRow : [row EXCEPT !.state = "gone"] \in LinkRow
      BY <1>1
    <2>. QED BY <2>1, <2>2, GoneRows DEF Gone
  <1>3. ASSUME NEW j \in DOMAIN link
        PROVE  /\ link'[j].user = link[j].user /\ link'[j].purpose = link[j].purpose
               /\ link'[j].state = "usable" => link[j].state = "usable"
    <2>1. CASE j \in Mine(link, u)
      BY <1>1, <1>2, <2>1
    <2>2. CASE j \notin Mine(link, u)
      BY <1>2, <2>2
    <2>. QED BY <2>1, <2>2
  <1>. QED BY <1>2, <1>3

LEMMA ChallengesGone ==
  ASSUME Typed, NEW u \in User, challenge' = Gone(challenge, Mine(challenge, u))
  PROVE  /\ challenge' \in Seq(ChallengeRow) /\ DOMAIN challenge' = DOMAIN challenge
         /\ \A j \in DOMAIN challenge :
              /\ challenge'[j].attempts = challenge[j].attempts
              /\ challenge[j].state # "open" => challenge'[j].state # "open"
  <1>1. ASSUME NEW row \in ChallengeRow
        PROVE  LET new == [row EXCEPT !.state = "gone"]
               IN /\ new \in ChallengeRow /\ new.attempts = row.attempts
                  /\ new.state = "gone"
    BY DEF ChallengeRow
  <1>2. /\ challenge' \in Seq(ChallengeRow) /\ DOMAIN challenge' = DOMAIN challenge
        /\ \A i \in DOMAIN challenge : challenge[i] \in ChallengeRow
        /\ \A i \in DOMAIN challenge \ Mine(challenge, u) : challenge'[i] = challenge[i]
        /\ \A i \in DOMAIN challenge : i \in Mine(challenge, u) =>
             challenge'[i] = [challenge[i] EXCEPT !.state = "gone"]
    <2>1. challenge \in Seq(ChallengeRow)
      BY TablesOf DEF TablesTyped
    <2>2. \A row \in ChallengeRow : [row EXCEPT !.state = "gone"] \in ChallengeRow
      BY <1>1
    <2>. QED BY <2>1, <2>2, GoneRows DEF Gone
  <1>3. ASSUME NEW j \in DOMAIN challenge
        PROVE  /\ challenge'[j].attempts = challenge[j].attempts
               /\ challenge[j].state # "open" => challenge'[j].state # "open"
    <2>1. CASE j \in Mine(challenge, u)
      BY <1>1, <1>2, <2>1
    <2>2. CASE j \notin Mine(challenge, u)
      BY <1>2, <2>2
    <2>. QED BY <2>1, <2>2
  <1>. QED BY <1>2, <1>3

LEMMA InvitationsGone ==
  ASSUME Typed, NEW rows, invitation' = Gone(invitation, rows)
  PROVE  /\ invitation' \in Seq(InvitationRow) /\ DOMAIN invitation' = DOMAIN invitation
         /\ \A j \in DOMAIN invitation :
              /\ invitation'[j].org = invitation[j].org
              /\ j \notin rows => invitation'[j] = invitation[j]
              /\ j \in rows => invitation'[j].state = "gone"
  <1>1. ASSUME NEW row \in InvitationRow
        PROVE  LET new == [row EXCEPT !.state = "gone"]
               IN new \in InvitationRow /\ new.org = row.org /\ new.state = "gone"
    BY DEF InvitationRow
  <1>2. /\ invitation' \in Seq(InvitationRow) /\ DOMAIN invitation' = DOMAIN invitation
        /\ \A i \in DOMAIN invitation : invitation[i] \in InvitationRow
        /\ \A i \in DOMAIN invitation \ rows : invitation'[i] = invitation[i]
        /\ \A i \in DOMAIN invitation : i \in rows =>
             invitation'[i] = [invitation[i] EXCEPT !.state = "gone"]
    <2>1. invitation \in Seq(InvitationRow)
      BY TablesOf DEF TenantTablesTyped
    <2>2. \A row \in InvitationRow : [row EXCEPT !.state = "gone"] \in InvitationRow
      BY <1>1
    <2>. QED BY <2>1, <2>2, GoneRows DEF Gone
  <1>3. ASSUME NEW j \in DOMAIN invitation
        PROVE  /\ invitation'[j].org = invitation[j].org
               /\ j \notin rows => invitation'[j] = invitation[j]
               /\ j \in rows => invitation'[j].state = "gone"
    <2>1. CASE j \in rows
      <3>1. /\ invitation[j] \in InvitationRow
            /\ invitation'[j] = [invitation[j] EXCEPT !.state = "gone"]
        BY <1>2, <2>1
      <3>. QED BY <1>1, <2>1, <3>1
    <2>2. CASE j \notin rows
      BY <1>2, <2>2
    <2>. QED BY <2>1, <2>2
  <1>. QED BY <1>2, <1>3

LEMMA EraseUserKeeps ==
  ASSUME IInv, NEW o \in Org, NEW u \in User, EraseUser(o, u)
  PROVE  IInv'
  <1> DEFINE last == \A q \in Org \ {o} : ~IsMember(q, u)
             invited == {i \in Mine(invitation, u) : invitation[i].org = o
                                                     /\ user[u].status = "active"}
             cut == [user[u] EXCEPT !.cut = @ + 1]
             clear == ClearMfa(cut)
             row == IF last THEN [clear EXCEPT !.status = "erased", !.verified = FALSE]
                            ELSE cut
  <1>1. /\ user[u] \in UserRow /\ user[u].status # "none" /\ invited \cap Held = {}
        /\ Spend("tenant") /\ Settle(None, OnUser(u))
        /\ member' = [member EXCEPT ![o][u] = NoMember]
        /\ invitation' = Gone(invitation, invited)
        /\ UNCHANGED <<org, joined, access, spent, respent, overlapped, relinked>>
    BY RowsTyped DEF EraseUser, Leave, Gone, Mine, IInv
  <1>2. /\ user' = [user EXCEPT ![u] = row]
        /\ \/ /\ session' = Gone(session, Mine(session, u))
              /\ link' = Gone(link, Mine(link, u))
              /\ challenge' = Gone(challenge, Mine(challenge, u))
           \/ session' = ClosedFor(u) /\ UNCHANGED <<link, challenge>>
    BY DEF EraseUser, Gone, Mine
  <1>3. /\ cut \in UserRow /\ cut.status = user[u].status
        /\ KeysOK(cut) /\ \A f \in Factor : SpentOK(user[u], f) => SpentOK(cut, f)
    <2>1. /\ cut \in UserRow /\ cut.status = user[u].status
          /\ cut.secret = user[u].secret /\ cut.pending = user[u].pending
          /\ cut.step = user[u].step /\ cut.codes = user[u].codes /\ cut.keys = user[u].keys
      BY <1>1, CutRow
    <2> HIDE DEF cut
    <2>. QED BY <2>1 DEF KeysOK, SpentOK, IInv, FactorsOK
  <1> HIDE DEF cut
  <1>4. /\ clear \in UserRow /\ clear.status = user[u].status
        /\ KeysOK(clear) /\ \A f \in Factor : SpentOK(cut, f) => SpentOK(clear, f)
    BY <1>3, ClearedRow
  <1> HIDE DEF clear, last
  <1>5. /\ row \in UserRow /\ row.status # "none" /\ KeysOK(row)
        /\ \A f \in Factor : SpentOK(user[u], f) => SpentOK(row, f)
    <2>1. CASE last
      <3>1. row = [clear EXCEPT !.status = "erased", !.verified = FALSE]
        BY <2>1
      <3> HIDE DEF row
      <3>2. /\ row \in UserRow /\ row.status = "erased"
            /\ row.secret = clear.secret /\ row.pending = clear.pending
            /\ row.step = clear.step /\ row.codes = clear.codes /\ row.keys = clear.keys
        BY <1>4, <3>1 DEF UserRow
      <3>. QED BY <1>3, <1>4, <3>2 DEF KeysOK, SpentOK
    <2>2. CASE ~last
      BY <1>1, <1>3, <2>2
    <2>. QED BY <2>1, <2>2
  <1> HIDE DEF row
  <1>6. /\ user' \in [User -> UserRow] /\ user'[u] = row /\ user'[u].status # "none"
        /\ \A v \in User : v # u => user'[v] = user[v]
    BY <1>2, <1>5, RowWritten DEF IInv
  <1>7. Follows /\ Overtakes(OnUser(u)) /\ budget' \in [Area -> Nat]
    BY <1>1, SettleFollows, OnUserBusy, Spent DEF IInv, Area
  <1>8. /\ session' \in Seq(SessionRow) /\ DOMAIN session' = DOMAIN session
        /\ \A j \in DOMAIN session :
             /\ session'[j].user = session[j].user /\ session'[j].family = session[j].family
             /\ session'[j].next = session[j].next /\ session'[j].cut = session[j].cut
             /\ session'[j].via = session[j].via
             /\ session[j].user = u => session'[j].state # "open"
             /\ session[j].user # u => session'[j].state = session[j].state
    BY <1>2, SessionsGone, ClosedForRows DEF IInv
  <1>9. /\ link' \in Seq(LinkRow) /\ DOMAIN link' = DOMAIN link
        /\ \A j \in DOMAIN link :
             /\ link'[j].user = link[j].user /\ link'[j].purpose = link[j].purpose
             /\ link'[j].state = "usable" => link[j].state = "usable"
    BY <1>2, LinksGone, TablesOf DEF IInv, TablesTyped
  <1>10. /\ challenge' \in Seq(ChallengeRow) /\ DOMAIN challenge' = DOMAIN challenge
         /\ \A j \in DOMAIN challenge :
              /\ challenge'[j].attempts = challenge[j].attempts
              /\ challenge[j].state # "open" => challenge'[j].state # "open"
    BY <1>2, ChallengesGone, TablesOf DEF IInv, TablesTyped
  <1>11. SessionsOK' /\ overlapped' \subseteq Families'
    BY <1>1, <1>6, <1>7, <1>8, UserClosed
  <1>12. LinksOK'
    BY <1>1, <1>6, <1>7, <1>9, LinksUsed DEF IInv
  <1>13. FactorsOK'
    <2>1. \A f \in spent : f \in Factor /\ f.user \in User /\ SpentOK(user[f.user], f)
      BY TablesOf DEF IInv, FactorsOK, TablesTyped, Factor
    <2>2. \A v \in User : KeysOK(user'[v]) /\ \A f \in spent : f.user = v => SpentOK(user'[v], f)
      BY <1>5, <1>6, <2>1 DEF IInv, FactorsOK
    <2>3. respent = {} /\ \A j \in DOMAIN challenge' : challenge'[j].attempts <= MaxAttempts
      BY <1>10 DEF IInv, FactorsOK, SecondFactorOnce
    <2>. QED BY <1>1, <1>8, <1>10, <2>2, <2>3, FactorsKeep, TablesOf DEF IInv, TablesTyped
  <1>14. TablesTyped'
    BY <1>1, <1>6, <1>8, <1>9, <1>10, <1>11, TablesOf DEF IInv, TablesTyped
  <1>15. /\ invitation' \in Seq(InvitationRow) /\ DOMAIN invitation' = DOMAIN invitation
         /\ \A j \in DOMAIN invitation :
              /\ invitation'[j].org = invitation[j].org
              /\ j \notin invited => invitation'[j] = invitation[j]
              /\ j \in invited => invitation'[j].state = "gone"
    BY <1>1, InvitationsGone DEF IInv
  <1> HIDE DEF invited
  <1>16. InvitationsOK'
    <2>1. \A q \in Process : call'[q].op # "idle" =>
            call'[q].op = call[q].op /\ call'[q].row = call[q].row
      BY <1>7, FollowsFields DEF IInv
    <2>2. \A q \in Process : call[q].op = "accept" => call[q].row \notin invited
      BY <1>1 DEF Held
    <2>3. \A q \in Process : InvitationCall(call[q])'
      BY <1>15, <2>1, <2>2 DEF IInv, InvitationsOK, InvitationCall
    <2>4. \A q, r \in Process : call'[q].op = "accept" /\ call'[r].op = "accept"
            /\ call'[q].row = call'[r].row => q = r
      BY <2>1 DEF IInv, InvitationsOK
    <2>5. InvitationAdmitsOnce'
      BY <1>1 DEF IInv, InvitationsOK, InvitationAdmitsOnce
    <2>6. \A m \in DOMAIN joined' : joined'[m].by # 0 =>
            joined'[m].by \in DOMAIN invitation' /\ invitation'[joined'[m].by].state # "pending"
      BY <1>1, <1>15 DEF IInv, InvitationsOK
    <2>. QED BY <2>3, <2>4, <2>5, <2>6 DEF InvitationsOK
  <1>17. NoMember \in MemberRow /\ NoMember.id = 0
    BY DEF NoMember, MemberRow
  <1>18. TenantTablesTyped'
    BY <1>1, <1>15, <1>17, RowTyped DEF IInv
  <1>19. PlansOK'
    <2>1. \A q \in Org, v \in User : member'[q][v].id # 0 => member[q][v].id # 0
      BY <1>1, <1>17, MemberWritten DEF IInv
    <2>2. \A q \in Org : EnforceUserLimit(q) => EnforceUserLimit(q)'
      BY <1>1, <2>1, SeatStays DEF IInv
    <2>3. \A i \in DOMAIN invitation' : org'[invitation'[i].org].exists
      BY <1>1, <1>15 DEF IInv, PlansOK
    <2>. QED BY <1>1, <1>7, <2>1, <2>2, <2>3, PlansKeep DEF IInv, PlansOK, IsMember
  <1>. QED BY <1>7, <1>11, <1>12, <1>13, <1>14, <1>16, <1>18, <1>19, TypedAgain DEF IInv

-----------------------------------------------------------------------------
(* An organization is registered: its owner had no account, so no link, no  *)
(* factor and no request for a link is the owner's yet.                     *)
LEMMA RegisterOrganizationKeeps ==
  ASSUME IInv, NEW p \in Process, RegisterOrganization(p)
  PROVE  IInv'
  <1> DEFINE c == call[p]
             u == c.user
             o == c.org
             row == NewUser(FALSE)
             orgRow == [NoOrg EXCEPT !.exists = TRUE]
             fresh == [user |-> u, purpose |-> "email_verification", state |-> "usable"]
             n == Len(link) + 1
  <1>1. /\ c.op = "register" /\ u \in User /\ o \in Org
        /\ user[u].status = "none" /\ user[u].cut = 0 /\ ~org[o].exists
    BY DEF RegisterOrganization, IInv, Typed, CallTyped, CallRow, OnAnOrg, SessionsOK
  <1>2. /\ org' = [org EXCEPT ![o] = orgRow]
        /\ user' = [user EXCEPT ![u] = row]
        /\ Join(o, u, "owner", 0)
        /\ link' = Append(link, fresh)
        /\ session' = Append(session, NewSession(u, Len(session) + 1, 0, 0))
        /\ access' = access \cup {[user |-> u, org |-> o, cut |-> 0]}
        /\ UNCHANGED <<budget, challenge, spent, respent, overlapped, relinked, invitation>>
    BY DEF RegisterOrganization, FoundOrganization
  <1>3. Follows /\ call'[p] = Idle
    BY <1>1, SettleFollows DEF RegisterOrganization, IInv
  <1>4. row \in UserRow /\ row.status = "active" /\ row.cut = 0 /\ KeysOK(row)
    BY NewUserRow
  <1> HIDE DEF row
  <1>5. /\ user' \in [User -> UserRow] /\ user'[u] = row
        /\ \A v \in User : v # u => user'[v] = user[v]
        /\ \A v \in User : /\ user'[v].cut = user[v].cut
                           /\ user'[v].status = "none" => user[v].status = "none"
    <2>1. /\ user' \in [User -> UserRow] /\ user'[u] = row
          /\ \A v \in User : v # u => user'[v] = user[v]
      BY <1>1, <1>2, <1>4, RowWritten DEF IInv
    <2>. QED BY <1>1, <1>4, <2>1
  <1>6. NoOrg \in OrgRow /\ orgRow \in OrgRow /\ orgRow.exists
    BY TenancyAssumption DEF NoOrg, OrgRow
  <1> HIDE DEF orgRow
  <1>7. /\ org' \in [Org -> OrgRow] /\ org'[o] = orgRow
        /\ \A q \in Org : q # o => org'[q] = org[q]
    BY <1>1, <1>2, <1>6, OrgWritten DEF IInv
  <1>8. /\ TenantTablesTyped'
        /\ Len(joined) \in Nat /\ DOMAIN joined = 1..Len(joined)
        /\ DOMAIN joined' = 1..(Len(joined) + 1)
        /\ \A m \in DOMAIN joined : joined'[m] = joined[m]
        /\ joined'[Len(joined) + 1].by = 0
        /\ \A q \in Org, v \in User : q # o \/ v # u => member'[q][v] = member[q][v]
    <2>1. invitation' \in Seq(InvitationRow)
      BY <1>2, TablesOf DEF IInv, TenantTablesTyped
    <2>2. "owner" \in Role /\ 0 \in Nat
      BY DEF Role
    <2>. QED BY <1>1, <1>2, <1>7, <2>1, <2>2, JoinTyped DEF IInv
  <1>9. /\ SessionsOK' /\ session' \in Seq(SessionRow) /\ overlapped' \subseteq Families'
    <2>1. /\ 0 \in Nat /\ FALSE \in BOOLEAN /\ 0 = user'[u].cut
          /\ overlapped' = IF FALSE THEN overlapped \cup {Len(session) + 1} ELSE overlapped
      BY <1>2, <1>4, <1>5
    <2>. QED BY <1>1, <1>2, <1>3, <1>5, <2>1, OpeningKeeps DEF IInv
  <1>10. /\ fresh \in LinkRow /\ fresh.user = u /\ fresh.purpose = "email_verification"
    BY <1>1 DEF LinkRow, Purpose
  <1> HIDE DEF fresh
  <1>11. /\ link' \in Seq(LinkRow) /\ n \in Nat \ {0}
         /\ DOMAIN link = 1..(n - 1) /\ DOMAIN link' = 1..n
         /\ \A j \in DOMAIN link : link'[j] = link[j]
         /\ link'[n] = fresh
    <2>1. link \in Seq(LinkRow)
      BY TablesOf DEF IInv, TablesTyped
    <2>. QED BY <1>2, <1>10, <2>1, Appended
  <1> HIDE DEF n
  <1>12. \A j \in DOMAIN link : link[j].user # u
    BY <1>1 DEF IInv, LinksOK
  <1>13. LinksOK'
    <2>1. ASSUME NEW i \in DOMAIN link', NEW j \in DOMAIN link',
                 link'[i].user = link'[j].user, link'[i].purpose = link'[j].purpose,
                 link'[i].state = "usable", link'[j].state = "usable"
          PROVE  i = j \/ <<link'[i].user, link'[i].purpose>> \in relinked'
      <3>1. CASE i \in DOMAIN link /\ j \in DOMAIN link
        BY <1>2, <1>11, <2>1, <3>1 DEF IInv, LinksOK, UsableOnce
      <3>2. CASE i = n /\ j = n
        BY <3>2
      <3>3. CASE i = n /\ j \in DOMAIN link
        BY <1>10, <1>11, <1>12, <2>1, <3>3
      <3>4. CASE i \in DOMAIN link /\ j = n
        BY <1>10, <1>11, <1>12, <2>1, <3>4
      <3>. QED BY <1>11, <3>1, <3>2, <3>3, <3>4
    <2>2. \A i \in DOMAIN link' : user'[link'[i].user].status # "none"
      <3>1. \A i \in DOMAIN link : link[i].user \in User
        BY RowsTyped DEF IInv, LinkRow
      <3>. QED BY <1>4, <1>5, <1>10, <1>11, <3>1 DEF IInv, LinksOK
    <2>3. ASSUME NEW q \in Process, call'[q].op = "issue"
          PROVE  /\ call'[q].user \in User \ {u} /\ user[call'[q].user].status # "none"
                 /\ \/ call'[q].stale
                    \/ <<call'[q].user, call'[q].arg>> \in relinked
                    \/ Usable(call'[q].user, call'[q].arg) \subseteq call'[q].seen
      <3>1. /\ call[q].op = "issue" /\ call'[q].user = call[q].user
            /\ call'[q].arg = call[q].arg /\ call'[q].seen = call[q].seen
            /\ call[q].stale => call'[q].stale
        BY <1>3, <2>3, FollowsFields DEF IInv, Idle
      <3>. QED BY <1>1, <3>1 DEF IInv, LinksOK, LinkCall, Typed, CallTyped
    <2>4. ASSUME NEW v \in User \ {u}, NEW purpose
          PROVE  Usable(v, purpose)' = Usable(v, purpose)
      BY <1>10, <1>11 DEF Usable
    <2>5. ASSUME NEW q \in Process
          PROVE  LinkCall(call[q])'
      <3>1. CASE call'[q].op = "issue"
        <4>1. user'[call'[q].user].status # "none"
          BY <1>5, <2>3, <3>1
        <4>2. Usable(call'[q].user, call'[q].arg) = Usable(call[q].user, call[q].arg)'
          BY <2>3, <2>4, <3>1
        <4>. QED BY <1>2, <2>3, <3>1, <4>1, <4>2 DEF LinkCall
      <3>2. CASE call'[q].op # "issue"
        BY <3>2 DEF LinkCall
      <3>. QED BY <3>1, <3>2
    <2>6. UsableOnce'
      BY <2>1 DEF UsableOnce
    <2>. QED BY <2>2, <2>5, <2>6 DEF LinksOK
  <1>14. InvitationsOK'
    <2>1. \A q \in Process : call'[q].op # "idle" =>
            call'[q].op = call[q].op /\ call'[q].row = call[q].row
      BY <1>3, FollowsFields DEF IInv
    <2>2. \A q \in Process : InvitationCall(call[q])'
      BY <1>2, <2>1 DEF IInv, InvitationsOK, InvitationCall
    <2>3. \A q, r \in Process : call'[q].op = "accept" /\ call'[r].op = "accept"
            /\ call'[q].row = call'[r].row => q = r
      BY <2>1 DEF IInv, InvitationsOK
    <2>4. InvitationAdmitsOnce'
      BY <1>8 DEF IInv, InvitationsOK, InvitationAdmitsOnce
    <2>5. \A m \in DOMAIN joined' : joined'[m].by # 0 =>
            joined'[m].by \in DOMAIN invitation' /\ invitation'[joined'[m].by].state # "pending"
      BY <1>2, <1>8 DEF IInv, InvitationsOK
    <2>. QED BY <2>2, <2>3, <2>4, <2>5 DEF InvitationsOK
  <1>15. PlansOK'
    <2>1. \A q \in Org : /\ org[q].exists => org'[q].exists
                         /\ ~org'[q].exists => org'[q] = NoOrg
      BY <1>6, <1>7 DEF IInv, PlansOK
    <2>2. \A q \in Org, v \in User : member'[q][v].id # 0 => org'[q].exists
      BY <1>6, <1>7, <1>8 DEF IInv, PlansOK, IsMember
    <2>3. \A i \in DOMAIN invitation' : org'[invitation'[i].org].exists
      <3>1. \A i \in DOMAIN invitation : invitation[i].org \in Org
        BY RowsTyped DEF IInv, InvitationRow
      <3>. QED BY <1>2, <2>1, <3>1 DEF IInv, PlansOK
    <2>4. \A q \in Process : ~(call[q].op = "accept" /\ call[q].org = o)
      BY <1>1 DEF IInv, PlansOK, PlanCall
    <2>5. \A q \in Org : q # o => (EnforceUserLimit(q) => EnforceUserLimit(q)')
      BY <1>1, <1>7, <1>8, SeatStays DEF IInv
    <2>6. \A q \in Org :
           \/ EnforceUserLimit(q) => EnforceUserLimit(q)'
           \/ \A r \in Process : call[r].op = "accept" /\ call[r].org = q =>
                call'[r] = Idle \/ call'[r].stale
      BY <2>4, <2>5
    <2>. QED BY <1>3, <2>1, <2>2, <2>3, <2>6, PlansKeep DEF IInv
  <1>16. FactorsOK'
    <2>1. \A f \in spent : f.user # u
      BY <1>1 DEF IInv, FactorsOK, SpentOK
    <2>2. \A v \in User : KeysOK(user'[v]) /\ \A f \in spent : f.user = v => SpentOK(user'[v], f)
      BY <1>4, <1>5, <2>1 DEF IInv, FactorsOK
    <2>3. /\ respent = {} /\ \A j \in DOMAIN challenge : challenge[j].attempts <= MaxAttempts
      BY DEF IInv, FactorsOK, SecondFactorOnce
    <2>4. \A i \in DOMAIN session' :
            \/ session'[i].via = 0
            \/ \E j \in DOMAIN session : /\ session[j].via = session'[i].via
                                         /\ session[j].family = session'[i].family
      <3>1. NewSession(u, Len(session) + 1, 0, 0) \in SessionRow
        BY <1>1, RowsTyped, LenProperties, TablesOf
        DEF NewSession, SessionRow, IInv, TablesTyped
      <3>2. NewSession(u, Len(session) + 1, 0, 0).via = 0
        BY DEF NewSession
      <3>. QED BY <1>2, <3>1, <3>2, Appended, TablesOf DEF IInv, TablesTyped
    <2>. QED BY <1>2, <2>2, <2>3, <2>4, FactorsKeep, TablesOf DEF IInv, TablesTyped
  <1>17. TablesTyped'
    <2>1. [user |-> u, org |-> o, cut |-> 0] \in AccessToken
      BY <1>1 DEF AccessToken
    <2>. QED BY <1>2, <1>5, <1>9, <1>11, <2>1, TablesOf DEF IInv, TablesTyped
  <1>18. budget' \in [Area -> Nat]
    BY <1>2, TablesOf DEF IInv
  <1>. QED BY <1>3, <1>8, <1>9, <1>13, <1>14, <1>15, <1>16, <1>17, <1>18, TypedAgain DEF IInv

(* A request fails. *)
LEMMA AbortKeeps ==
  ASSUME IInv, NEW p \in Process, Abort(p), UNCHANGED <<sessionVars, invitation>>
  PROVE  IInv'
  <1>1. Follows
    BY AbortFollows DEF IInv
  <1>2. UNCHANGED <<user, org, member, joined, access, budget>>
    BY DEF Abort
  <1>3. InvitationsOK' /\ PlansOK' /\ TenantTablesTyped'
    BY <1>1, <1>2, InvitationsFrame, PlansFrame, TenantTablesFrame DEF IInv
  <1>. QED BY <1>1, <1>2, <1>3, TenantKeeps, TablesOf DEF IInv

LEMMA StutterKeeps ==
  ASSUME IInv, UNCHANGED vars
  PROVE  IInv'
  <1>1. Follows
    BY StillFollows DEF IInv, vars, tenancyVars
  <1>2. InvitationsOK' /\ PlansOK' /\ TenantTablesTyped'
    BY <1>1, InvitationsFrame, PlansFrame, TenantTablesFrame DEF IInv, vars, tenancyVars
  <1>. QED BY <1>1, <1>2, TenantKeeps, TablesOf DEF IInv, vars, tenancyVars

LEMMA TenantStepKeeps ==
  ASSUME IInv, TenantStep
  PROVE  IInv'
  <1>1. CASE \E p \in Process :
               \/ \E u \in User, o \in Org : Register(p, u, o)
               \/ \E a, u \in User, o \in Org :
                    \/ \E role \in Offered : \/ CreateInvitation(p, a, o, u, role)
                                             \/ SetRole(p, a, o, u, role)
                    \/ RemoveMember(p, a, o, u)
                    \/ ResetMemberMfa(p, a, o, u)
    BY <1>1, RegisterKeeps, CreateInvitationKeeps, OnMemberKeeps
  <1>2. CASE \E p \in Process, i \in DOMAIN invitation :
               \/ AcceptInvitation(p, i)
               \/ \E a \in User : ResendInvitation(p, a, i) \/ RevokeInvitation(p, a, i)
    BY <1>2, AcceptKeeps, OnInvitationKeeps
  <1>3. CASE \E p \in Process :
               \/ RegisterOrganization(p) \/ InsertInvitation(p) \/ UpdateInvitation(p)
               \/ AdmitMember(p) \/ UpdateMemberRole(p) \/ DeleteMember(p)
               \/ AdminResetMfa(p)
    BY <1>3, RegisterOrganizationKeeps, InsertInvitationKeeps, UpdateInvitationKeeps,
       AdmitMemberKeeps, UpdateMemberRoleKeeps, DeleteMemberKeeps, AdminResetKeeps
  <1>4. CASE \E o \in Org :
               \/ \E a \in User, required \in BOOLEAN : UpdateSecurityPolicy(a, o, required)
               \/ \E plan \in Plan : ChangePlan(o, plan)
               \/ TrialEnds(o)
               \/ \E u \in User : EraseUser(o, u)
    BY <1>4, PolicyKeeps, PlanKeeps, EraseUserKeeps
  <1>5. CASE (\E i \in DOMAIN invitation : InvitationExpires(i)) \/ ExpireTrials
    BY <1>5, InvitationExpiresKeeps, ExpireTrialsKeeps
  <1>. QED BY <1>1, <1>2, <1>3, <1>4, <1>5 DEF TenantStep

LEMMA NextKeeps ==
  ASSUME IInv, [Next]_vars
  PROVE  IInv'
  BY AccountStepKeeps, TenantStepKeeps, AbortKeeps, StutterKeeps DEF Next

-----------------------------------------------------------------------------
(* The initial states: the members of one organization, each with a session *)
(* and perhaps with a second factor.                                        *)
LEMMA FunctionIsSeq ==
  ASSUME NEW S, NEW n \in Nat, NEW f \in [1..n -> S]
  PROVE  f \in Seq(S)
  BY SeqDef

LEMMA OneOf ==
  ASSUME NEW S, NEW T \in {{}} \cup {{a} : a \in S}
  PROVE  /\ SetToSeq(T) \in Seq(S)
         /\ \A u \in T : \E n \in DOMAIN SetToSeq(T) : SetToSeq(T)[n] = u
         /\ \A n \in DOMAIN SetToSeq(T) : SetToSeq(T)[n] \in T
  <1>1. CASE T = {}
    <2>1. Cardinality(T) = 0
      BY <1>1, FS_EmptySet
    <2> DEFINE f == CHOOSE f \in [1..0 -> T] : IsInjective(f)
    <2>2. \E g \in [1..0 -> T] : IsInjective(g)
      <3>1. [i \in 1..0 |-> i] \in [1..0 -> T]
        OBVIOUS
      <3>. QED BY <3>1 DEF IsInjective
    <2>3. f \in [1..0 -> T] /\ SetToSeq(T) = f
      BY <2>1, <2>2 DEF SetToSeq
    <2> HIDE DEF f
    <2>4. f \in Seq(S) /\ \A n \in DOMAIN f : FALSE
      <3>1. f \in [1..0 -> S]
        BY <1>1, <2>3
      <3>. QED BY <2>3, <3>1, SeqDef
    <2>. QED BY <1>1, <2>3, <2>4
  <1>2. CASE \E a \in S : T = {a}
    <2>1. PICK a \in S : T = {a}
      BY <1>2
    <2>2. Cardinality(T) = 1
      BY <2>1, FS_Singleton
    <2> DEFINE f == CHOOSE f \in [1..1 -> T] : IsInjective(f)
    <2>3. \E g \in [1..1 -> T] : IsInjective(g)
      <3> DEFINE g == [i \in 1..1 |-> a]
      <3>1. g \in [1..1 -> T] /\ DOMAIN g = 1..1
        BY <2>1
      <3>2. \A i, j \in 1..1 : i = j
        OBVIOUS
      <3> HIDE DEF g
      <3>3. IsInjective(g)
        BY <3>1, <3>2 DEF IsInjective
      <3>. QED BY <3>1, <3>3
    <2>4. f \in [1..1 -> T] /\ SetToSeq(T) = f
      BY <2>2, <2>3 DEF SetToSeq
    <2> HIDE DEF f
    <2>5. f \in Seq(S) /\ DOMAIN f = 1..1 /\ f[1] = a
      <3>1. f \in [1..1 -> S] /\ DOMAIN f = 1..1 /\ 1 \in 1..1
        BY <2>1, <2>4
      <3>2. f \in Seq(S)
        <4>1. PICK k \in Nat : k = 1
          OBVIOUS
        <4>2. f \in [1..k -> S]
          BY <3>1, <4>1
        <4>. QED BY <4>2, FunctionIsSeq
      <3>3. f[1] \in {a}
        BY <2>1, <2>4, <3>1
      <3>. QED BY <3>1, <3>2, <3>3
    <2>6. /\ \A u \in T : \E n \in DOMAIN f : f[n] = u
          /\ \A n \in DOMAIN f : f[n] \in T
      <3>1. 1 \in 1..1 /\ \A n \in 1..1 : n = 1
        OBVIOUS
      <3>. QED BY <2>1, <2>5, <3>1
    <2>. QED BY <2>4, <2>5, <2>6
  <1>. QED BY <1>1, <1>2

(* The row of a member with a second factor, enrolled in with the code of   *)
(* the first time step.                                                     *)
LEMMA EnrolledRow ==
  LET row == FreshCodes([NewUser(TRUE) EXCEPT !.secret = 1, !.keys = 1, !.step = 1])
  IN /\ row \in UserRow /\ row.status = "active" /\ row.cut = 0 /\ KeysOK(row)
     /\ \A f \in Factor : f.kind = "totp" /\ f.key = 1 /\ f.n = 1 => SpentOK(row, f)
  <1> DEFINE base == [NewUser(TRUE) EXCEPT !.secret = 1, !.keys = 1, !.step = 1]
  <1>1. /\ NewUser(TRUE) \in UserRow /\ NewUser(TRUE).status = "active"
        /\ NewUser(TRUE).cut = 0 /\ NewUser(TRUE).pending = 0 /\ NewUser(TRUE).codes = {}
    BY NewUserRow DEF NewUser, NoUser
  <1>2. /\ base \in UserRow /\ base.status = "active" /\ base.cut = 0
        /\ base.secret = 1 /\ base.pending = 0 /\ base.step = 1 /\ base.keys = 1
        /\ base.codes = {}
    BY <1>1 DEF UserRow
  <1> HIDE DEF base
  <1>3. KeysOK(base)
    BY <1>2 DEF KeysOK
  <1>4. \A f \in Factor : f.kind = "totp" /\ f.key = 1 /\ f.n = 1 => SpentOK(base, f)
    BY <1>2 DEF SpentOK
  <1>5. /\ FreshCodes(base) \in UserRow
        /\ FreshCodes(base).status = base.status /\ FreshCodes(base).cut = base.cut
        /\ KeysOK(FreshCodes(base))
        /\ \A g \in Factor : SpentOK(base, g) => SpentOK(FreshCodes(base), g)
    BY <1>2, <1>3, FreshCodesRow
  <1>6. /\ FreshCodes(base) \in UserRow /\ FreshCodes(base).status = "active"
        /\ FreshCodes(base).cut = 0 /\ KeysOK(FreshCodes(base))
        /\ \A f \in Factor : f.kind = "totp" /\ f.key = 1 /\ f.n = 1 =>
             SpentOK(FreshCodes(base), f)
    BY <1>2, <1>4, <1>5
  <1>. QED BY <1>6 DEF base

LEMMA InitHolds == Init => IInv
  <1> SUFFICES ASSUME Init PROVE IInv
    OBVIOUS
  <1>1. PICK owner \in User, o \in Org, mfa \in BOOLEAN, removed \in BOOLEAN :
        \E admins \in {{}} \cup {{a} : a \in User \ {owner}} :
          LET members == <<owner>> \o SetToSeq(admins)
              present == {owner} \cup admins
              idOf(u) == CHOOSE n \in DOMAIN members : members[n] = u
              left == IF removed THEN admins ELSE {}
          IN /\ user = [u \in User |->
                  IF u \notin present THEN NoUser
                  ELSE IF mfa THEN FreshCodes([NewUser(TRUE) EXCEPT !.secret = 1,
                                                          !.keys = 1, !.step = 1])
                  ELSE NewUser(TRUE)]
             /\ spent = IF mfa THEN {[kind |-> "totp", user |-> u, key |-> 1, n |-> 1] :
                                       u \in present}
                               ELSE {}
             /\ org = [q \in Org |-> IF q = o THEN [NoOrg EXCEPT !.exists = TRUE] ELSE NoOrg]
             /\ member = [q \in Org |-> [u \in User |->
                  IF q # o \/ u \notin present \ left THEN NoMember
                  ELSE [role |-> IF u = owner THEN "owner" ELSE "admin",
                        id |-> idOf(u)]]]
             /\ joined = [n \in DOMAIN members |->
                            [org |-> o, user |-> members[n], by |-> 0]]
             /\ access = {[user |-> u, org |-> o, cut |-> 0] : u \in present}
             /\ session = [n \in DOMAIN members |-> NewSession(members[n], n, 0, 0)]
    BY DEF Init
  <1>2. PICK admins \in {{}} \cup {{a} : a \in User \ {owner}} :
          LET members == <<owner>> \o SetToSeq(admins)
              present == {owner} \cup admins
              idOf(u) == CHOOSE n \in DOMAIN members : members[n] = u
              left == IF removed THEN admins ELSE {}
          IN /\ user = [u \in User |->
                  IF u \notin present THEN NoUser
                  ELSE IF mfa THEN FreshCodes([NewUser(TRUE) EXCEPT !.secret = 1,
                                                          !.keys = 1, !.step = 1])
                  ELSE NewUser(TRUE)]
             /\ spent = IF mfa THEN {[kind |-> "totp", user |-> u, key |-> 1, n |-> 1] :
                                       u \in present}
                               ELSE {}
             /\ org = [q \in Org |-> IF q = o THEN [NoOrg EXCEPT !.exists = TRUE] ELSE NoOrg]
             /\ member = [q \in Org |-> [u \in User |->
                  IF q # o \/ u \notin present \ left THEN NoMember
                  ELSE [role |-> IF u = owner THEN "owner" ELSE "admin",
                        id |-> idOf(u)]]]
             /\ joined = [n \in DOMAIN members |->
                            [org |-> o, user |-> members[n], by |-> 0]]
             /\ access = {[user |-> u, org |-> o, cut |-> 0] : u \in present}
             /\ session = [n \in DOMAIN members |-> NewSession(members[n], n, 0, 0)]
    BY <1>1
  <1> DEFINE members == <<owner>> \o SetToSeq(admins)
             present == {owner} \cup admins
             idOf(u) == CHOOSE n \in DOMAIN members : members[n] = u
             left == IF removed THEN admins ELSE {}
             enrolled == FreshCodes([NewUser(TRUE) EXCEPT !.secret = 1, !.keys = 1,
                                                          !.step = 1])
  <1>3. /\ members \in Seq(User) /\ present \subseteq User
        /\ DOMAIN members = 1..Len(members) /\ Len(members) \in Nat
        /\ \A n \in DOMAIN members : members[n] \in present
        /\ \A u \in present : \E n \in DOMAIN members : members[n] = u
    <2> DEFINE s == SetToSeq(admins)
    <2>1. /\ s \in Seq(User \ {owner}) /\ \A u \in admins : \E n \in DOMAIN s : s[n] = u
          /\ \A n \in DOMAIN s : s[n] \in admins
      BY OneOf
    <2>2. admins \subseteq User
      BY <1>2
    <2> HIDE DEF s
    <2>3. s \in Seq(User) /\ Len(s) \in Nat /\ DOMAIN s = 1..Len(s)
      BY <2>1, LenProperties, SeqDef
    <2>4. /\ <<owner>> \in Seq(User) /\ Len(<<owner>>) = 1 /\ <<owner>>[1] = owner
      OBVIOUS
    <2>5. /\ members \in Seq(User) /\ Len(members) = 1 + Len(s)
          /\ DOMAIN members = 1..(1 + Len(s))
          /\ members[1] = owner
          /\ \A n \in 1..Len(s) : members[n + 1] = s[n]
      <3>1. members = <<owner>> \o s
        BY DEF s
      <3> HIDE DEF members
      <3>2. members \in Seq(User) /\ Len(members) = 1 + Len(s)
        BY <2>3, <2>4, <3>1, ConcatProperties
      <3>3. \A n \in 1..(1 + Len(s)) : members[n] = IF n <= 1 THEN <<owner>>[n] ELSE s[n - 1]
        BY <2>3, <2>4, <3>1, ConcatProperties
      <3>. QED BY <2>3, <2>4, <3>2, <3>3, LenProperties
    <2> HIDE DEF members
    <2>6. \A n \in DOMAIN members : n = 1 \/ (n - 1 \in 1..Len(s) /\ members[n] = s[n - 1])
      BY <2>3, <2>5
    <2>7. \A n \in DOMAIN members : members[n] \in present
      BY <2>1, <2>3, <2>5, <2>6
    <2>8. \A u \in present : \E n \in DOMAIN members : members[n] = u
      <3>1. 1 \in DOMAIN members /\ \A n \in DOMAIN s : n + 1 \in DOMAIN members
        BY <2>3, <2>5
      <3>. QED BY <2>1, <2>3, <2>5, <3>1
    <2>. QED BY <2>2, <2>3, <2>5, <2>7, <2>8
  <1>4. \A u \in present : idOf(u) \in DOMAIN members /\ members[idOf(u)] = u
    BY <1>3
  <1>5. /\ \A u \in User : user[u] = IF u \notin present THEN NoUser
                                     ELSE IF mfa THEN enrolled ELSE NewUser(TRUE)
        /\ DOMAIN user = User /\ user = [u \in User |-> user[u]]
        /\ spent = IF mfa THEN {[kind |-> "totp", user |-> u, key |-> 1, n |-> 1] :
                                  u \in present}
                          ELSE {}
        /\ org = [q \in Org |-> IF q = o THEN [NoOrg EXCEPT !.exists = TRUE] ELSE NoOrg]
        /\ member = [q \in Org |-> [u \in User |->
             IF q # o \/ u \notin present \ left THEN NoMember
             ELSE [role |-> IF u = owner THEN "owner" ELSE "admin", id |-> idOf(u)]]]
        /\ joined = [n \in DOMAIN members |-> [org |-> o, user |-> members[n], by |-> 0]]
        /\ access = {[user |-> u, org |-> o, cut |-> 0] : u \in present}
        /\ session = [n \in DOMAIN members |-> NewSession(members[n], n, 0, 0)]
    BY <1>2
  <1>6. /\ enrolled \in UserRow /\ enrolled.status = "active" /\ enrolled.cut = 0
        /\ KeysOK(enrolled)
        /\ \A f \in Factor : f.kind = "totp" /\ f.key = 1 /\ f.n = 1 => SpentOK(enrolled, f)
    BY EnrolledRow
  <1> HIDE DEF members, present, idOf, enrolled, left
  <1>7. /\ call = [p \in Process |-> Idle] /\ budget \in [Area -> Nat]
        /\ link = <<>> /\ challenge = <<>> /\ invitation = <<>>
        /\ respent = {} /\ overlapped = {} /\ relinked = {}
    BY BudgetAssumption DEF Init
  <1>8. /\ NewUser(TRUE) \in UserRow /\ NewUser(TRUE).status = "active"
        /\ NewUser(TRUE).cut = 0 /\ KeysOK(NewUser(TRUE))
    BY NewUserRow
  <1>9. /\ NoUser \in UserRow /\ NoUser.status = "none" /\ NoUser.cut = 0 /\ KeysOK(NoUser)
    BY DEF NoUser, UserRow, KeysOK
  <1>10. /\ user \in [User -> UserRow]
         /\ \A u \in User : user[u].cut = 0 /\ KeysOK(user[u])
         /\ \A u \in present : user[u].status = "active"
    <2>1. \A u \in User : user[u] \in UserRow /\ user[u].cut = 0 /\ KeysOK(user[u])
      BY <1>5, <1>6, <1>8, <1>9
    <2>. QED BY <1>3, <1>5, <1>6, <1>8, <2>1
  <1>11. /\ org \in [Org -> OrgRow] /\ org[o].exists
         /\ \A q \in Org \ {o} : org[q] = NoOrg
         /\ \A q \in Org : q = o \/ ~org[q].exists
    <2>1. /\ NoOrg \in OrgRow /\ ~NoOrg.exists
      BY TenancyAssumption DEF NoOrg, OrgRow
    <2>2. [NoOrg EXCEPT !.exists = TRUE] \in OrgRow /\ [NoOrg EXCEPT !.exists = TRUE].exists
      BY <2>1 DEF OrgRow
    <2>. QED BY <1>5, <2>1, <2>2
  <1>12. /\ joined \in Seq([org : Org, user : User, by : Nat])
         /\ DOMAIN joined = DOMAIN members
         /\ \A n \in DOMAIN joined : joined[n].org = o /\ joined[n].user = members[n]
                                     /\ joined[n].by = 0
    <2>1. DOMAIN joined = DOMAIN members
      BY <1>5
    <2>2. ASSUME NEW n \in DOMAIN joined
          PROVE  /\ joined[n] \in [org : Org, user : User, by : Nat]
                 /\ joined[n].org = o /\ joined[n].user = members[n] /\ joined[n].by = 0
      <3>1. joined[n] = [org |-> o, user |-> members[n], by |-> 0] /\ members[n] \in User
        BY <1>3, <1>5, <2>1, <2>2
      <3>. QED BY <3>1
    <2>3. joined = [n \in 1..Len(members) |-> joined[n]]
      BY <1>3, <1>5
    <2>4. joined \in [1..Len(members) -> [org : Org, user : User, by : Nat]]
      BY <1>3, <2>1, <2>2, <2>3
    <2> DEFINE Row == [org : Org, user : User, by : Nat]
    <2>5. joined \in [1..Len(members) -> Row]
      BY <2>4
    <2> HIDE DEF Row
    <2>6. joined \in Seq(Row)
      BY <1>3, <2>5, FunctionIsSeq
    <2>. QED BY <2>1, <2>2, <2>6 DEF Row
  <1>13. /\ session \in Seq(SessionRow) /\ DOMAIN session = DOMAIN members
         /\ \A n \in DOMAIN session :
              /\ session[n].user = members[n] /\ session[n].family = n
              /\ session[n].state = "open" /\ session[n].next = 0
              /\ session[n].cut = 0 /\ session[n].via = 0
    <2>1. DOMAIN session = DOMAIN members
      BY <1>5
    <2>2. ASSUME NEW n \in DOMAIN session
          PROVE  /\ session[n] \in SessionRow
                 /\ session[n].user = members[n] /\ session[n].family = n
                 /\ session[n].state = "open" /\ session[n].next = 0
                 /\ session[n].cut = 0 /\ session[n].via = 0
      <3>1. /\ session[n] = NewSession(members[n], n, 0, 0)
            /\ members[n] \in User /\ n \in Nat
        BY <1>3, <1>5, <2>1, <2>2
      <3>. QED BY <3>1 DEF NewSession, SessionRow
    <2>3. session = [n \in 1..Len(members) |-> session[n]]
      BY <1>3, <1>5
    <2>4. session \in [1..Len(members) -> SessionRow]
      BY <1>3, <2>1, <2>2, <2>3
    <2>. QED BY <1>3, <2>1, <2>2, <2>4, FunctionIsSeq
  <1>14. \A q \in Org, u \in User :
           \/ member[q][u] = NoMember
           \/ /\ q = o /\ u \in present
              /\ member[q][u].role \in {"owner", "admin"} /\ member[q][u].id = idOf(u)
    BY <1>5
  <1>15. /\ member \in [Org -> [User -> MemberRow]]
         /\ \A q \in Org, u \in User :
              \/ member[q][u] = NoMember
              \/ /\ q = o /\ member[q][u].role # "none"
                 /\ member[q][u].id \in DOMAIN joined
                 /\ joined[member[q][u].id].org = q /\ joined[member[q][u].id].user = u
    <2>1. NoMember \in MemberRow /\ {"owner", "admin"} \subseteq Role
      BY DEF NoMember, MemberRow, Role
    <2>2. \A u \in present : idOf(u) \in Nat
      BY <1>3, <1>4
    <2>3. \A u \in present, role \in {"owner", "admin"} :
            [role |-> role, id |-> idOf(u)] \in MemberRow
      BY <2>1, <2>2 DEF MemberRow
    <2>4. \A q \in Org : member[q] \in [User -> MemberRow]
      <3>1. ASSUME NEW q \in Org
            PROVE  /\ member[q] = [u \in User |-> member[q][u]]
                   /\ \A u \in User : member[q][u] \in MemberRow
        BY <1>5, <2>1, <2>3
      <3>. QED BY <3>1
    <2>5. member = [q \in Org |-> member[q]]
      BY <1>5
    <2>6. member \in [Org -> [User -> MemberRow]]
      BY <2>4, <2>5
    <2>. QED BY <1>4, <1>12, <1>14, <2>6
  <1>16. /\ spent \subseteq Factor
         /\ \A f \in spent : SpentOK(user[f.user], f)
    <2>1. ASSUME NEW f \in spent
          PROVE  f \in Factor /\ SpentOK(user[f.user], f)
      <3>1. mfa
        BY <1>5, <2>1
      <3>2. PICK u \in present : f = [kind |-> "totp", user |-> u, key |-> 1, n |-> 1]
        BY <1>5, <2>1, <3>1
      <3>3. f \in Factor /\ f.user = u /\ f.kind = "totp" /\ f.key = 1 /\ f.n = 1
        BY <1>3, <3>2 DEF Factor
      <3>4. user[u] = enrolled
        BY <1>3, <1>5, <3>1
      <3>. QED BY <1>6, <3>3, <3>4
    <2>. QED BY <2>1
  <1>17. Typed
    <2>1. access \subseteq AccessToken
      BY <1>3, <1>5 DEF AccessToken
    <2>2. /\ link \in Seq(LinkRow) /\ challenge \in Seq(ChallengeRow)
          /\ invitation \in Seq(InvitationRow)
      BY <1>7
    <2>3. TenancyTypeOK
      <3>1. \A p \in Process : DOMAIN call[p] = DOMAIN Idle
        BY <1>7
      <3>. QED BY <1>7, <1>10, <1>11, <1>12, <1>15, <2>1, <3>1 DEF TenancyTypeOK
    <2>4. SessionsTypeOK
      BY <1>7, <1>13, <1>16, <2>2 DEF SessionsTypeOK
    <2>. QED BY <1>7, <2>2, <2>3, <2>4, IdleTyped DEF Typed, TypeOK
  <1>18. \A p \in Process : call[p].op = "idle"
    BY <1>7 DEF Idle
  <1>19. SessionsOK
    <2>1. FamiliesOK
      BY <1>3, <1>13 DEF FamiliesOK, OfFamily
    <2>2. OpenOnce
      BY <1>13 DEF OpenOnce
    <2>3. NoOldSession
      BY <1>3, <1>10, <1>13 DEF NoOldSession
    <2>4. \A p \in Process : SessionCall(call[p])
      BY <1>18 DEF SessionCall
    <2>. QED BY <1>10, <2>1, <2>2, <2>3, <2>4 DEF SessionsOK
  <1>20. FactorsOK
    <2>1. SecondFactorOnce
      BY <1>7, <1>13 DEF SecondFactorOnce
    <2>. QED BY <1>10, <1>13, <1>16, <2>1 DEF FactorsOK
  <1>21. LinksOK
    BY <1>7, <1>18 DEF LinksOK, UsableOnce, LinkCall
  <1>22. InvitationsOK
    BY <1>12, <1>18 DEF InvitationsOK, InvitationAdmitsOnce, InvitationCall
  <1>23. PlansOK
    <2>1. \A q \in Org, u \in User : IsMember(q, u) => q = o
      BY <1>15 DEF IsMember, NoMember
    <2>. QED BY <1>7, <1>11, <1>18, <2>1 DEF PlansOK, PlanCall
  <1>. QED BY <1>17, <1>19, <1>20, <1>21, <1>22, <1>23 DEF IInv

-----------------------------------------------------------------------------
(* Every state that can be reached satisfies the invariant. *)
THEOREM AccountsInvariance == Spec => []IInv
  <1>1. Init => IInv
    BY InitHolds
  <1>2. IInv /\ [Next]_vars => IInv'
    BY NextKeeps
  <1>. QED BY <1>1, <1>2, PTL DEF Spec

(* Accounts, organizations, members, sessions, links, challenges and        *)
(* invitations keep the types of their columns and their foreign keys.      *)
THEOREM AccountsTypeCorrect == Spec => []TypeOK
  <1>1. IInv => TypeOK
    BY DEF IInv, Typed
  <1>. QED BY <1>1, AccountsInvariance, PTL

LEMMA AtMostOne ==
  ASSUME NEW S, \A i, j \in S : i = j
  PROVE  Cardinality(S) <= 1
  <1>1. CASE S = {}
    BY <1>1, FS_EmptySet
  <1>2. CASE \E a : a \in S
    <2>1. PICK a : a \in S
      BY <1>2
    <2>2. S = {a}
      BY <2>1
    <2>. QED BY <2>2, FS_Singleton
  <1>. QED BY <1>1, <1>2

(* A family of refresh tokens has at most one open session, however many    *)
(* requests there are, unless two of them on that family overlapped.        *)
THEOREM OneOpenSessionPerFamily == Spec => []OneOpenPerFamily
  <1>1. IInv => OneOpenPerFamily
    <2> SUFFICES ASSUME IInv, NEW f \in Families \ overlapped
                 PROVE  Cardinality(OpenSessions(f)) <= 1
      BY DEF OneOpenPerFamily
    <2>1. \A i, j \in OpenSessions(f) : i = j
      BY DEF IInv, SessionsOK, OpenOnce, OpenSessions
    <2>. QED BY <2>1, AtMostOne
  <1>. QED BY <1>1, AccountsInvariance, PTL

(* What was open at a reset of the password or the second factor, or at an  *)
(* erasure, is closed; only a challenge given before it may open a family   *)
(* since, once, with a second factor.                                       *)
THEOREM ResetsCloseSessions == Spec => []NoSessionOutlivesReset
  <1>1. ASSUME IInv, NEW i \in DOMAIN session, session[i].state = "open",
               session[i].family \notin overlapped
        PROVE  \/ PasswordCut(i) = user[session[i].user].cut
               \/ /\ session[i].via # 0
                  /\ session[i].cut = user[session[i].user].cut
                  /\ challenge[session[i].via].state # "open"
    <2>1. session[i].cut = user[session[i].user].cut
      BY <1>1 DEF IInv, SessionsOK, NoOldSession
    <2>2. session[i].via # 0 => challenge[session[i].via].state # "open"
      BY <1>1 DEF IInv, FactorsOK
    <2>. QED BY <2>1, <2>2 DEF PasswordCut
  <1>2. IInv => NoSessionOutlivesReset
    BY <1>1 DEF NoSessionOutlivesReset
  <1>. QED BY <1>2, AccountsInvariance, PTL

(* No code is accepted twice, by whichever of the four requests that take   *)
(* one; a challenge opens one family and takes MaxAttempts wrong codes.     *)
THEOREM SecondFactorUsedOnce == Spec => []SecondFactorOnce
  <1>1. IInv => SecondFactorOnce
    BY DEF IInv, FactorsOK
  <1>. QED BY <1>1, AccountsInvariance, PTL

(* Of the links for one purpose only the last works, unless requests for    *)
(* them overlapped.                                                         *)
THEOREM OneLinkWorks == Spec => []OneUsableLink
  <1>1. IInv => OneUsableLink
    <2> SUFFICES ASSUME IInv, NEW u \in User, NEW purpose \in Purpose,
                        <<u, purpose>> \notin relinked
                 PROVE  Cardinality(Usable(u, purpose)) <= 1
      BY DEF OneUsableLink
    <2>1. \A i, j \in Usable(u, purpose) : i = j
      BY DEF IInv, LinksOK, UsableOnce, Usable
    <2>. QED BY <2>1, AtMostOne
  <1>. QED BY <1>1, AccountsInvariance, PTL

(* However often the link of an invitation is followed, and at the same     *)
(* time, one membership comes of it, even after that member was removed.    *)
THEOREM InvitationsAdmitOnce == Spec => []InvitationAdmitsOnce
  <1>1. IInv => InvitationAdmitsOnce
    BY DEF IInv, InvitationsOK
  <1>. QED BY <1>1, AccountsInvariance, PTL

-----------------------------------------------------------------------------
(* What a step may do to the sessions of a family that has none open. *)
NothingReopens ==
  \A f \in Families \ overlapped' : OpenSessions(f) = {} => OpenSessions(f)' = {}

LEMMA SameSessions ==
  ASSUME UNCHANGED session
  PROVE  NothingReopens
  BY DEF NothingReopens, OpenSessions

LEMMA OnlyClosed ==
  ASSUME DOMAIN session' = DOMAIN session,
         \A i \in DOMAIN session :
           /\ session'[i].family = session[i].family
           /\ session'[i].state = "open" => session[i].state = "open"
  PROVE  NothingReopens
  BY DEF NothingReopens, OpenSessions

LEMMA AnotherFamily ==
  ASSUME Typed, SessionsOK, NEW u \in User, NEW cut \in Nat, NEW via \in Nat,
         session' = Append(session, NewSession(u, Len(session) + 1, cut, via))
  PROVE  NothingReopens
  <1> DEFINE n == Len(session) + 1
             new == NewSession(u, n, cut, via)
  <1>1. session \in Seq(SessionRow) /\ Len(session) \in Nat
    BY LenProperties, TablesOf DEF TablesTyped
  <1>2. new \in SessionRow /\ new.family = n
    BY <1>1 DEF NewSession, SessionRow
  <1> HIDE DEF new
  <1>3. /\ DOMAIN session = 1..Len(session) /\ DOMAIN session' = 1..n
        /\ \A i \in 1..Len(session) : session'[i] = session[i]
        /\ session'[n] = new
    BY <1>1, <1>2, Appended DEF new
  <1>4. \A f \in Families : f \in 1..Len(session)
    BY <1>1, <1>3 DEF SessionsOK, FamiliesOK, OfFamily, Families
  <1>5. ASSUME NEW f \in Families, OpenSessions(f) = {}, NEW i \in DOMAIN session',
               session'[i].family = f, session'[i].state = "open"
        PROVE  FALSE
    <2>1. CASE i \in 1..Len(session)
      BY <1>3, <1>5, <2>1 DEF OpenSessions
    <2>2. CASE i = n
      BY <1>1, <1>2, <1>3, <1>4, <1>5, <2>2
    <2>. QED BY <1>1, <1>3, <1>5, <2>1, <2>2
  <1>. QED BY <1>5 DEF NothingReopens, OpenSessions

(* A rotation that was not overtaken finds its session open still.          *)
LEMMA RotationReopensNothing ==
  ASSUME IInv, NEW p \in Process, RotateRefreshToken(p)
  PROVE  NothingReopens
  <1> DEFINE c == call[p]
             n == Len(session) + 1
  <1>1. call[p].op = "rotate"
    BY DEF RotateRefreshToken
  <1>2. /\ n \in Nat /\ DOMAIN session = 1..(n - 1) /\ DOMAIN session' = 1..n
        /\ \A i \in 1..(n - 1) :
             /\ session'[i].family = session[i].family
             /\ session'[i].state = IF i \in c.seen /\ session[i].state = "open"
                                      THEN "closed" ELSE session[i].state
        /\ session'[n].family = c.num
    BY <1>1, RotationRows DEF IInv
  <1>3. overlapped' = IF c.stale THEN overlapped \cup {c.num} ELSE overlapped
    BY DEF RotateRefreshToken
  <1>4. c.num \notin overlapped' => OpenSessions(c.num) # {}
    BY <1>1, <1>3 DEF IInv, SessionsOK, SessionCall
  <1> HIDE DEF c, n
  <1>5. ASSUME NEW f \in Families \ overlapped', OpenSessions(f) = {},
               NEW i \in DOMAIN session', session'[i].family = f,
               session'[i].state = "open"
        PROVE  FALSE
    <2>1. CASE i \in 1..(n - 1)
      <3>1. session[i].family = f /\ session[i].state = "open"
        BY <1>2, <1>5, <2>1
      <3>. QED BY <1>2, <1>5, <2>1, <3>1 DEF OpenSessions
    <2>2. CASE i = n
      BY <1>2, <1>4, <1>5, <2>2
    <2>. QED BY <1>2, <1>5, <2>1, <2>2
  <1>. QED BY <1>5 DEF NothingReopens, OpenSessions

LEMMA AccountStepReopensNothing ==
  ASSUME IInv, AccountStep
  PROVE  NothingReopens
  <1>1. CASE \E p \in Process :
               \/ \E u \in User : \/ Authenticate(p, u) \/ ForgotPassword(p, u)
                                  \/ ResendVerification(p, u) \/ BeginMfaSetup(p, u)
               \/ \E i \in DOMAIN session : \/ \E retry \in BOOLEAN : Refresh(p, i, retry)
                                            \/ Logout(p, i)
               \/ CountFailure(p) \/ CreateChallenge(p) \/ InsertToken(p) \/ MfaSetup(p)
    <2>1. ASSUME NEW p \in Process, NEW u \in User,
                 \/ Authenticate(p, u) \/ ForgotPassword(p, u)
                 \/ ResendVerification(p, u) \/ BeginMfaSetup(p, u)
          PROVE  UNCHANGED session
      BY <2>1 DEF Authenticate, ForgotPassword, ResendVerification, BeginMfaSetup, sessionVars
    <2>2. ASSUME NEW p \in Process, NEW i, NEW retry,
                 Refresh(p, i, retry) \/ Logout(p, i)
          PROVE  UNCHANGED session
      BY <2>2 DEF Refresh, Logout, OnSession, sessionVars
    <2>3. ASSUME NEW p \in Process,
                 CountFailure(p) \/ CreateChallenge(p) \/ InsertToken(p) \/ MfaSetup(p)
          PROVE  UNCHANGED session
      BY <2>3 DEF CountFailure, CreateChallenge, InsertToken, MfaSetup, sessionVars
    <2>. QED BY <1>1, <2>1, <2>2, <2>3, SameSessions
  <1>2. CASE \E u \in User :
               \/ LockExpires(u)
               \/ \E n \in 1..MaxStep : ConfirmMfa(u, n)
               \/ \E f \in Submitted(u) : DisableMfa(u, f) \/ RegenerateRecoveryCodes(u, f)
    <2>1. UNCHANGED session
      BY <1>2 DEF LockExpires, ConfirmMfa, DisableMfa, RegenerateRecoveryCodes,
         LockedAccount, sessionVars
    <2>. QED BY <2>1, SameSessions
  <1>3. CASE \/ \E i \in DOMAIN link : VerifyEmail(i)
             \/ \E i \in DOMAIN challenge : RefuseMfaChallenge(i)
    <2>1. UNCHANGED session
      BY <1>3 DEF VerifyEmail, RefuseMfaChallenge
    <2>. QED BY <2>1, SameSessions
  <1>4. ASSUME NEW p \in Process, Login(p)
        PROVE  NothingReopens
    <2>1. call[p].user \in User /\ call[p].row \in Nat /\ 0 \in Nat
      BY <1>4 DEF Login, IInv, Typed, CallTyped, CallRow
    <2>. QED BY <1>4, <2>1, AnotherFamily DEF Login, StartSession, IInv
  <1>5. ASSUME NEW i \in DOMAIN challenge, NEW f \in Submitted(challenge[i].user),
               VerifyMfaChallenge(i, f)
        PROVE  NothingReopens
    <2>1. challenge[i].user \in User /\ i \in Nat
      BY RowsTyped DEF IInv, ChallengeRow
    <2>2. user[challenge[i].user].cut \in Nat
      BY <2>1, RowsTyped DEF IInv, UserRow
    <2>. QED BY <1>5, <2>1, <2>2, AnotherFamily DEF VerifyMfaChallenge, StartSession, IInv
  <1>6. ASSUME NEW p \in Process, RotateRefreshToken(p)
        PROVE  NothingReopens
    BY <1>6, RotationReopensNothing
  <1>7. ASSUME NEW p \in Process, RevokeFamily(p)
        PROVE  NothingReopens
    BY <1>7, RevocationRows, OnlyClosed DEF IInv
  <1>8. ASSUME NEW i \in DOMAIN link, ResetPassword(i)
        PROVE  NothingReopens
    <2>1. link[i].user \in User /\ session' = ClosedFor(link[i].user)
      BY <1>8, RowsTyped DEF ResetPassword, ConsumeReset, IInv, LinkRow
    <2>. QED BY <2>1, ClosedForRows, OnlyClosed DEF IInv
  <1>. QED BY <1>1, <1>2, <1>3, <1>4, <1>5, <1>6, <1>7, <1>8 DEF AccountStep

LEMMA TenantStepReopensNothing ==
  ASSUME IInv, TenantStep
  PROVE  NothingReopens
  <1>1. CASE \E p \in Process :
               \/ \E u \in User, o \in Org : Register(p, u, o)
               \/ \E a, u \in User, o \in Org :
                    \/ \E role \in Offered : \/ CreateInvitation(p, a, o, u, role)
                                             \/ SetRole(p, a, o, u, role)
                    \/ RemoveMember(p, a, o, u)
                    \/ ResetMemberMfa(p, a, o, u)
               \/ \E i \in DOMAIN invitation :
                    \/ AcceptInvitation(p, i)
                    \/ \E a \in User : ResendInvitation(p, a, i) \/ RevokeInvitation(p, a, i)
               \/ InsertInvitation(p) \/ UpdateInvitation(p)
               \/ AdmitMember(p) \/ UpdateMemberRole(p) \/ DeleteMember(p)
    <2>1. ASSUME NEW p \in Process, NEW a \in User, NEW u \in User, NEW o \in Org,
                 \/ Register(p, u, o)
                 \/ \E role \in Offered : \/ CreateInvitation(p, a, o, u, role)
                                          \/ SetRole(p, a, o, u, role)
                 \/ RemoveMember(p, a, o, u)
                 \/ ResetMemberMfa(p, a, o, u)
          PROVE  UNCHANGED session
      BY <2>1 DEF Register, CreateInvitation, SetRole, RemoveMember, ResetMemberMfa,
         OnMember, sessionVars
    <2>2. ASSUME NEW p \in Process, NEW i \in DOMAIN invitation,
                 \/ AcceptInvitation(p, i)
                 \/ \E a \in User : ResendInvitation(p, a, i) \/ RevokeInvitation(p, a, i)
          PROVE  UNCHANGED session
      BY <2>2 DEF AcceptInvitation, ResendInvitation, RevokeInvitation, OnInvitation,
         sessionVars
    <2>3. ASSUME NEW p \in Process,
                 \/ InsertInvitation(p) \/ UpdateInvitation(p)
                 \/ AdmitMember(p) \/ UpdateMemberRole(p) \/ DeleteMember(p)
          PROVE  UNCHANGED session
      BY <2>3 DEF InsertInvitation, UpdateInvitation, AdmitMember, UpdateMemberRole,
         DeleteMember, sessionVars
    <2>4. UNCHANGED session
      BY <1>1, <2>1, <2>2, <2>3
    <2>. QED BY <2>4, SameSessions
  <1>2. CASE \/ \E o \in Org :
                  \/ \E a \in User, required \in BOOLEAN : UpdateSecurityPolicy(a, o, required)
                  \/ \E plan \in Plan : ChangePlan(o, plan)
                  \/ TrialEnds(o)
             \/ \E i \in DOMAIN invitation : InvitationExpires(i)
             \/ ExpireTrials
    <2>1. UNCHANGED session
      BY <1>2 DEF UpdateSecurityPolicy, ChangePlan, TrialEnds, InvitationExpires,
         ExpireTrials, sessionVars
    <2>. QED BY <2>1, SameSessions
  <1>3. ASSUME NEW p \in Process, RegisterOrganization(p)
        PROVE  NothingReopens
    <2>1. call[p].user \in User /\ 0 \in Nat
      BY <1>3 DEF RegisterOrganization, IInv, Typed, CallTyped
    <2>. QED BY <1>3, <2>1, AnotherFamily DEF RegisterOrganization, IInv
  <1>4. ASSUME NEW p \in Process, AdminResetMfa(p)
        PROVE  NothingReopens
    <2>1. call[p].user \in User /\ session' = ClosedFor(call[p].user)
      BY <1>4 DEF AdminResetMfa, IInv, Typed, CallTyped
    <2>. QED BY <2>1, ClosedForRows, OnlyClosed DEF IInv
  <1>5. ASSUME NEW o \in Org, NEW u \in User, EraseUser(o, u)
        PROVE  NothingReopens
    <2>1. session' = Gone(session, Mine(session, u)) \/ session' = ClosedFor(u)
      BY <1>5 DEF EraseUser, Gone, Mine
    <2>2. CASE session' = Gone(session, Mine(session, u))
      <3>1. /\ DOMAIN session' = DOMAIN session
            /\ \A j \in DOMAIN session :
                 /\ session'[j].family = session[j].family
                 /\ session[j].user = u => session'[j].state # "open"
                 /\ session[j].user # u => session'[j].state = session[j].state
        BY <2>2, SessionsGone DEF IInv
      <3>. QED BY <3>1, OnlyClosed
    <2>3. CASE session' = ClosedFor(u)
      BY <2>3, ClosedForRows, OnlyClosed DEF IInv
    <2>. QED BY <2>1, <2>2, <2>3
  <1>. QED BY <1>1, <1>2, <1>3, <1>4, <1>5 DEF TenantStep

(* Whatever left a family without an open session - a logout, a reused      *)
(* token, a reset, an erasure - nothing opens one in it again, unless       *)
(* requests on the family overlapped.                                       *)
THEOREM ClosedFamiliesRemainClosed == Spec => ClosedFamiliesStayClosed
  <1>1. IInv /\ [Next]_vars =>
          [\A f \in Families \ overlapped' :
             OpenSessions(f) = {} => OpenSessions(f)' = {}]_<<session, overlapped>>
    <2> SUFFICES ASSUME IInv, [Next]_vars
                 PROVE  NothingReopens
      BY DEF NothingReopens
    <2>. QED BY AccountStepReopensNothing, TenantStepReopensNothing, SameSessions
         DEF Next, vars, sessionVars
  <1>. QED BY <1>1, AccountsInvariance, PTL DEF ClosedFamiliesStayClosed, Spec

-----------------------------------------------------------------------------
(* What a step that adds members to an organization leaves behind. *)
Admits(o) ==
  Seats(o)' > Seats(o) =>
    \/ org[o] = NoOrg
    \/ ~GrowthBlocked(o)' /\ WithinPlan(o, Seats(o))'
    \/ \E p \in Process : call[p].org = o /\ call[p].stale /\ call'[p] = Idle

LEMMA NoMoreSeats ==
  ASSUME NEW o \in Org, \A u \in User : member'[o][u].id # 0 => member[o][u].id # 0
  PROVE  Admits(o)
  <1> DEFINE S == {u \in User : IsMember(o, u)}
             T == {u \in User : member'[o][u].id # 0}
  <1>1. T \subseteq S
    BY DEF IsMember
  <1>2. IsFiniteSet(S)
    BY SeatsOf
  <1>3. Seats(o)' = Cardinality(T) /\ Seats(o) = Cardinality(S)
    BY DEF Seats, IsMember
  <1> HIDE DEF S, T
  <1>4. Cardinality(T) <= Cardinality(S) /\ Cardinality(T) \in Nat /\ Cardinality(S) \in Nat
    BY <1>1, <1>2, FS_Subset, FS_CardinalityType
  <1>. QED BY <1>3, <1>4 DEF Admits

LEMMA SameMembers ==
  ASSUME NEW o \in Org, UNCHANGED member
  PROVE  Admits(o)
  BY NoMoreSeats

(* An accept not overtaken takes the seat it has counted. *)
LEMMA AcceptsAdmit ==
  ASSUME IInv, NEW p \in Process, AdmitMember(p), NEW o \in Org
  PROVE  Admits(o)
  <1> DEFINE c == call[p]
             u == c.user
             row == [role |-> invitation[c.row].role, id |-> Len(joined) + 1]
             S == {v \in User : IsMember(o, v)}
             T == {v \in User : member'[o][v].id # 0}
  <1>1. /\ c.op = "accept" /\ u \in User /\ c.org \in Org
        /\ invitation[c.row] \in InvitationRow /\ Len(joined) \in Nat
        /\ member' = [member EXCEPT ![c.org][u] = row]
    BY RowsTyped, LenProperties, TablesOf
    DEF AdmitMember, Join, IInv, Typed, CallTyped, CallRow, OnAnOrg, InvitationsOK,
        InvitationCall, TenantTablesTyped
  <1>2. row \in MemberRow
    BY <1>1 DEF MemberRow, InvitationRow
  <1> HIDE DEF row
  <1>3. \A q \in Org, v \in User : q # c.org \/ v # u => member'[q][v] = member[q][v]
    BY <1>1, <1>2, MemberWritten DEF IInv
  <1>4. CASE o # c.org
    BY <1>3, <1>4, NoMoreSeats
  <1>5. CASE o = c.org /\ c.stale
    <2>1. call'[p] = Idle
      BY DEF AdmitMember, Settle
    <2>. QED BY <1>5, <2>1 DEF Admits
  <1>6. CASE o = c.org /\ ~c.stale
    <2>1. EnforceUserLimit(o)
      BY <1>1, <1>6 DEF IInv, PlansOK, PlanCall
    <2>2. IsFiniteSet(S) /\ Seats(o) = Cardinality(S) /\ Seats(o)' = Cardinality(T)
      BY SeatsOf DEF Seats, IsMember
    <2>3. T \subseteq S \cup {u}
      BY <1>3 DEF IsMember
    <2> HIDE DEF S, T
    <2>4. /\ IsFiniteSet(S \cup {u}) /\ Cardinality(S \cup {u}) <= Cardinality(S) + 1
          /\ Cardinality(S) \in Nat /\ Cardinality(S \cup {u}) \in Nat
      <3>1. /\ IsFiniteSet(S \cup {u})
            /\ Cardinality(S \cup {u}) = IF u \in S THEN Cardinality(S)
                                                   ELSE Cardinality(S) + 1
        BY <2>2, FS_AddElement
      <3>2. Cardinality(S) \in Nat
        BY <2>2, FS_CardinalityType
      <3>. QED BY <3>1, <3>2
    <2>5. /\ Cardinality(T) \in Nat /\ Cardinality(T) <= Cardinality(S) + 1
      BY <2>3, <2>4, FS_Subset, FS_CardinalityType
    <2>6. org[o] \in OrgRow /\ org' = org
      BY RowsTyped DEF IInv, AdmitMember
    <2>7. UserLimit[org[o].plan] \in Int
      BY <2>6, TenancyAssumption DEF OrgRow
    <2>8. /\ org[o].subscription \notin {"ended", "past_due"}
          /\ UserLimit[org[o].plan] >= 0 => Cardinality(S) + 1 <= UserLimit[org[o].plan]
      BY <2>1, <2>2 DEF EnforceUserLimit, GrowthBlocked, WithinPlan
    <2>9. /\ org'[o].subscription \notin {"ended", "past_due"}
          /\ UserLimit[org'[o].plan] >= 0 => Seats(o)' <= UserLimit[org'[o].plan]
      <3> DEFINE limit == UserLimit[org[o].plan]
                 n == Cardinality(S)
                 m == Cardinality(T)
      <3>1. limit \in Int /\ n \in Nat /\ m \in Nat /\ m <= n + 1
        BY <2>4, <2>5, <2>7
      <3>2. limit >= 0 => n + 1 <= limit
        BY <2>8
      <3>3. UserLimit[org'[o].plan] = limit /\ Seats(o)' = m
        BY <2>2, <2>6
      <3> HIDE DEF limit, n, m
      <3>4. limit >= 0 => m <= limit
        BY <3>1, <3>2
      <3>. QED BY <2>6, <2>8, <3>3, <3>4
    <2>. QED BY <2>9 DEF Admits, GrowthBlocked, WithinPlan
  <1>. QED BY <1>4, <1>5, <1>6

LEMMA RegistrationsAdmit ==
  ASSUME IInv, NEW p \in Process, RegisterOrganization(p), NEW o \in Org
  PROVE  Admits(o)
  <1> DEFINE row == [role |-> "owner", id |-> Len(joined) + 1]
             u == call[p].user
  <1>1. /\ u \in User /\ call[p].org \in Org /\ ~org[call[p].org].exists
        /\ Len(joined) \in Nat
        /\ member' = [member EXCEPT ![call[p].org][u] = row]
    BY LenProperties, TablesOf
    DEF RegisterOrganization, FoundOrganization, Join, IInv, Typed, CallTyped, CallRow,
        OnAnOrg, TenantTablesTyped
  <1>2. row \in MemberRow
    BY <1>1 DEF MemberRow, Role
  <1> HIDE DEF row
  <1>3. \A q \in Org, v \in User : q # call[p].org => member'[q][v] = member[q][v]
    BY <1>1, <1>2, MemberWritten DEF IInv
  <1>4. CASE o # call[p].org
    BY <1>3, <1>4, NoMoreSeats
  <1>5. CASE o = call[p].org
    BY <1>1, <1>5 DEF Admits, IInv, PlansOK
  <1>. QED BY <1>4, <1>5

LEMMA AccountStepAdmits ==
  ASSUME AccountStep, NEW o \in Org
  PROVE  Admits(o)
  <1>1. CASE \E p \in Process :
               \/ \E u \in User : \/ Authenticate(p, u) \/ ForgotPassword(p, u)
                                  \/ ResendVerification(p, u) \/ BeginMfaSetup(p, u)
               \/ \E i \in DOMAIN session : \/ \E retry \in BOOLEAN : Refresh(p, i, retry)
                                            \/ Logout(p, i)
               \/ CountFailure(p) \/ CreateChallenge(p) \/ InsertToken(p) \/ MfaSetup(p)
               \/ Login(p) \/ RotateRefreshToken(p) \/ RevokeFamily(p)
    <2>1. ASSUME NEW p \in Process, NEW u \in User,
                 \/ Authenticate(p, u) \/ ForgotPassword(p, u)
                 \/ ResendVerification(p, u) \/ BeginMfaSetup(p, u)
          PROVE  UNCHANGED member
      BY <2>1 DEF Authenticate, ForgotPassword, ResendVerification, BeginMfaSetup
    <2>2. ASSUME NEW p \in Process, NEW i, NEW retry,
                 Refresh(p, i, retry) \/ Logout(p, i)
          PROVE  UNCHANGED member
      BY <2>2 DEF Refresh, Logout, OnSession
    <2>3. ASSUME NEW p \in Process,
                 \/ CountFailure(p) \/ CreateChallenge(p) \/ InsertToken(p) \/ MfaSetup(p)
                 \/ Login(p) \/ RotateRefreshToken(p) \/ RevokeFamily(p)
          PROVE  UNCHANGED member
      BY <2>3 DEF CountFailure, CreateChallenge, InsertToken, MfaSetup,
         Login, RotateRefreshToken, RevokeFamily
    <2>. QED BY <1>1, <2>1, <2>2, <2>3, SameMembers
  <1>2. CASE \/ \E u \in User :
                  \/ LockExpires(u)
                  \/ \E n \in 1..MaxStep : ConfirmMfa(u, n)
                  \/ \E f \in Submitted(u) : DisableMfa(u, f) \/ RegenerateRecoveryCodes(u, f)
             \/ \E i \in DOMAIN link : ResetPassword(i) \/ VerifyEmail(i)
             \/ \E i \in DOMAIN challenge :
                  \/ \E f \in Submitted(challenge[i].user) : VerifyMfaChallenge(i, f)
                  \/ RefuseMfaChallenge(i)
    <2>1. UNCHANGED member
      BY <1>2 DEF LockExpires, ConfirmMfa, DisableMfa, RegenerateRecoveryCodes,
         LockedAccount, ResetPassword, VerifyEmail, VerifyMfaChallenge, RefuseMfaChallenge
    <2>. QED BY <2>1, SameMembers
  <1>. QED BY <1>1, <1>2 DEF AccountStep

LEMMA TenantStepAdmits ==
  ASSUME IInv, TenantStep, NEW q \in Org
  PROVE  Admits(q)
  <1>1. ASSUME NEW p \in Process, NEW a \in User, NEW u \in User, NEW o \in Org,
               \/ Register(p, u, o)
               \/ \E role \in Offered : \/ CreateInvitation(p, a, o, u, role)
                                        \/ SetRole(p, a, o, u, role)
               \/ RemoveMember(p, a, o, u)
               \/ ResetMemberMfa(p, a, o, u)
        PROVE  Admits(q)
    <2>1. UNCHANGED member
      BY <1>1 DEF Register, CreateInvitation, SetRole, RemoveMember, ResetMemberMfa,
         OnMember
    <2>. QED BY <2>1, SameMembers
  <1>2. ASSUME NEW p \in Process, NEW i \in DOMAIN invitation,
               \/ AcceptInvitation(p, i)
               \/ \E a \in User : ResendInvitation(p, a, i) \/ RevokeInvitation(p, a, i)
        PROVE  Admits(q)
    <2>1. UNCHANGED member
      BY <1>2 DEF AcceptInvitation, ResendInvitation, RevokeInvitation, OnInvitation
    <2>. QED BY <2>1, SameMembers
  <1>3. ASSUME NEW p \in Process,
               InsertInvitation(p) \/ UpdateInvitation(p) \/ AdminResetMfa(p)
        PROVE  Admits(q)
    <2>1. UNCHANGED member
      BY <1>3 DEF InsertInvitation, UpdateInvitation, AdminResetMfa
    <2>. QED BY <2>1, SameMembers
  <1>4. CASE \/ \E o \in Org :
                  \/ \E a \in User, required \in BOOLEAN : UpdateSecurityPolicy(a, o, required)
                  \/ \E plan \in Plan : ChangePlan(o, plan)
                  \/ TrialEnds(o)
             \/ \E i \in DOMAIN invitation : InvitationExpires(i)
             \/ ExpireTrials
    <2>1. UNCHANGED member
      BY <1>4 DEF UpdateSecurityPolicy, ChangePlan, TrialEnds, InvitationExpires,
         ExpireTrials, tenancyVars
    <2>. QED BY <2>1, SameMembers
  <1>5. ASSUME NEW p \in Process, AdmitMember(p) \/ RegisterOrganization(p)
        PROVE  Admits(q)
    BY <1>5, AcceptsAdmit, RegistrationsAdmit
  <1>6. ASSUME NEW p \in Process, UpdateMemberRole(p)
        PROVE  Admits(q)
    <2> DEFINE o == call[p].org
               u == call[p].user
               row == [member[o][u] EXCEPT !.role = call[p].arg]
    <2>1. /\ o \in Org /\ u \in User /\ call[p].arg \in Role
          /\ member[o][u] \in MemberRow
          /\ member' = [member EXCEPT ![o][u] = row]
      BY <1>6, MemberTyped
      DEF UpdateMemberRole, IInv, Typed, CallTyped, CallRow, OnAnOrg
    <2>2. row \in MemberRow /\ row.id = member[o][u].id
      BY <2>1 DEF MemberRow
    <2> HIDE DEF row, o, u
    <2>3. /\ o \in Org /\ u \in User /\ member' = [member EXCEPT ![o][u] = row]
          /\ member \in [Org -> [User -> MemberRow]]
      BY <2>1, TablesOf DEF IInv, TenantTablesTyped
    <2>4. /\ member'[o][u] = row
          /\ \A r \in Org, v \in User : r # o \/ v # u => member'[r][v] = member[r][v]
      BY <2>3
    <2>5. \A v \in User : member'[q][v].id # 0 => member[q][v].id # 0
      BY <2>2, <2>4
    <2>. QED BY <2>5, NoMoreSeats
  <1>7. ASSUME NEW o \in Org, NEW u \in User, Leave(o, u)
        PROVE  Admits(q)
    <2>1. NoMember \in MemberRow /\ NoMember.id = 0
      BY DEF NoMember, MemberRow
    <2>2. /\ member' = [member EXCEPT ![o][u] = NoMember]
          /\ member \in [Org -> [User -> MemberRow]]
      BY <1>7, TablesOf DEF Leave, IInv, TenantTablesTyped
    <2>3. /\ member'[o][u] = NoMember
          /\ \A r \in Org, v \in User : r # o \/ v # u => member'[r][v] = member[r][v]
      BY <1>7, <2>2
    <2>4. \A v \in User : member'[q][v].id # 0 => member[q][v].id # 0
      BY <2>1, <2>3
    <2>. QED BY <2>4, NoMoreSeats
  <1>8. ASSUME NEW p \in Process, DeleteMember(p)
        PROVE  Admits(q)
    <2>1. call[p].org \in Org /\ call[p].user \in User
      BY <1>8 DEF DeleteMember, IInv, Typed, CallTyped, CallRow, OnAnOrg
    <2>. QED BY <1>7, <1>8, <2>1 DEF DeleteMember
  <1>9. ASSUME NEW o \in Org, NEW u \in User, EraseUser(o, u)
        PROVE  Admits(q)
    BY <1>7, <1>9 DEF EraseUser
  <1>. QED BY <1>1, <1>2, <1>3, <1>4, <1>5, <1>6, <1>8, <1>9 DEF TenantStep

(* An organization grows beyond its plan, or while its subscription is not  *)
(* in force, only by an accept that another change of its members or its    *)
(* plan has overtaken.                                                      *)
THEOREM OrganizationsStayWithinPlan == Spec => SeatsWithinPlan
  <1>1. IInv /\ [Next]_vars =>
          [\A o \in Org :
             Seats(o)' > Seats(o) =>
               \/ org[o] = NoOrg
               \/ ~GrowthBlocked(o)' /\ WithinPlan(o, Seats(o))'
               \/ \E p \in Process : call[p].org = o /\ call[p].stale
                                     /\ call'[p] = Idle]_<<org, member>>
    <2> SUFFICES ASSUME IInv, [Next]_vars, NEW o \in Org
                 PROVE  Admits(o)
      BY DEF Admits
    <2>1. CASE UNCHANGED member
      BY <2>1, SameMembers
    <2>2. CASE \E p \in Process : Abort(p)
      BY <2>2, SameMembers DEF Abort
    <2>. QED BY <2>1, <2>2, AccountStepAdmits, TenantStepAdmits DEF Next, vars, tenancyVars
  <1>. QED BY <1>1, AccountsInvariance, PTL DEF SeatsWithinPlan, Spec
==============================================================================
