------------------------------- MODULE Sessions -------------------------------
(***************************************************************************)
(* Login, refresh-token rotation, one-time links and the second factor     *)
(* (application/identity/service.py, application/identity/                 *)
(* account_security.py, called by api/routers/v1/auth.py).                 *)
(*                                                                         *)
(* A session row is named by its place in the table; its family by the     *)
(* first session of it.  Rate limits, audit rows and mails are left out.   *)
(* A locked request takes the answer of the access check as still true.    *)
(***************************************************************************)
EXTENDS Tenancy, SequencesExt

CONSTANTS
  MaxFailed,    (* _MAX_FAILED_LOGINS *)
  MaxAttempts,  (* MFA_MAX_ATTEMPTS *)
  CodeCount,    (* RECOVERY_CODE_COUNT *)
  MaxStep       (* Bound: time steps a code may be made for. *)

ASSUME SessionsAssumption ==
  /\ MaxFailed \in Nat \ {0}
  /\ MaxAttempts \in Nat \ {0}
  /\ CodeCount \in Nat
  /\ MaxStep \in Nat

VARIABLES
  session,    (* The table of refresh sessions. *)
  link,       (* The table of one-time links. *)
  challenge,  (* The table of second-step login challenges. *)
  spent,      (* History: second factors accepted. *)
  respent,    (* History: second factors accepted once more. *)
  overlapped, (* History: families changed by requests that overlapped. *)
  relinked    (* History: accounts and purposes whose links were issued by
                 requests that overlapped. *)

sessionVars ==
  <<session, link, challenge, spent, respent, overlapped, relinked>>

Purpose == {"password_reset", "email_verification"}

(* next is replaced_by_id; via is the challenge its family was opened with, *)
(* if any, and cut the account's revocation count when it was opened: when  *)
(* the password was checked or, with a challenge, the second factor         *)
(* (history).  "gone": the row was deleted.                                 *)
SessionRow == [user : User, family : Nat, state : {"open", "closed", "gone"},
               reuse : BOOLEAN, next : Nat, cut : Nat, via : Nat]

LinkRow == [user : User, purpose : Purpose, state : {"usable", "used", "gone"}]

(* cut: the account's revocation count when the password was checked        *)
(* (history).                                                               *)
ChallengeRow == [user : User, attempts : Nat, cut : Nat,
                 state : {"open", "consumed", "gone"}]

-----------------------------------------------------------------------------
(* Sessions *)

NewSession(u, f, cut, via) ==
  [user |-> u, family |-> f, state |-> "open", reuse |-> FALSE,
   next |-> 0, cut |-> cut, via |-> via]

OpenSessions(f) ==
  {i \in DOMAIN session : session[i].family = f /\ session[i].state = "open"}

Families == {session[i].family : i \in DOMAIN session}

Closed(rows) ==
  [i \in DOMAIN session |->
     IF i \in rows /\ session[i].state = "open"
       THEN [session[i] EXCEPT !.state = "closed"] ELSE session[i]]

(* With the sessions left to run out.                                       *)
ClosedForNobody(u) == session

(* revoke_all_sessions: what is committed and open; tokens issued before    *)
(* are refused.                                                             *)
ClosedFor(u) == Closed({i \in DOMAIN session : session[i].user = u})

StartSession(u, cut, via, late) ==
  LET f == Len(session) + 1
  IN /\ session' = Append(session, NewSession(u, f, cut, via))
     /\ overlapped' = IF late THEN overlapped \cup {f} ELSE overlapped
     /\ IssueAccess(u)

OnFamily(f) ==
  {p \in Process : call[p].op \in {"rotate", "revoke"} /\ call[p].num = f}

-----------------------------------------------------------------------------
(* One-time links *)

Usable(u, purpose) ==
  {i \in DOMAIN link : /\ link[i].user = u /\ link[i].purpose = purpose
                       /\ link[i].state = "usable"}

UseUp(rows) ==
  [i \in DOMAIN link |->
     IF i \in rows /\ link[i].state = "usable"
       THEN [link[i] EXCEPT !.state = "used"] ELSE link[i]]

Issuing(u, purpose) ==
  {p \in Process : call[p].op = "issue" /\ call[p].user = u /\ call[p].arg = purpose}

(* Links a request under way has updated and so keeps locked.               *)
Locked == UNION {call[p].seen : p \in {q \in Process : call[q].op = "issue"}}

(* With the earlier links left usable.                                      *)
IssueTokenBeside(p, u, purpose) ==
  Begin(p, "account", [Idle EXCEPT !.op = "issue", !.user = u, !.arg = purpose])

(* _issue_token: the links it finds are used up; the new one is inserted    *)
(* with the commit.                                                         *)
IssueToken(p, u, purpose) ==
  Begin(p, "account", [Idle EXCEPT !.op = "issue", !.user = u,
                         !.arg = purpose, !.seen = Usable(u, purpose)])

InsertToken(p) ==
  LET c == call[p]
  IN /\ c.op = "issue"
     /\ link' = Append(UseUp(c.seen), [user |-> c.user, purpose |-> c.arg,
                                       state |-> "usable"])
     /\ relinked' = IF c.stale THEN relinked \cup {<<c.user, c.arg>>}
                               ELSE relinked
     /\ Settle(p, Issuing(c.user, c.arg))
     /\ UNCHANGED <<user, org, member, joined, access, budget, session,
                    challenge, spent, respent, overlapped>>

(* _consume_token: the row is locked, so it waits for whoever locked it.    *)
ConsumeToken(i, purpose) ==
  /\ link[i].purpose = purpose
  /\ link[i].state = "usable"
  /\ i \notin Locked

-----------------------------------------------------------------------------
(* The second factor *)

(* A code of the authenticator for a key and a time step, or a recovery     *)
(* code of a set.                                                           *)
Factor == [kind : {"totp", "recovery"}, user : User, key : Nat, n : Nat]

Submitted(u) ==
  [kind : {"totp"}, user : {u}, key : 1..user[u].keys, n : 1..MaxStep]
    \cup [kind : {"recovery"}, user : {u}, key : 1..user[u].keys, n : 1..CodeCount]

(* With the step last accepted taken again.                                 *)
AcceptsAgain(u, f) ==
  \/ f.kind = "totp" /\ f.key = user[u].secret /\ f.n >= user[u].step
  \/ f.kind = "recovery" /\ <<f.key, f.n>> \in user[u].codes

(* The step last accepted and those before it are replays.                  *)
Accepts(u, f) ==
  \/ /\ f.kind = "totp"
     /\ f.key = user[u].secret
     /\ f.n > user[u].step
  \/ /\ f.kind = "recovery"
     /\ <<f.key, f.n>> \in user[u].codes

Accepted(u, f) ==
  IF f.kind = "totp" THEN [user[u] EXCEPT !.step = f.n]
                     ELSE [user[u] EXCEPT !.codes = @ \ {<<f.key, f.n>>}]

Record(f) ==
  /\ spent' = spent \cup {f}
  /\ respent' = IF f \in spent THEN respent \cup {f} ELSE respent

(* _replace_recovery_codes                                                  *)
FreshCodes(row) ==
  [row EXCEPT !.codes = {<<row.keys + 1, n>> : n \in 1..CodeCount},
              !.keys = @ + 1]

(* _clear_mfa, and the recovery codes deleted.                              *)
ClearMfa(row) ==
  [row EXCEPT !.secret = 0, !.pending = 0, !.step = 0, !.codes = {}]

MfaEnabled(u) == user[u].secret # 0

-----------------------------------------------------------------------------
(* Login *)

(* The right password is checked against the row as it is read; whether a   *)
(* second factor follows is decided then.  A wrong one counts: the count is *)
(* read here and written, one higher, by CountFailure.                      *)
Authenticate(p, u) ==
  /\ user[u].status = "active"
  /\ user[u].until # "ahead"
  /\ \E op \in {"fail", IF MfaEnabled(u) THEN "challenge" ELSE "login"} :
       Begin(p, "account",
             [Idle EXCEPT !.op = op, !.user = u, !.num = user[u].failed,
                          !.row = user[u].cut, !.arg = user[u].until])
  /\ UNCHANGED <<user, org, member, joined, access, sessionVars>>

CountFailure(p) ==
  LET c == call[p]
      full == c.num + 1 >= MaxFailed
  IN /\ c.op = "fail"
     /\ user' = [user EXCEPT ![c.user].failed = IF full THEN 0 ELSE c.num + 1,
                             ![c.user].until = IF full THEN "ahead" ELSE @]
     /\ Settle(p, {})
     /\ UNCHANGED <<org, member, joined, access, budget, sessionVars>>

(* locked_until passes.                                                     *)
LockExpires(u) ==
  /\ user[u].until = "ahead"
  /\ user' = [user EXCEPT ![u].until = "past"]
  /\ UNCHANGED <<org, member, joined, access, call, budget, sessionVars>>

(* The counter and the lock are reset if the row that was read had them.    *)
ForgetFailures(c) ==
  user' = [user EXCEPT ![c.user].failed = IF c.num = 0 THEN @ ELSE 0,
                       ![c.user].until = IF c.arg = "none" THEN @ ELSE "none"]

Login(p) ==
  LET c == call[p]
  IN /\ c.op = "login"
     /\ ForgetFailures(c)
     /\ StartSession(c.user, c.row, 0, c.stale)
     /\ Settle(p, {})
     /\ UNCHANGED <<org, member, joined, budget, link, challenge, spent,
                    respent, relinked>>

CreateChallenge(p) ==
  LET c == call[p]
  IN /\ c.op = "challenge"
     /\ ForgetFailures(c)
     /\ challenge' = Append(challenge,
                            [user |-> c.user, attempts |-> 0, cut |-> c.row,
                             state |-> "open"])
     /\ Settle(p, {})
     /\ UNCHANGED <<org, member, joined, access, budget, session, link, spent,
                    respent, overlapped, relinked>>

(* The challenge, then the account, are locked.  Nothing compares the time  *)
(* of the challenge with the account's last revocation.                     *)
OpenChallenge(i) ==
  LET u == challenge[i].user
  IN /\ challenge[i].state = "open"
     /\ challenge[i].attempts < MaxAttempts
     /\ user[u].status = "active"
     /\ MfaEnabled(u)

VerifyMfaChallenge(i, f) ==
  LET u == challenge[i].user
  IN /\ OpenChallenge(i)
     /\ Accepts(u, f)
     /\ Spend("account")
     /\ user' = [user EXCEPT ![u] = Accepted(u, f)]
     /\ Record(f)
     /\ challenge' = [challenge EXCEPT ![i].state = "consumed"]
     /\ StartSession(u, user[u].cut, i, FALSE)
     /\ UNCHANGED <<org, member, joined, call, link, relinked>>

(* A refused code costs an attempt, committed before the error.             *)
RefuseMfaChallenge(i) ==
  /\ OpenChallenge(i)
  /\ Spend("account")
  /\ challenge' = [challenge EXCEPT ![i].attempts = @ + 1]
  /\ UNCHANGED <<user, org, member, joined, access, call, session, link, spent,
                 respent, overlapped, relinked>>

-----------------------------------------------------------------------------
(* Rotation and logout *)

OnSession(p, op, i, rows, arg) ==
  /\ Begin(p, "account",
           [Idle EXCEPT !.op = op, !.user = session[i].user, !.row = i,
                        !.num = session[i].family, !.seen = rows, !.arg = arg])
  /\ UNCHANGED <<user, org, member, joined, access, sessionVars>>

(* With a successor that was itself used or closed.                         *)
UnusedSuccessorAny(i, retry) == retry /\ session[i].next # 0 /\ ~session[i].reuse

(* retry: within the grace window and from the same user agent.             *)
UnusedSuccessor(i, retry) ==
  /\ retry
  /\ session[i].next # 0
  /\ ~session[i].reuse
  /\ session[session[i].next].state = "open"

(* A token seen open is rotated; one already rotated whose successor was    *)
(* not used replaces that successor; any other use closes the family.       *)
Refresh(p, i, retry) ==
  \/ /\ session[i].state = "open"
     /\ user[session[i].user].status = "active"
     /\ OnSession(p, "rotate", i, {i}, "none")
  \/ /\ session[i].state = "closed"
     /\ UnusedSuccessor(i, retry)
     /\ user[session[i].user].status = "active"
     /\ OnSession(p, "rotate", i, {session[i].next}, "none")
  \/ /\ session[i].state = "closed"
     /\ ~UnusedSuccessor(i, retry)
     /\ OpenSessions(session[i].family) # {}
     /\ OnSession(p, "revoke", i, OpenSessions(session[i].family), "reuse")

Logout(p, i) ==
  /\ session[i].state # "gone"
  /\ OpenSessions(session[i].family) # {}
  /\ OnSession(p, "revoke", i, OpenSessions(session[i].family), "logout")

StillThere(rows) == \A i \in rows : session[i].state # "gone"

(* Updates go by id, whatever has become of the rows since they were read,  *)
(* and fail if one was deleted.                                             *)
RotateRefreshToken(p) ==
  LET c == call[p]
      old == session[c.row]
      new == NewSession(c.user, c.num, old.cut, old.via)
  IN /\ c.op = "rotate"
     /\ StillThere(c.seen \cup {c.row})
     /\ session' = Append([Closed(c.seen) EXCEPT ![c.row].next = Len(session) + 1],
                          new)
     /\ IssueAccess(c.user)
     /\ overlapped' = IF c.stale THEN overlapped \cup {c.num} ELSE overlapped
     /\ Settle(p, OnFamily(c.num))
     /\ UNCHANGED <<user, org, member, joined, budget, link, challenge, spent,
                    respent, relinked>>

RevokeFamily(p) ==
  LET c == call[p]
  IN /\ c.op = "revoke"
     /\ StillThere(c.seen)
     /\ session' = [i \in DOMAIN session |->
                      IF i \in c.seen
                        THEN [Closed(c.seen)[i] EXCEPT
                                !.reuse = @ \/ c.arg = "reuse"]
                        ELSE session[i]]
     /\ overlapped' = IF c.stale THEN overlapped \cup {c.num} ELSE overlapped
     /\ Settle(p, OnFamily(c.num))
     /\ UNCHANGED <<user, org, member, joined, access, budget, link, challenge,
                    spent, respent, relinked>>

-----------------------------------------------------------------------------
(* Password reset and e-mail verification *)

RequestPasswordReset(p, u) ==
  user[u].status = "active" /\ IssueToken(p, u, "password_reset")

ForgotPassword(p, u) ==
  /\ RequestPasswordReset(p, u)
  /\ UNCHANGED <<user, org, member, joined, access, sessionVars>>

SendEmailVerification(p, u) ==
  ~user[u].verified /\ IssueToken(p, u, "email_verification")

ResendVerification(p, u) ==
  /\ SignedIn(u)
  /\ SendEmailVerification(p, u)
  /\ UNCHANGED <<user, org, member, joined, access, sessionVars>>

(* The link and the account are locked.  The other links are used up, so it *)
(* waits for a request that has locked one of them.                         *)
ConsumeReset(i) ==
  LET u == link[i].user
      others == Usable(u, "password_reset")
  IN /\ ConsumeToken(i, "password_reset")
     /\ others \cap Locked = {}
     /\ user[u].status = "active"
     /\ link' = UseUp(others)
     /\ user' = [user EXCEPT ![u].failed = 0, ![u].until = "none",
                             ![u].cut = @ + 1]
     /\ session' = ClosedFor(u)
     /\ Settle(None, OnUser(u))

ResetPassword(i) ==
  /\ ConsumeReset(i)
  /\ Spend("account")
  /\ UNCHANGED <<org, member, joined, access, challenge, spent, respent,
                 overlapped, relinked>>

ConsumeVerification(i) ==
  /\ ConsumeToken(i, "email_verification")
  /\ link' = UseUp({i})
  /\ user' = [user EXCEPT ![link[i].user].verified = TRUE]

VerifyEmail(i) ==
  /\ ConsumeVerification(i)
  /\ Spend("account")
  /\ UNCHANGED <<org, member, joined, access, call, session, challenge, spent,
                 respent, overlapped, relinked>>

-----------------------------------------------------------------------------
(* Enrolling in the second factor *)

BeginMfaSetup(p, u) ==
  /\ SignedIn(u)
  /\ ~MfaEnabled(u)
  /\ Begin(p, "account", [Idle EXCEPT !.op = "setup", !.user = u])
  /\ UNCHANGED <<user, org, member, joined, access, sessionVars>>

(* Not locked: the key is written whatever has become of the account.       *)
MfaSetup(p) ==
  LET u == call[p].user
  IN /\ call[p].op = "setup"
     /\ user' = [user EXCEPT ![u].pending = user[u].keys + 1, ![u].keys = @ + 1]
     /\ Settle(p, {})
     /\ UNCHANGED <<org, member, joined, access, budget, sessionVars>>

(* The three that follow lock the account.                                  *)
LockedAccount(u) ==
  /\ SignedIn(u)
  /\ Spend("account")
  /\ UNCHANGED <<org, member, joined, access, call, session, link, challenge,
                 overlapped, relinked>>

ConfirmMfa(u, step) ==
  LET row == user[u]
  IN /\ LockedAccount(u)
     /\ ~MfaEnabled(u)
     /\ row.pending # 0
     /\ user' = [user EXCEPT ![u] = FreshCodes(
          [row EXCEPT !.secret = row.pending, !.pending = 0, !.step = step])]
     /\ Record([kind |-> "totp", user |-> u, key |-> row.pending, n |-> step])

DisableMfa(u, f) ==
  /\ LockedAccount(u)
  /\ MfaEnabled(u)
  /\ Accepts(u, f)
  /\ user' = [user EXCEPT ![u] = ClearMfa(Accepted(u, f))]
  /\ Record(f)

RegenerateRecoveryCodes(u, f) ==
  /\ LockedAccount(u)
  /\ MfaEnabled(u)
  /\ Accepts(u, f)
  /\ user' = [user EXCEPT ![u] = FreshCodes(Accepted(u, f))]
  /\ Record(f)

-----------------------------------------------------------------------------
AccountStep ==
  \/ \E p \in Process :
       \/ \E u \in User : \/ Authenticate(p, u)
                          \/ ForgotPassword(p, u)
                          \/ ResendVerification(p, u)
                          \/ BeginMfaSetup(p, u)
       \/ \E i \in DOMAIN session : \/ \E retry \in BOOLEAN : Refresh(p, i, retry)
                                    \/ Logout(p, i)
       \/ CountFailure(p) \/ Login(p) \/ CreateChallenge(p)
       \/ RotateRefreshToken(p) \/ RevokeFamily(p)
       \/ InsertToken(p) \/ MfaSetup(p)
  \/ \E u \in User :
       \/ LockExpires(u)
       \/ \E n \in 1..MaxStep : ConfirmMfa(u, n)
       \/ \E f \in Submitted(u) : DisableMfa(u, f) \/ RegenerateRecoveryCodes(u, f)
  \/ \E i \in DOMAIN link : ResetPassword(i) \/ VerifyEmail(i)
  \/ \E i \in DOMAIN challenge :
       \/ \E f \in Submitted(challenge[i].user) : VerifyMfaChallenge(i, f)
       \/ RefuseMfaChallenge(i)

-----------------------------------------------------------------------------
(* Properties *)

SessionsTypeOK ==
  /\ session \in Seq(SessionRow)
  /\ link \in Seq(LinkRow)
  /\ challenge \in Seq(ChallengeRow)
  /\ spent \subseteq Factor
  /\ respent \subseteq spent
  /\ overlapped \subseteq Families
  /\ relinked \subseteq User \X Purpose

(* A family of refresh tokens has at most one session that is open, however *)
(* logins, rotations, retries of a lost answer and revocations follow one   *)
(* another, unless two of them on that family overlapped.                   *)
OneOpenPerFamily ==
  \A f \in Families \ overlapped : Cardinality(OpenSessions(f)) <= 1

(* Once a logout, a reused token, a password reset, an MFA reset or an      *)
(* erasure has left a family without an open session, nothing reopens it,   *)
(* unless a rotation of it was already under way.                           *)
ClosedFamiliesStayClosed ==
  [][\A f \in Families \ overlapped' :
       OpenSessions(f) = {} => OpenSessions(f)' = {}]_<<session, overlapped>>

(* The account's revocation count when the password was checked that the    *)
(* family of i goes back to.                                                *)
PasswordCut(i) ==
  IF session[i].via = 0 THEN session[i].cut ELSE challenge[session[i].via].cut

(* What was open at a password reset, an MFA reset or an erasure is closed: *)
(* the password of an open session was checked since the last one, unless   *)
(* the login or rotation overlapped with it or a challenge outlived it.  A  *)
(* challenge does: one given before may still open one family, if the       *)
(* second factor was checked since, and is used up by it.                   *)
NoSessionOutlivesReset ==
  \A i \in DOMAIN session :
     session[i].state = "open" =>
       \/ session[i].family \in overlapped
       \/ PasswordCut(i) = user[session[i].user].cut
       \/ /\ session[i].via # 0
          /\ session[i].cut = user[session[i].user].cut
          /\ challenge[session[i].via].state # "open"

(* A time step of an authenticator key, or a recovery code, is accepted     *)
(* once, whichever of login, enrolling, disabling and regenerating it is    *)
(* given to; a challenge opens one session and takes MaxAttempts refusals.  *)
SecondFactorOnce ==
  /\ respent = {}
  /\ \A i, j \in DOMAIN session :
       session[i].via = session[j].via /\ session[i].via # 0 =>
         session[i].family = session[j].family
  /\ \A i \in DOMAIN challenge : challenge[i].attempts <= MaxAttempts

(* Of the links mailed to an account for one purpose, at most one can still *)
(* be used, unless requests for them, or a request and a reset, overlapped. *)
OneUsableLink ==
  \A u \in User, purpose \in Purpose :
     \/ <<u, purpose>> \in relinked
     \/ Cardinality(Usable(u, purpose)) <= 1
===============================================================================
