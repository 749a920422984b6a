------------------------------- MODULE Tenancy -------------------------------
(***************************************************************************)
(* Accounts, organizations and memberships, the check every request with   *)
(* an access token passes (api/deps.py), and the requests under way.       *)
(*                                                                         *)
(* A request that reads rows without locking them and writes them later is *)
(* two steps: its reads, which leave what it saw in call[p], and its       *)
(* writes and commit.  In between other requests commit (READ COMMITTED).  *)
(* A request that locks the rows it reads (SELECT ... FOR UPDATE) is one   *)
(* step.  A request that ends in an error without a commit changes         *)
(* nothing and is not a step, or is Abort when it had begun.               *)
(*                                                                         *)
(* An account is named by its e-mail address, which is unique; an erased   *)
(* account's address is not registered again.  There is no clock: a        *)
(* deadline that only makes a request fail is that request not happening.  *)
(***************************************************************************)
EXTENDS Integers, FiniteSets, Sequences, FiniteSetsExt, Permissions

CONSTANTS
  User,     (* E-mail addresses. *)
  Org,      (* Slugs of organizations. *)
  Process,  (* Requests that may be under way at one time. *)
  None,     (* Neither an address nor a slug. *)
  Plan,     (* Subscription plans. *)
  Trial,    (* DEFAULT_TRIAL_PLAN *)
  UserLimit,(* user_limit of each plan: a function; -1 is no limit. *)
  Budgets   (* Bound: the numbers of requests of each area in a behaviour. *)

ASSUME TenancyAssumption ==
  /\ None \notin User \cup Org
  /\ IsFiniteSet(User) /\ IsFiniteSet(Org) /\ IsFiniteSet(Process)
  /\ Trial \in Plan
  /\ UserLimit \in [Plan -> Int]

Area == {"account", "tenant"}

ASSUME BudgetAssumption == Budgets \subseteq [Area -> Nat]

VARIABLES
  user,    (* The row of each account. *)
  org,     (* Each organization: its settings and its subscription. *)
  member,  (* The membership of each account in each organization. *)
  joined,  (* Every membership ever created, in order: the source of ids. *)
  access,  (* Access tokens issued: whose, for which organization, and the
              account's revocation count at the time. *)
  call,    (* What each request under way has read. *)
  budget   (* Requests left of each area. *)

tenancyVars == <<user, org, member, joined, access, call, budget>>

-----------------------------------------------------------------------------
(* Rows *)

(* password_hash is left out: a request is given the right password or not. *)
(* until is locked_until: NULL, still ahead, or past.                       *)
(* secret is the TOTP key in force, 0 while mfa_enabled_at is NULL; pending *)
(* a key not yet confirmed; step the last accepted time step; codes the     *)
(* recovery codes not used; cut counts the changes of sessions_revoked_at;  *)
(* keys numbers the keys and sets of codes made.                            *)
UserRow == [status : {"none", "active", "erased"}, verified : BOOLEAN,
            failed : Nat, until : {"none", "ahead", "past"}, secret : Nat, pending : Nat,
            step : Nat, codes : SUBSET (Nat \X Nat), cut : Nat, keys : Nat]

NoUser == [status |-> "none", verified |-> FALSE, failed |-> 0,
           until |-> "none", secret |-> 0, pending |-> 0, step |-> 0,
           codes |-> {}, cut |-> 0, keys |-> 0]

NewUser(verified) == [NoUser EXCEPT !.status = "active", !.verified = verified]

(* subscription: "ended" is a trial whose trial_ends_at has passed.         *)
OrgRow == [exists : BOOLEAN, mfaRequired : BOOLEAN, plan : Plan,
           subscription : {"trial", "ended", "active", "past_due"}]

NoOrg == [exists |-> FALSE, mfaRequired |-> FALSE, plan |-> Trial,
          subscription |-> "trial"]

(* id is the membership's place in joined, 0 when there is no row.          *)
MemberRow == [role : Role \cup {"none"}, id : Nat]

NoMember == [role |-> "none", id |-> 0]

IsMember(o, u) == member[o][u].id # 0

Seats(o) == Cardinality({u \in User : IsMember(o, u)})

(* A new membership of u in o; by is the invitation it comes from, or 0.    *)
Join(o, u, role, by) ==
  /\ member' = [member EXCEPT ![o][u] = [role |-> role, id |-> Len(joined) + 1]]
  /\ joined' = Append(joined, [org |-> o, user |-> u, by |-> by])

Leave(o, u) == member' = [member EXCEPT ![o][u] = NoMember]

(* The membership a session is opened for: the first created, or None.      *)
ActiveMembership(u) ==
  IF \E o \in Org : IsMember(o, u)
    THEN CHOOSE o \in Org :
           /\ IsMember(o, u)
           /\ \A q \in Org : IsMember(q, u) => member[o][u].id <= member[q][u].id
    ELSE None

-----------------------------------------------------------------------------
(* The plan of an organization *)

(* GROWTH_BLOCKED_STATUSES of the effective status: a trial that has ended  *)
(* counts as past due before the scheduler has written it down.             *)
GrowthBlocked(o) == org[o].subscription \in {"ended", "past_due"}

WithinPlan(o, n) == UserLimit[org[o].plan] >= 0 => n <= UserLimit[org[o].plan]

(* With a seat more than the plan has.                                      *)
EnforceUserLimitLate(o) == ~GrowthBlocked(o) /\ WithinPlan(o, Seats(o))

EnforceUserLimit(o) == ~GrowthBlocked(o) /\ WithinPlan(o, Seats(o) + 1)

-----------------------------------------------------------------------------
(* Access *)

AccessToken == [user : User, org : Org \cup {None}, cut : Nat]

(* issue_access_token, at the end of a login or a rotation.                 *)
IssueAccess(u) ==
  access' = access \cup
    {[user |-> u, org |-> ActiveMembership(u), cut |-> user[u].cut]}

(* The account is active, no password or MFA reset since the token was      *)
(* issued, and the membership it names still there.                         *)
AuthoritativeAccess(t) ==
  /\ user[t.user].status = "active"
  /\ t.cut = user[t.user].cut
  /\ t.org # None => IsMember(t.org, t.user)

(* verify_access_token: what tokens this service has issued say of u.       *)
VerifiedTokens(u) == {t \in access : t.user = u}

(* Account endpoints stay reachable to enroll in a second factor.           *)
CurrentContext(t, exempt) ==
  /\ AuthoritativeAccess(t)
  /\ ~exempt /\ t.org # None /\ org[t.org].mfaRequired => user[t.user].secret # 0

SignedIn(u) == \E t \in VerifiedTokens(u) : CurrentContext(t, TRUE)

(* u acts in organization o, with the role the database has now.            *)
RequirePermission(o, u, permission) ==
  \E t \in VerifiedTokens(u) :
     /\ t.org = o
     /\ CurrentContext(t, FALSE)
     /\ RoleHas(member[o][u].role, permission)

RequireVerifiedEmail(u) == user[u].verified

-----------------------------------------------------------------------------
(* Requests under way *)

(* user and org: about whom and where; row: the row it works on; seen: rows *)
(* it read; num: a number it read; arg: what it was asked; stale: history,  *)
(* another request has meanwhile committed a change to the same.            *)
Idle == [op |-> "idle", user |-> None, org |-> None, row |-> 0, num |-> 0,
         seen |-> {}, arg |-> "none", stale |-> FALSE]

Spend(area) == /\ budget[area] > 0
               /\ budget' = [budget EXCEPT ![area] = @ - 1]

Begin(p, area, c) == /\ call[p] = Idle
                     /\ Spend(area)
                     /\ call' = [call EXCEPT ![p] = c]

(* The set of requests has been overtaken; p, if a process, has ended.      *)
Settle(p, overtaken) ==
  call' = [q \in Process |->
             IF q = p THEN Idle
             ELSE [call[q] EXCEPT !.stale = @ \/ q \in overtaken]]

OnUser(u) == {q \in Process : call[q].user = u}

OnOrg(o) == {q \in Process : call[q].org = o}

(* Error, cancellation, lost connection or deadlock: rolled back.           *)
Abort(p) == /\ call[p] # Idle
            /\ call' = [call EXCEPT ![p] = Idle]
            /\ UNCHANGED <<user, org, member, joined, access, budget>>

-----------------------------------------------------------------------------
TenancyTypeOK ==
  /\ user \in [User -> UserRow]
  /\ org \in [Org -> OrgRow]
  /\ member \in [Org -> [User -> MemberRow]]
  /\ joined \in Seq([org : Org, user : User, by : Nat])
  /\ \A o \in Org, u \in User :
       \/ member[o][u] = NoMember
       \/ /\ member[o][u].role # "none"
          /\ member[o][u].id \in DOMAIN joined
          /\ joined[member[o][u].id].org = o /\ joined[member[o][u].id].user = u
  /\ access \subseteq AccessToken
  /\ \A p \in Process : DOMAIN call[p] = DOMAIN Idle
  /\ budget \in [Area -> Nat]
=============================================================================
