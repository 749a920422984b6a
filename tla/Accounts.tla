------------------------------- MODULE Accounts -------------------------------
(***************************************************************************)
(* Organizations: registration, invitations, members, roles, the security  *)
(* policy and the plan (api/routers/v1/organizations.py, the second half   *)
(* of application/identity/service.py, application/saas/service.py,        *)
(* api/routers/v1/platform.py), together with the accounts of Sessions and *)
(* the erasure of an account (application/privacy/processor.py).           *)
(***************************************************************************)
EXTENDS Sessions

CONSTANTS
  Offered   (* Roles asked for in invitations and role changes. *)

ASSUME AccountsAssumption == Offered \subseteq Role

VARIABLES
  invitation  (* The table of invitations. *)

(* expired: expires_at has passed; "both": accepted and revoked.  A token   *)
(* that was mailed before the last one finds no row.                        *)
InvitationRow == [org : Org, user : User, role : Role, expired : BOOLEAN,
                  state : {"pending", "accepted", "revoked", "both", "gone"}]

vars == <<tenancyVars, sessionVars, invitation>>

(* An organization registered some time ago, everyone signed in and with or  *)
(* without a second factor; with or without an administrator, who may have   *)
(* been removed since.                                                       *)
Init ==
  /\ \E owner \in User, o \in Org, mfa, removed \in BOOLEAN :
     \E admins \in {{}} \cup {{a} : a \in User \ {owner}} :
       LET members == <<owner>> \o SetToSeq(admins)
           present == {owner} \cup admins
           idOf(u) == CHOOSE n \in DOMAIN members : members[n] = u
           left == IF removed THEN admins ELSE {}
       IN /\ user = [u \in User |->
               IF u \notin present THEN NoUser
               ELSE IF mfa THEN FreshCodes([NewUser(TRUE) EXCEPT !.secret = 1,
                                                       !.keys = 1, !.step = 1])
               ELSE NewUser(TRUE)]
          /\ spent = IF mfa THEN {[kind |-> "totp", user |-> u, key |-> 1, n |-> 1] :
                                    u \in present}
                            ELSE {}
          /\ org = [q \in Org |-> IF q = o THEN [NoOrg EXCEPT !.exists = TRUE]
                                          ELSE NoOrg]
          /\ member = [q \in Org |-> [u \in User |->
               IF q # o \/ u \notin present \ left THEN NoMember
               ELSE [role |-> IF u = owner THEN "owner" ELSE "admin",
                     id |-> idOf(u)]]]
          /\ joined = [n \in DOMAIN members |->
                         [org |-> o, user |-> members[n], by |-> 0]]
          /\ access = {[user |-> u, org |-> o, cut |-> 0] : u \in present}
          /\ session = [n \in DOMAIN members |-> NewSession(members[n], n, 0, 0)]
  /\ call = [p \in Process |-> Idle]
  /\ budget \in Budgets
  /\ link = <<>> /\ challenge = <<>> /\ invitation = <<>>
  /\ respent = {} /\ overlapped = {} /\ relinked = {}

-----------------------------------------------------------------------------
(* Registration *)

(* Slug and address are found free ...                                      *)
Register(p, u, o) ==
  /\ ~org[o].exists
  /\ user[u].status = "none"
  /\ Begin(p, "tenant", [Idle EXCEPT !.op = "register", !.user = u, !.org = o])
  /\ UNCHANGED <<user, org, member, joined, access, sessionVars, invitation>>

(* ... and their unique indexes let one request in: the organization, its   *)
(* trial, the owner, a verification link and a session, in one transaction. *)
FoundOrganization(o, u) ==
  /\ org' = [org EXCEPT ![o] = [NoOrg EXCEPT !.exists = TRUE]]
  /\ user' = [user EXCEPT ![u] = NewUser(FALSE)]
  /\ Join(o, u, "owner", 0)

RegisterOrganization(p) ==
  LET u == call[p].user
      o == call[p].org
  IN /\ call[p].op = "register"
     /\ ~org[o].exists /\ user[u].status = "none"
     /\ FoundOrganization(o, u)
     /\ link' = Append(link, [user |-> u, purpose |-> "email_verification",
                              state |-> "usable"])
     /\ session' = Append(session, NewSession(u, Len(session) + 1, 0, 0))
     /\ access' = access \cup {[user |-> u, org |-> o, cut |-> 0]}
     /\ Settle(p, {})
     /\ UNCHANGED <<budget, challenge, spent, respent, overlapped, relinked,
                    invitation>>

-----------------------------------------------------------------------------
(* Invitations *)

Pending(i) == invitation[i].state = "pending" /\ ~invitation[i].expired

(* With the invitation read without a lock.                                 *)
HeldByNobody == {}

(* Rows an accept under way holds FOR UPDATE.                               *)
Held == {call[p].row : p \in {q \in Process : call[q].op = "accept"}}

OnInvitation(p, op, a, i) ==
  /\ Begin(p, "tenant", [Idle EXCEPT !.op = op, !.user = a,
                           !.org = invitation[i].org, !.row = i])
  /\ UNCHANGED <<user, org, member, joined, access, sessionVars, invitation>>

MayInvite(o, u, role) ==
  /\ role # "owner"
  /\ EnforceUserLimit(o)
  /\ ~IsMember(o, u)
  /\ \A i \in DOMAIN invitation :
       invitation[i].org = o /\ invitation[i].user = u => ~Pending(i)

CreateInvitation(p, a, o, u, role) ==
  /\ RequirePermission(o, a, "org.invitations.manage")
  /\ RequireVerifiedEmail(a)
  /\ MayInvite(o, u, role)
  /\ Begin(p, "tenant", [Idle EXCEPT !.op = "invite", !.user = u, !.org = o,
                           !.arg = role])
  /\ UNCHANGED <<user, org, member, joined, access, sessionVars, invitation>>

InsertInvitation(p) ==
  LET c == call[p]
  IN /\ c.op = "invite"
     /\ invitation' = Append(invitation,
          [org |-> c.org, user |-> c.user, role |-> c.arg, expired |-> FALSE,
           state |-> "pending"])
     /\ Settle(p, {})
     /\ UNCHANGED <<user, org, member, joined, access, budget, sessionVars>>

(* An expired invitation may be sent again.                                 *)
ResendInvitation(p, a, i) ==
  /\ RequirePermission(invitation[i].org, a, "org.invitations.manage")
  /\ RequireVerifiedEmail(a)
  /\ invitation[i].state = "pending"
  /\ OnInvitation(p, "resend", a, i)

RevokeInvitation(p, a, i) ==
  /\ RequirePermission(invitation[i].org, a, "org.invitations.manage")
  /\ invitation[i].state = "pending"
  /\ OnInvitation(p, "withdraw", a, i)

(* Both write by id, once the row is free, the columns they set and no      *)
(* others.                                                                  *)
UpdateInvitation(p) ==
  LET c == call[p]
      old == invitation[c.row]
  IN /\ c.op \in {"resend", "withdraw"}
     /\ c.row \notin Held
     /\ old.state # "gone"
     /\ invitation' = [invitation EXCEPT ![c.row] =
          IF c.op = "resend" THEN [old EXCEPT !.expired = FALSE]
          ELSE [old EXCEPT !.state = IF @ \in {"accepted", "both"} THEN "both"
                                                                  ELSE "revoked"]]
     /\ Settle(p, {})
     /\ UNCHANGED <<user, org, member, joined, access, budget, sessionVars>>

InvitationExpires(i) ==
  /\ Pending(i)
  /\ invitation' = [invitation EXCEPT ![i].expired = TRUE]
  /\ UNCHANGED <<tenancyVars, sessionVars>>

(* The invitation is locked; seats are counted and the account looked up    *)
(* without a lock.                                                          *)
MayAccept(i) ==
  LET o == invitation[i].org
      u == invitation[i].user
  IN /\ Pending(i)
     /\ i \notin Held
     /\ EnforceUserLimit(o)
     /\ ~IsMember(o, u)
     /\ user[u].status \in {"none", "active"}

(* num is 1 if an account has to be created.                                *)
AcceptInvitation(p, i) ==
  LET o == invitation[i].org
      u == invitation[i].user
  IN /\ MayAccept(i)
     /\ Begin(p, "tenant",
          [Idle EXCEPT !.op = "accept", !.user = u, !.org = o, !.row = i,
                       !.num = IF user[u].status = "none" THEN 1 ELSE 0])
     /\ UNCHANGED <<user, org, member, joined, access, sessionVars, invitation>>

(* The unique indexes of accounts and memberships refuse a second row.      *)
AdmitMember(p) ==
  LET c == call[p]
      u == c.user
  IN /\ c.op = "accept"
     /\ c.num = 1 => user[u].status = "none"
     /\ ~IsMember(c.org, u)
     /\ user' = [user EXCEPT ![u] = IF c.num = 1 THEN NewUser(TRUE)
                                    ELSE [@ EXCEPT !.verified = TRUE]]
     /\ Join(c.org, u, invitation[c.row].role, c.row)
     /\ invitation' = [invitation EXCEPT ![c.row].state = "accepted"]
     /\ Settle(p, OnOrg(c.org))
     /\ UNCHANGED <<org, access, budget, sessionVars>>

-----------------------------------------------------------------------------
(* Members *)

OnMember(p, op, a, o, u, arg) ==
  /\ IsMember(o, u)
  /\ Begin(p, "tenant", [Idle EXCEPT !.op = op, !.user = u, !.org = o,
                           !.row = member[o][u].id, !.arg = arg])
  /\ UNCHANGED <<user, org, member, joined, access, sessionVars, invitation>>

SetRole(p, a, o, u, role) ==
  /\ RequirePermission(o, a, "org.members.manage")
  /\ member[o][u].role # "owner"
  /\ role # "owner"
  /\ OnMember(p, "role", a, o, u, role)

RemoveMember(p, a, o, u) ==
  /\ RequirePermission(o, a, "org.members.manage")
  /\ member[o][u].role # "owner"
  /\ u # a
  /\ OnMember(p, "remove", a, o, u, "none")

(* The row that was read is written, or nothing if it was deleted since.    *)
UpdateMemberRole(p) ==
  LET c == call[p]
  IN /\ c.op = "role"
     /\ member[c.org][c.user].id = c.row
     /\ member' = [member EXCEPT ![c.org][c.user].role = c.arg]
     /\ Settle(p, {})
     /\ UNCHANGED <<user, org, joined, access, budget, sessionVars, invitation>>

DeleteMember(p) ==
  LET c == call[p]
  IN /\ c.op = "remove"
     /\ member[c.org][c.user].id = c.row
     /\ Leave(c.org, c.user)
     /\ Settle(p, {})
     /\ UNCHANGED <<user, org, joined, access, budget, sessionVars, invitation>>

(* The owner, for a member of no other organization.                        *)
ResetMemberMfa(p, a, o, u) ==
  /\ RequirePermission(o, a, "org.members.manage")
  /\ member[o][a].role = "owner"
  /\ u # a
  /\ \A q \in Org \ {o} : ~IsMember(q, u)
  /\ OnMember(p, "reset_mfa", a, o, u, "none")

(* The account is locked and read again.                                    *)
AdminResetMfa(p) ==
  LET u == call[p].user
  IN /\ call[p].op = "reset_mfa"
     /\ user[u].status = "active"
     /\ MfaEnabled(u)
     /\ user' = [user EXCEPT ![u] = [ClearMfa(user[u]) EXCEPT !.cut = @ + 1]]
     /\ session' = ClosedFor(u)
     /\ Settle(p, OnUser(u))
     /\ UNCHANGED <<org, member, joined, access, budget, link, challenge, spent,
                    respent, overlapped, relinked, invitation>>

-----------------------------------------------------------------------------
(* The policy, the plan and the end of a trial *)

(* To require a second factor the caller must have one, as the access check *)
(* found.                                                                   *)
UpdateSecurityPolicy(a, o, required) ==
  /\ RequirePermission(o, a, "org.update")
  /\ required => MfaEnabled(a)
  /\ Spend("tenant")
  /\ org' = [org EXCEPT ![o].mfaRequired = required]
  /\ org' # org
  /\ UNCHANGED <<user, member, joined, access, call, sessionVars, invitation>>

(* The plan is set without counting seats.                                  *)
PlanChanged(o, plan) ==
  org' = [org EXCEPT ![o].plan = plan, ![o].subscription = "active"]

(* By a platform administrator; a change to what it is already is no step.  *)
ChangePlan(o, plan) ==
  /\ org[o].exists
  /\ Spend("tenant")
  /\ PlanChanged(o, plan)
  /\ org' # org
  /\ Settle(None, OnOrg(o))
  /\ UNCHANGED <<user, member, joined, access, sessionVars, invitation>>

(* trial_ends_at passes.                                                    *)
TrialEnds(o) ==
  /\ org[o].exists
  /\ org[o].subscription = "trial"
  /\ Spend("tenant")
  /\ org' = [org EXCEPT ![o].subscription = "ended"]
  /\ Settle(None, OnOrg(o))
  /\ UNCHANGED <<user, member, joined, access, sessionVars, invitation>>

(* The scheduler writes it down.                                            *)
ExpireTrials ==
  LET ended == {o \in Org : org[o].subscription = "ended"}
  IN /\ ended # {}
     /\ org' = [o \in Org |-> IF o \in ended
                  THEN [org[o] EXCEPT !.subscription = "past_due"] ELSE org[o]]
     /\ UNCHANGED <<user, member, joined, access, call, budget, sessionVars,
                    invitation>>

-----------------------------------------------------------------------------
(* Erasure *)

(* The worker removes a member other than the owner, if still there, the    *)
(* invitations of the address that no accept holds, and closes the          *)
(* sessions; who is a member of no organization then is erased with links,  *)
(* challenges and sessions.  The request was for a member, who may have     *)
(* left or been erased since; the address of an erased account is gone.     *)
EraseUser(o, u) ==
  LET last == \A q \in Org \ {o} : ~IsMember(q, u)
      mine(t) == {i \in DOMAIN t : t[i].user = u}
      gone(t) == [i \in DOMAIN t |-> IF i \in mine(t)
                    THEN [t[i] EXCEPT !.state = "gone"] ELSE t[i]]
      invited == {i \in mine(invitation) : /\ invitation[i].org = o
                                           /\ user[u].status = "active"}
      row == [user[u] EXCEPT !.cut = @ + 1]
  IN /\ \E n \in DOMAIN joined : joined[n].org = o /\ joined[n].user = u
     /\ user[u].status # "none" /\ member[o][u].role # "owner"
     /\ invited \cap Held = {}
     /\ last => mine(link) \cap Locked = {}
     /\ Spend("tenant")
     /\ Leave(o, u)
     /\ invitation' = [i \in DOMAIN invitation |->
          IF i \in invited THEN [invitation[i] EXCEPT !.state = "gone"]
                           ELSE invitation[i]]
     /\ IF last
          THEN /\ user' = [user EXCEPT ![u] =
                    [ClearMfa(row) EXCEPT !.status = "erased", !.verified = FALSE]]
               /\ session' = gone(session)
               /\ link' = gone(link)
               /\ challenge' = gone(challenge)
          ELSE /\ user' = [user EXCEPT ![u] = row]
               /\ session' = ClosedFor(u)
               /\ UNCHANGED <<link, challenge>>
     /\ Settle(None, OnUser(u))
     /\ UNCHANGED <<org, joined, access, spent, respent, overlapped, relinked>>

-----------------------------------------------------------------------------
TenantStep ==
  \/ \E p \in Process :
       \/ \E u \in User, o \in Org : Register(p, u, o)
       \/ \E a, u \in User, o \in Org :
            \/ \E role \in Offered : \/ CreateInvitation(p, a, o, u, role)
                                     \/ SetRole(p, a, o, u, role)
            \/ RemoveMember(p, a, o, u)
            \/ ResetMemberMfa(p, a, o, u)
       \/ \E i \in DOMAIN invitation :
            \/ AcceptInvitation(p, i)
            \/ \E a \in User : ResendInvitation(p, a, i) \/ RevokeInvitation(p, a, i)
       \/ RegisterOrganization(p) \/ InsertInvitation(p) \/ UpdateInvitation(p)
       \/ AdmitMember(p) \/ UpdateMemberRole(p) \/ DeleteMember(p)
       \/ AdminResetMfa(p)
  \/ \E o \in Org :
       \/ \E a \in User, required \in BOOLEAN : UpdateSecurityPolicy(a, o, required)
       \/ \E plan \in Plan : ChangePlan(o, plan)
       \/ TrialEnds(o)
       \/ \E u \in User : EraseUser(o, u)
  \/ \E i \in DOMAIN invitation : InvitationExpires(i)
  \/ ExpireTrials

Next ==
  \/ AccountStep /\ UNCHANGED invitation
  \/ TenantStep
  \/ \E p \in Process : Abort(p) /\ UNCHANGED <<sessionVars, invitation>>

Spec == Init /\ [][Next]_vars

-----------------------------------------------------------------------------
(* Properties *)

TypeOK ==
  /\ TenancyTypeOK
  /\ SessionsTypeOK
  /\ invitation \in Seq(InvitationRow)

(* An invitation makes one membership, though its link can be opened by     *)
(* several requests at once and the member be removed in between.           *)
InvitationAdmitsOnce ==
  \A m, n \in DOMAIN joined :
     joined[m].by = joined[n].by /\ joined[m].by # 0 => m = n

(* A step that adds a member leaves the organization within its plan, and   *)
(* its subscription in force, unless another change of the organization's   *)
(* members or plan overtook the request.                                    *)
SeatsWithinPlan ==
  [][\A o \in Org :
       Seats(o)' > Seats(o) =>
         \/ org[o] = NoOrg
         \/ ~GrowthBlocked(o)' /\ WithinPlan(o, Seats(o))'
         \/ \E p \in Process : call[p].org = o /\ call[p].stale
                               /\ call'[p] = Idle]_<<org, member>>
=============================================================================
