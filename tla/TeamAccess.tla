----------------------------- MODULE TeamAccess ------------------------------
(***************************************************************************)
(* Accounts, teams, roles and tokens: POST /register, /login, /teams and   *)
(* /teams/{id}/invite.  A token carries the roles its user had when they   *)
(* were read at login; it is believed until it expires, and the database   *)
(* checks again.  A handler slot runs one request at a time; a request     *)
(* that is refused leaves no trace.                                        *)
(***************************************************************************)
CONSTANTS Users, Teams, Slots, NoUser, NoTeam

ASSUME NobodyAssumption == NoUser \notin Users /\ NoTeam \notin Teams

VARIABLES
    account,         \* users: who has registered
    creator,         \* teams: creator[team], NoUser for a team that does not exist
    role,            \* team_members: role[team][user]
    grantor,         \* auxiliary: grantor[team][user] whose request gave the role
    tokens,          \* the tokens out there
    slot             \* the requests under way

vars == <<account, creator, role, grantor, tokens, slot>>

-----------------------------------------------------------------------------
Roles == {"none", "owner", "admin", "member"}
Token == [user: Users, roles: [Teams -> Roles]]

\* member: the transaction has inserted the row of the owner, too.
Slot == [pc: {"idle", "login", "member", "commit"}, user: Users \cup {NoUser},
         team: Teams \cup {NoTeam}, roles: [Teams -> Roles]]

NoRoles == [m \in Teams |-> "none"]
Idle == [pc |-> "idle", user |-> NoUser, team |-> NoTeam, roles |-> NoRoles]

Init ==
    /\ account = {}
    /\ creator = [m \in Teams |-> NoUser]
    /\ role = [m \in Teams |-> [u \in Users |-> "none"]]
    /\ grantor = [m \in Teams |-> [u \in Users |-> NoUser]]
    /\ tokens = {}
    /\ slot = [s \in Slots |-> Idle]

Issue_ZeroUser(u, roles) == tokens' = tokens \cup {[user |-> NoUser, roles |-> roles]}

Issue(u, roles) == tokens' = tokens \cup {[user |-> u, roles |-> roles]}

\* The answer, whichever, frees the slot.
Free(s) == slot' = [slot EXCEPT ![s] = Idle]

-----------------------------------------------------------------------------
(* POST /register, POST /login                                             *)

\* The e-mail is unique; the token of a new user carries no roles.  The last
\* disjunct: the account is there, its token got lost.
Register(s) ==
    /\ slot[s].pc = "idle"
    /\ \E u \in Users \ account :
         /\ account' = account \cup {u}
         /\ Issue(u, NoRoles) \/ UNCHANGED tokens
    /\ UNCHANGED <<creator, role, grantor, slot>>

RolesOf_AnyMember(u) ==
    [m \in Teams |-> IF \E v \in Users : role[m][v] = "admin" THEN "admin" ELSE role[m][u]]

\* storage.GetRoles
RolesOf(u) == [m \in Teams |-> role[m][u]]

\* The user and the password are right; the roles are read.
LoginRoles(s) ==
    /\ slot[s].pc = "idle"
    /\ \E u \in account :
         slot' = [slot EXCEPT ![s] = [Idle EXCEPT !.pc = "login", !.user = u, !.roles = RolesOf(u)]]
    /\ UNCHANGED <<account, creator, role, grantor, tokens>>

\* Meanwhile the roles may have become more.
LoginToken(s) ==
    /\ slot[s].pc = "login"
    /\ Issue(slot[s].user, slot[s].roles)
    /\ Free(s)
    /\ UNCHANGED <<account, creator, role, grantor>>

\* claims.Validate refuses the token from now on.
Expire ==
    /\ \E t \in tokens : tokens' = tokens \ {t}
    /\ UNCHANGED <<account, creator, role, grantor, slot>>

-----------------------------------------------------------------------------
(* POST /teams                                                             *)

Held_Ignored(m) == FALSE

\* The unique name of team m is held by an open transaction: an INSERT waits.
Held(m) == \E s \in Slots : slot[s].pc \in {"member", "commit"} /\ slot[s].team = m

\* INSERT INTO teams; an existing name is a conflict.
CreateTeam(s) ==
    /\ slot[s].pc = "idle"
    /\ \E t \in tokens, m \in Teams :
         /\ creator[m] = NoUser /\ ~Held(m)
         /\ slot' = [slot EXCEPT ![s] = [Idle EXCEPT !.pc = "member", !.user = t.user, !.team = m]]
    /\ UNCHANGED <<account, creator, role, grantor, tokens>>

CreateMember_BeforeCommit(s) ==
    /\ slot[s].pc = "member"
    /\ creator' = [creator EXCEPT ![slot[s].team] = slot[s].user]
    /\ slot' = [slot EXCEPT ![s].pc = "commit"]
    /\ UNCHANGED <<account, role, grantor, tokens>>

\* AddMember inside the transaction: nobody's rights are asked for.
CreateMember(s) ==
    /\ slot[s].pc = "member"
    /\ slot' = [slot EXCEPT ![s].pc = "commit"]
    /\ UNCHANGED <<account, creator, role, grantor, tokens>>

\* The row of the team and the row of its owner become visible together.
CreateCommit(s) ==
    /\ slot[s].pc = "commit"
    /\ creator' = [creator EXCEPT ![slot[s].team] = slot[s].user]
    /\ role' = [role EXCEPT ![slot[s].team][slot[s].user] = "owner"]
    /\ grantor' = [grantor EXCEPT ![slot[s].team][slot[s].user] = slot[s].user]
    /\ Free(s)
    /\ UNCHANGED <<account, tokens>>

\* An error of the database or the context: rolled back, no answer but an error.
Fail(s) ==
    /\ slot[s].pc # "idle"
    /\ Free(s)
    /\ UNCHANGED <<account, creator, role, grantor, tokens>>

-----------------------------------------------------------------------------
(* POST /teams/{id}/invite                                                 *)

\* What the token must say before the database is asked.
TokenMayInvite(t, m) == t.roles[m] \in {"owner", "admin"}

MayGrant_AnyRole(m, by, new) == role[m][by] \in {"owner", "admin"}

\* The EXISTS of storage.AddMember.
MayGrant(m, by, new) ==
    \/ role[m][by] = "owner" /\ new \in {"member", "admin"}
    \/ role[m][by] = "admin" /\ new = "member"

NotYetMember_Upsert(m, u) == role[m][u] # "owner"

\* The primary key: a second row for a member is a conflict.
NotYetMember(m, u) == role[m][u] = "none"

\* One statement, in a transaction of its own.
Invite(s) ==
    /\ slot[s].pc = "idle"
    /\ \E t \in tokens, m \in Teams, u \in account, new \in {"admin", "member"} :
         /\ TokenMayInvite(t, m)
         /\ MayGrant(m, t.user, new)
         /\ NotYetMember(m, u)
         /\ role' = [role EXCEPT ![m][u] = new]
         /\ grantor' = [grantor EXCEPT ![m][u] = t.user]
    /\ UNCHANGED <<account, creator, tokens, slot>>

-----------------------------------------------------------------------------
Next ==
    \/ \E s \in Slots :
         \/ Register(s) \/ LoginRoles(s) \/ LoginToken(s) \/ Invite(s)
         \/ CreateTeam(s) \/ CreateMember(s) \/ CreateCommit(s) \/ Fail(s)
    \/ Expire

Spec == Init /\ [][Next]_vars
=============================================================================
