----------------------------- MODULE TeamProofs ------------------------------
(***************************************************************************)
(* Proofs about TeamAccess, for any users, teams and handler slots.        *)
(***************************************************************************)
EXTENDS TeamSafety, TLAPS

\* Nothing to be wrong about in an empty database.
LEMMA InitIInv == Init => IInv
<1> SUFFICES ASSUME Init PROVE IInv
  OBVIOUS
<1>1. TypeOK
  BY DEF Init, TypeOK, Roles, Slot, Idle, NoRoles
<1>2. OwnerIsCreator /\ GrantsAreAuthorized
  BY DEF Init, OwnerIsCreator, GrantsAreAuthorized
<1>3. TokensNeverExceed /\ NamesAreUnique /\ SlotsAreCurrent
  BY DEF Init, TokensNeverExceed, NamesAreUnique, SlotsAreCurrent, Idle
<1> QED BY <1>1, <1>2, <1>3 DEF IInv

\* Slots go back to idle without touching what the others rely on.
LEMMA FreeKeeps ==
    ASSUME IInv, NEW s \in Slots, Free(s),
           UNCHANGED <<account, creator, role, grantor>>,
           tokens' \subseteq Token,
           \A t \in tokens', m \in Teams :
               t.roles[m] # "none" => role[m][t.user] = t.roles[m]
    PROVE  IInv'
<1>1. Idle \in Slot /\ Idle.pc = "idle" /\ Idle.team = NoTeam
  BY DEF Idle, Slot, NoRoles, Roles
<1>2. slot' \in [Slots -> Slot] /\ \A o \in Slots : slot'[o] = slot[o] \/ slot'[o] = Idle
  BY <1>1 DEF IInv, TypeOK, Free
<1>3. TypeOK' /\ OwnerIsCreator' /\ GrantsAreAuthorized' /\ TokensNeverExceed'
  BY <1>2 DEF IInv, TypeOK, OwnerIsCreator, GrantsAreAuthorized, TokensNeverExceed
<1>4. NamesAreUnique'
  <2> SUFFICES ASSUME NEW p \in Slots, slot'[p].pc \in {"member", "commit"}
               PROVE  /\ creator'[slot'[p].team] = NoUser
                      /\ \A o \in Slots \ {p} : slot'[o].team # slot'[p].team
    BY DEF NamesAreUnique
  <2>1. slot'[p] = slot[p] /\ slot[p].team \in Teams
    BY <1>1, <1>2 DEF IInv, SlotsAreCurrent
  <2>2. ASSUME NEW o \in Slots \ {p} PROVE slot'[o].team # slot'[p].team
    BY <1>2, <2>1, NobodyAssumption DEF IInv, NamesAreUnique, Idle
  <2> QED BY <2>1, <2>2 DEF IInv, NamesAreUnique
<1>5. SlotsAreCurrent'
  BY <1>1, <1>2 DEF IInv, SlotsAreCurrent
<1> QED BY <1>3, <1>4, <1>5 DEF IInv

\* A new account changes nobody's rights; its token has none.
LEMMA RegisterStep == ASSUME IInv, NEW s \in Slots, Register(s) PROVE IInv'
<1> PICK u \in Users \ account :
         /\ account' = account \cup {u}
         /\ Issue(u, NoRoles) \/ UNCHANGED tokens
  BY DEF Register
<1>1. [user |-> u, roles |-> NoRoles] \in Token
  BY DEF Token, NoRoles, Roles
<1>2. TypeOK'
  BY <1>1 DEF IInv, TypeOK, Register, Issue
<1>3. TokensNeverExceed'
  BY DEF IInv, TokensNeverExceed, Register, Issue, NoRoles
<1>4. OwnerIsCreator' /\ GrantsAreAuthorized' /\ NamesAreUnique' /\ SlotsAreCurrent'
  BY DEF IInv, Register, OwnerIsCreator, GrantsAreAuthorized, NamesAreUnique, SlotsAreCurrent
<1> QED BY <1>2, <1>3, <1>4 DEF IInv

\* The roles read are the roles there are.
LEMMA LoginRolesStep == ASSUME IInv, NEW s \in Slots, LoginRoles(s) PROVE IInv'
<1> PICK u \in account :
         slot' = [slot EXCEPT ![s] = [Idle EXCEPT !.pc = "login", !.user = u, !.roles = RolesOf(u)]]
  BY DEF LoginRoles
<1> DEFINE new == [Idle EXCEPT !.pc = "login", !.user = u, !.roles = RolesOf(u)]
<1>0. u \in Users /\ RolesOf(u) \in [Teams -> Roles] /\ \A m \in Teams : RolesOf(u)[m] = role[m][u]
  BY DEF RolesOf, IInv, TypeOK
<1>1. /\ new.pc = "login" /\ new.user = u /\ new.team = NoTeam /\ new.roles = RolesOf(u)
      /\ new \in Slot
  BY <1>0 DEF Idle, Slot
<1>2. /\ slot' \in [Slots -> Slot]
      /\ slot'[s] = new
      /\ \A o \in Slots \ {s} : slot'[o] = slot[o]
  BY <1>1 DEF IInv, TypeOK
<1> HIDE DEF new
<1>3. TypeOK' /\ OwnerIsCreator' /\ GrantsAreAuthorized' /\ TokensNeverExceed'
  BY <1>2 DEF IInv, LoginRoles, TypeOK, OwnerIsCreator, GrantsAreAuthorized, TokensNeverExceed
<1>4. NamesAreUnique'
  <2> SUFFICES ASSUME NEW p \in Slots, slot'[p].pc \in {"member", "commit"}
               PROVE  /\ creator'[slot'[p].team] = NoUser
                      /\ \A o \in Slots \ {p} : slot'[o].team # slot'[p].team
    BY DEF NamesAreUnique
  <2>1. slot'[p] = slot[p] /\ slot[p].team \in Teams
    BY <1>1, <1>2 DEF IInv, SlotsAreCurrent
  <2>2. ASSUME NEW o \in Slots \ {p} PROVE slot'[o].team # slot'[p].team
    BY <1>1, <1>2, <2>1, NobodyAssumption DEF IInv, NamesAreUnique
  <2> QED BY <2>1, <2>2 DEF IInv, NamesAreUnique, LoginRoles
<1>5. SlotsAreCurrent'
  <2> SUFFICES ASSUME NEW p \in Slots
               PROVE  /\ slot'[p].pc # "idle" => slot'[p].user \in Users
                      /\ IF slot'[p].pc \in {"member", "commit"} THEN slot'[p].team \in Teams
                                                                ELSE slot'[p].team = NoTeam
                      /\ slot'[p].pc = "login" =>
                           \A n \in Teams : slot'[p].roles[n] # "none" =>
                               role'[n][slot'[p].user] = slot'[p].roles[n]
    BY DEF SlotsAreCurrent
  <2>1. CASE p = s
    <3>1. /\ slot'[p].pc = "login" /\ slot'[p].user = u /\ slot'[p].team = NoTeam
          /\ slot'[p].roles = RolesOf(u)
      BY <1>1, <1>2, <2>1
    <3>2. role' = role
      BY DEF LoginRoles
    <3> QED BY <1>0, <3>1, <3>2
  <2>2. CASE p # s
    BY <1>2, <2>2 DEF IInv, SlotsAreCurrent, LoginRoles
  <2> QED BY <2>1, <2>2
<1> QED BY <1>3, <1>4, <1>5 DEF IInv

\* The token says what was read, which nothing has changed since.
LEMMA LoginTokenStep == ASSUME IInv, NEW s \in Slots, LoginToken(s) PROVE IInv'
<1>1. [user |-> slot[s].user, roles |-> slot[s].roles] \in Token
  BY DEF IInv, TypeOK, SlotsAreCurrent, LoginToken, Token, Slot
<1>2. tokens' \subseteq Token
  BY <1>1 DEF IInv, TypeOK, LoginToken, Issue
<1>3. ASSUME NEW t \in tokens', NEW m \in Teams, t.roles[m] # "none"
      PROVE  role[m][t.user] = t.roles[m]
  BY <1>3 DEF IInv, TokensNeverExceed, SlotsAreCurrent, LoginToken, Issue
<1> QED BY <1>2, <1>3, FreeKeeps DEF LoginToken

\* Fewer tokens, nothing else.
LEMMA ExpireStep == ASSUME IInv, Expire PROVE IInv'
<1>1. tokens' \subseteq tokens
  BY DEF Expire
<1> QED BY <1>1 DEF Expire, IInv, TypeOK, OwnerIsCreator, TokensNeverExceed,
           NamesAreUnique, GrantsAreAuthorized, SlotsAreCurrent

\* The name is nobody else's: neither a team's nor another transaction's.
LEMMA CreateTeamStep == ASSUME IInv, NEW s \in Slots, CreateTeam(s) PROVE IInv'
<1> PICK t \in tokens, m \in Teams :
         /\ creator[m] = NoUser /\ ~Held(m)
         /\ slot' = [slot EXCEPT ![s] = [Idle EXCEPT !.pc = "member", !.user = t.user, !.team = m]]
  BY DEF CreateTeam
<1> DEFINE new == [Idle EXCEPT !.pc = "member", !.user = t.user, !.team = m]
<1>1. /\ new.pc = "member" /\ new.user = t.user /\ new.team = m
      /\ new \in Slot /\ t.user \in Users
  BY DEF Idle, Slot, NoRoles, Roles, IInv, TypeOK, Token
<1>2. /\ slot' \in [Slots -> Slot]
      /\ slot'[s] = new
      /\ \A o \in Slots \ {s} : slot'[o] = slot[o]
  BY <1>1 DEF IInv, TypeOK
<1> HIDE DEF new
<1>3. TypeOK' /\ OwnerIsCreator' /\ GrantsAreAuthorized' /\ TokensNeverExceed'
  BY <1>2 DEF IInv, CreateTeam, TypeOK, OwnerIsCreator, GrantsAreAuthorized, TokensNeverExceed
<1>4. ASSUME NEW o \in Slots PROVE slot[o].team # m
  BY NobodyAssumption DEF IInv, SlotsAreCurrent, Held
<1>5. NamesAreUnique'
  <2> SUFFICES ASSUME NEW p \in Slots, slot'[p].pc \in {"member", "commit"}
               PROVE  /\ creator'[slot'[p].team] = NoUser
                      /\ \A o \in Slots \ {p} : slot'[o].team # slot'[p].team
    BY DEF NamesAreUnique
  <2>1. CASE p = s
    <3>1. slot'[p].team = m /\ creator' = creator
      BY <1>1, <1>2, <2>1 DEF CreateTeam
    <3>2. ASSUME NEW o \in Slots \ {p} PROVE slot'[o].team # m
      BY <1>2, <1>4, <2>1
    <3> QED BY <3>1, <3>2
  <2>2. CASE p # s
    <3>1. slot'[p] = slot[p] /\ slot[p].pc \in {"member", "commit"}
      BY <1>2, <2>2
    <3>2. ASSUME NEW o \in Slots \ {p} PROVE slot'[o].team # slot'[p].team
      BY <1>1, <1>2, <1>4, <3>1 DEF IInv, NamesAreUnique
    <3> QED BY <3>1, <3>2 DEF IInv, NamesAreUnique, CreateTeam
  <2> QED BY <2>1, <2>2
<1>6. SlotsAreCurrent'
  BY <1>1, <1>2 DEF IInv, CreateTeam, SlotsAreCurrent
<1> QED BY <1>3, <1>5, <1>6 DEF IInv

\* Only this slot's program counter moves.
LEMMA CreateMemberStep == ASSUME IInv, NEW s \in Slots, CreateMember(s) PROVE IInv'
<1>1. /\ slot' \in [Slots -> Slot]
      /\ slot'[s].pc = "commit" /\ slot'[s].user = slot[s].user /\ slot'[s].team = slot[s].team
      /\ \A o \in Slots \ {s} : slot'[o] = slot[o]
  BY DEF IInv, TypeOK, CreateMember, Slot
<1>2. TypeOK' /\ OwnerIsCreator' /\ GrantsAreAuthorized' /\ TokensNeverExceed'
  BY <1>1 DEF IInv, CreateMember, TypeOK, OwnerIsCreator, GrantsAreAuthorized, TokensNeverExceed
<1>3. /\ slot[s].pc = "member"
      /\ \A o \in Slots : slot'[o].team = slot[o].team
      /\ \A o \in Slots : slot'[o].pc \in {"member", "commit"} <=> slot[o].pc \in {"member", "commit"}
  BY <1>1 DEF CreateMember
<1>4. NamesAreUnique'
  BY <1>3 DEF IInv, CreateMember, NamesAreUnique
<1>5. SlotsAreCurrent'
  BY <1>1, <1>3 DEF IInv, CreateMember, SlotsAreCurrent
<1> QED BY <1>2, <1>4, <1>5 DEF IInv

\* The team had no members and no token or login knows of it; now it has its owner.
LEMMA CreateCommitStep == ASSUME IInv, NEW s \in Slots, CreateCommit(s) PROVE IInv'
<1> DEFINE m == slot[s].team
           u == slot[s].user
<1>1. /\ m \in Teams /\ u \in Users /\ u # NoUser
      /\ creator[m] = NoUser
      /\ \A v \in Users : role[m][v] = "none"
      /\ \A o \in Slots \ {s} : slot[o].team # m
  BY NobodyAssumption DEF IInv, CreateCommit, SlotsAreCurrent, NamesAreUnique, OwnerIsCreator
<1>2. /\ creator' \in [Teams -> Users \cup {NoUser}]
      /\ creator'[m] = u
      /\ \A n \in Teams \ {m} : creator'[n] = creator[n]
  BY <1>1 DEF IInv, TypeOK, CreateCommit
<1>3. /\ role' \in [Teams -> [Users -> Roles]]
      /\ role'[m][u] = "owner"
      /\ \A v \in Users \ {u} : role'[m][v] = "none"
      /\ \A n \in Teams \ {m} : role'[n] = role[n]
  BY <1>1 DEF IInv, TypeOK, CreateCommit, Roles
<1>4. /\ grantor' \in [Teams -> [Users -> Users \cup {NoUser}]]
      /\ grantor'[m][u] = u
      /\ \A n \in Teams \ {m} : grantor'[n] = grantor[n]
  BY <1>1 DEF IInv, TypeOK, CreateCommit
<1>5. Idle \in Slot /\ Idle.pc = "idle" /\ Idle.team = NoTeam
  BY DEF Idle, Slot, NoRoles, Roles
<1>6. /\ slot' \in [Slots -> Slot]
      /\ slot'[s] = Idle
      /\ \A o \in Slots \ {s} : slot'[o] = slot[o]
  BY <1>5 DEF IInv, TypeOK, CreateCommit, Free
<1>7. UNCHANGED <<account, tokens>>
  BY DEF CreateCommit
<1> HIDE DEF m, u
<1>8. TypeOK'
  BY <1>2, <1>3, <1>4, <1>6, <1>7 DEF IInv, TypeOK
<1>9. OwnerIsCreator'
  <2> SUFFICES ASSUME NEW n \in Teams
               PROVE  /\ {v \in Users : role'[n][v] = "owner"} = {creator'[n]} \ {NoUser}
                      /\ creator'[n] = NoUser => \A v \in Users : role'[n][v] = "none"
    BY DEF OwnerIsCreator
  <2>1. CASE n = m
    BY <1>1, <1>2, <1>3, <2>1
  <2>2. CASE n # m
    BY <1>2, <1>3, <2>2 DEF IInv, OwnerIsCreator
  <2> QED BY <2>1, <2>2
<1>10. TokensNeverExceed'
  <2> SUFFICES ASSUME NEW t \in tokens, NEW n \in Teams, t.roles[n] # "none"
               PROVE  role'[n][t.user] = t.roles[n]
    BY <1>7 DEF TokensNeverExceed
  <2>1. role[n][t.user] = t.roles[n] /\ t.user \in Users
    BY DEF IInv, TokensNeverExceed, TypeOK, Token
  <2> QED BY <1>1, <1>3, <2>1
<1>11. GrantsAreAuthorized'
  <2> SUFFICES ASSUME NEW n \in Teams, NEW v \in Users
               PROVE  /\ role'[n][v] = "owner" => grantor'[n][v] = v
                      /\ role'[n][v] = "admin" => grantor'[n][v] = creator'[n]
                      /\ role'[n][v] = "member" =>
                            /\ grantor'[n][v] \in Users
                            /\ role'[n][grantor'[n][v]] \in {"owner", "admin"}
    BY DEF GrantsAreAuthorized
  <2>1. CASE n = m
    BY <1>3, <1>4, <2>1
  <2>2. CASE n # m
    BY <1>2, <1>3, <1>4, <2>2 DEF IInv, GrantsAreAuthorized
  <2> QED BY <2>1, <2>2
<1>12. NamesAreUnique'
  <2> SUFFICES ASSUME NEW p \in Slots, slot'[p].pc \in {"member", "commit"}
               PROVE  /\ creator'[slot'[p].team] = NoUser
                      /\ \A o \in Slots \ {p} : slot'[o].team # slot'[p].team
    BY DEF NamesAreUnique
  <2>1. p # s /\ slot'[p] = slot[p] /\ slot[p].team \in Teams
    BY <1>5, <1>6 DEF IInv, SlotsAreCurrent
  <2>2. ASSUME NEW o \in Slots \ {p} PROVE slot'[o].team # slot'[p].team
    BY <1>5, <1>6, <2>1, NobodyAssumption DEF IInv, NamesAreUnique
  <2> QED BY <1>1, <1>2, <2>1, <2>2 DEF IInv, NamesAreUnique
<1>13. SlotsAreCurrent'
  <2> SUFFICES ASSUME NEW p \in Slots
               PROVE  /\ slot'[p].pc # "idle" => slot'[p].user \in Users
                      /\ IF slot'[p].pc \in {"member", "commit"} THEN slot'[p].team \in Teams
                                                                ELSE slot'[p].team = NoTeam
                      /\ slot'[p].pc = "login" =>
                           \A n \in Teams : slot'[p].roles[n] # "none" =>
                               role'[n][slot'[p].user] = slot'[p].roles[n]
    BY DEF SlotsAreCurrent
  <2>1. CASE p = s
    BY <1>5, <1>6, <2>1
  <2>2. CASE p # s
    BY <1>1, <1>3, <1>6, <2>2 DEF IInv, SlotsAreCurrent
  <2> QED BY <2>1, <2>2
<1> QED BY <1>8, <1>9, <1>10, <1>11, <1>12, <1>13 DEF IInv

\* The error frees the slot.
LEMMA FailStep == ASSUME IInv, NEW s \in Slots, Fail(s) PROVE IInv'
BY FreeKeeps DEF Fail, IInv, TypeOK, TokensNeverExceed

\* Only somebody who may, only to somebody who was nothing in the team.
LEMMA InviteStep == ASSUME IInv, NEW s \in Slots, Invite(s) PROVE IInv'
<1> PICK t \in tokens, m \in Teams, u \in account, new \in {"admin", "member"} :
         /\ MayGrant(m, t.user, new)
         /\ NotYetMember(m, u)
         /\ role' = [role EXCEPT ![m][u] = new]
         /\ grantor' = [grantor EXCEPT ![m][u] = t.user]
  BY DEF Invite
<1>1. /\ u \in Users /\ t.user \in Users /\ role[m][u] = "none"
      /\ role[m][t.user] \in {"owner", "admin"}
      /\ new = "admin" => role[m][t.user] = "owner"
      /\ u # t.user
  BY DEF IInv, TypeOK, Token, NotYetMember, MayGrant
<1>2. /\ role' \in [Teams -> [Users -> Roles]]
      /\ role'[m][u] = new
      /\ \A v \in Users \ {u} : role'[m][v] = role[m][v]
      /\ \A n \in Teams \ {m} : role'[n] = role[n]
  BY <1>1 DEF IInv, TypeOK, Roles
<1>3. /\ grantor' \in [Teams -> [Users -> Users \cup {NoUser}]]
      /\ grantor'[m][u] = t.user
      /\ \A v \in Users \ {u} : grantor'[m][v] = grantor[m][v]
      /\ \A n \in Teams \ {m} : grantor'[n] = grantor[n]
  BY <1>1 DEF IInv, TypeOK
<1>4. UNCHANGED <<account, creator, tokens, slot>>
  BY DEF Invite
<1>5. \A n \in Teams, v \in Users : role[n][v] # "none" => role'[n][v] = role[n][v]
  BY <1>1, <1>2
<1>6. {v \in Users : role[m][v] = "owner"} = {creator[m]} \ {NoUser} /\ creator[m] # NoUser
  BY <1>1 DEF IInv, OwnerIsCreator
<1>7. TypeOK'
  BY <1>2, <1>3, <1>4 DEF IInv, TypeOK
<1>8. OwnerIsCreator'
  <2> SUFFICES ASSUME NEW n \in Teams
               PROVE  /\ {v \in Users : role'[n][v] = "owner"} = {creator[n]} \ {NoUser}
                      /\ creator[n] = NoUser => \A v \in Users : role'[n][v] = "none"
    BY <1>4 DEF OwnerIsCreator
  <2>1. CASE n = m
    <3>1. \A v \in Users : role'[m][v] = "owner" <=> role[m][v] = "owner"
      BY <1>1, <1>2
    <3> QED BY <1>6, <2>1, <3>1
  <2>2. CASE n # m
    BY <1>2, <2>2 DEF IInv, OwnerIsCreator
  <2> QED BY <2>1, <2>2
<1>9. TokensNeverExceed'
  BY <1>4, <1>5 DEF IInv, TokensNeverExceed, TypeOK, Token
<1>10. NamesAreUnique'
  BY <1>4 DEF IInv, NamesAreUnique
<1>11. GrantsAreAuthorized'
  <2> SUFFICES ASSUME NEW n \in Teams, NEW v \in Users
               PROVE  /\ role'[n][v] = "owner" => grantor'[n][v] = v
                      /\ role'[n][v] = "admin" => grantor'[n][v] = creator[n]
                      /\ role'[n][v] = "member" =>
                            /\ grantor'[n][v] \in Users
                            /\ role'[n][grantor'[n][v]] \in {"owner", "admin"}
    BY <1>4 DEF GrantsAreAuthorized
  <2>1. CASE n = m /\ v = u
    BY <1>1, <1>2, <1>3, <1>6, <2>1
  <2>2. CASE n # m \/ v # u
    BY <1>2, <1>3, <1>5, <2>2 DEF IInv, GrantsAreAuthorized
  <2> QED BY <2>1, <2>2
<1>12. SlotsAreCurrent'
  BY <1>4, <1>5 DEF IInv, SlotsAreCurrent
<1> QED BY <1>7, <1>8, <1>9, <1>10, <1>11, <1>12 DEF IInv

LEMMA NextIInv == IInv /\ [Next]_vars => IInv'
<1> SUFFICES ASSUME IInv, [Next]_vars PROVE IInv'
  OBVIOUS
<1>1. CASE UNCHANGED vars
  BY <1>1 DEF vars, IInv, TypeOK, OwnerIsCreator, TokensNeverExceed, NamesAreUnique,
              GrantsAreAuthorized, SlotsAreCurrent
<1>2. CASE Expire
  BY <1>2, ExpireStep
<1>3. ASSUME NEW s \in Slots,
             \/ Register(s) \/ LoginRoles(s) \/ LoginToken(s) \/ Invite(s)
             \/ CreateTeam(s) \/ CreateMember(s) \/ CreateCommit(s) \/ Fail(s)
      PROVE  IInv'
  BY <1>3, RegisterStep, LoginRolesStep, LoginTokenStep, InviteStep,
     CreateTeamStep, CreateMemberStep, CreateCommitStep, FailStep
<1> QED BY <1>1, <1>2, <1>3 DEF Next

\* What the slots know, the tokens say and the tables hold agree in every
\* reachable state, for any number of users, teams and requests under way.
THEOREM Inductive == Spec => []IInv
<1>1. Init => IInv
  BY InitIInv
<1>2. IInv /\ [Next]_vars => IInv'
  BY NextIInv
<1> QED BY <1>1, <1>2, PTL DEF Spec

\* A role in a token is the role its user has in the database: a stale token
\* lacks roles, it never has one too many.
THEOREM TokensTellTheTruth == Spec => []TokensNeverExceed
<1>1. IInv => TokensNeverExceed
  BY DEF IInv
<1> QED BY <1>1, Inductive, PTL

\* A team has one owner, its creator.
THEOREM OneOwner == Spec => []OwnerIsCreator
<1>1. IInv => OwnerIsCreator
  BY DEF IInv
<1> QED BY <1>1, Inductive, PTL

\* Two transactions under way never create the same team.
THEOREM NoTeamTwice == Spec => []NamesAreUnique
<1>1. IInv => NamesAreUnique
  BY DEF IInv
<1> QED BY <1>1, Inductive, PTL

\* Nobody is in a team but by the right of an owner or an admin.
THEOREM NobodyLetsThemselvesIn == Spec => []GrantsAreAuthorized
<1>1. IInv => GrantsAreAuthorized
  BY DEF IInv
<1> QED BY <1>1, Inductive, PTL

-----------------------------------------------------------------------------
(* TeamAccess implements Membership.  The commit of a creation founds the   *)
(* team, the INSERT of an invitation admits; everything else stutters.      *)

\* Who holds a token, has a request under way or is in a team has registered.
Registered ==
    /\ \A t \in tokens : t.user \in account
    /\ \A s \in Slots : slot[s].pc # "idle" => slot[s].user \in account
    /\ \A m \in Teams, u \in Users : role[m][u] # "none" => u \in account

\* Accounts only become more; what is new in a step belongs to one of them.
LEMMA RegisteredStep ==
    ASSUME IInv, Registered, [Next]_vars
    PROVE  Registered'
<1>1. account \subseteq account'
  BY DEF Next, vars, Register, LoginRoles, LoginToken, Invite, CreateTeam, CreateMember,
         CreateCommit, Fail, Expire
<1>2. slot \in [Slots -> Slot] /\ role \in [Teams -> [Users -> Roles]] /\ tokens \subseteq Token
  BY DEF IInv, TypeOK
<1>3. ASSUME NEW t \in tokens' PROVE t.user \in account'
  <2>1. CASE t \in tokens
    BY <1>1, <2>1 DEF Registered
  <2>2. CASE t \notin tokens
    <3>1. PICK s \in Slots : Register(s) \/ LoginToken(s)
      BY <2>2 DEF Next, vars, LoginRoles, Invite, CreateTeam, CreateMember, CreateCommit,
                  Fail, Expire
    <3>2. CASE Register(s)
      BY <2>2, <3>2 DEF Register, Issue
    <3>3. CASE LoginToken(s)
      <4>1. t.user = slot[s].user /\ slot[s].pc = "login"
        BY <2>2, <3>3 DEF LoginToken, Issue
      <4> QED BY <1>1, <4>1 DEF Registered
    <3> QED BY <3>1, <3>2, <3>3
  <2> QED BY <2>1, <2>2
<1>4. ASSUME NEW p \in Slots, slot'[p].pc # "idle" PROVE slot'[p].user \in account'
  <2>1. CASE slot'[p].user = slot[p].user /\ slot[p].pc # "idle"
    BY <1>1, <2>1 DEF Registered
  <2>2. CASE ~(slot'[p].user = slot[p].user /\ slot[p].pc # "idle")
    <3>1. slot' # slot
      BY <1>4, <2>2
    <3>2. PICK s \in Slots : LoginRoles(s) \/ CreateTeam(s) \/ CreateMember(s) \/ Free(s)
      BY <3>1 DEF Next, vars, Register, LoginToken, Invite, CreateCommit, Fail, Expire
    <3>3. CASE LoginRoles(s)
      <4>1. PICK u \in account :
               slot' = [slot EXCEPT ![s] = [Idle EXCEPT !.pc = "login", !.user = u, !.roles = RolesOf(u)]]
        BY <3>3 DEF LoginRoles
      <4>2. p # s => slot'[p] = slot[p]
        BY <1>2, <4>1
      <4>3. p = s => slot'[p].user = u
        BY <1>2, <4>1 DEF Idle
      <4> QED BY <1>1, <1>4, <2>2, <4>2, <4>3
    <3>4. CASE CreateTeam(s)
      <4>1. PICK t \in tokens, m \in Teams :
               slot' = [slot EXCEPT ![s] = [Idle EXCEPT !.pc = "member", !.user = t.user, !.team = m]]
        BY <3>4 DEF CreateTeam
      <4>2. p # s => slot'[p] = slot[p]
        BY <1>2, <4>1
      <4>3. p = s => slot'[p].user = t.user
        BY <1>2, <4>1 DEF Idle
      <4>4. t.user \in account
        BY DEF Registered
      <4> QED BY <1>1, <1>4, <2>2, <4>2, <4>3, <4>4
    <3>5. CASE CreateMember(s)
      <4>1. slot[s].pc = "member" /\ slot' = [slot EXCEPT ![s].pc = "commit"]
        BY <3>5 DEF CreateMember
      <4>2. p # s => slot'[p] = slot[p]
        BY <1>2, <4>1
      <4>3. p = s => slot'[p].user = slot[p].user /\ slot[p].pc # "idle"
        BY <1>2, <4>1 DEF Slot
      <4> QED BY <1>4, <2>2, <4>2, <4>3
    <3>6. CASE Free(s)
      <4>1. slot' = [slot EXCEPT ![s] = Idle] /\ Idle.pc = "idle"
        BY <3>6 DEF Free, Idle
      <4>2. slot'[p] = slot[p]
        BY <1>2, <1>4, <4>1
      <4> QED BY <1>4, <2>2, <4>2
    <3> QED BY <3>2, <3>3, <3>4, <3>5, <3>6
  <2> QED BY <2>1, <2>2
<1>5. ASSUME NEW m \in Teams, NEW u \in Users, role'[m][u] # "none" PROVE u \in account'
  <2>1. CASE role[m][u] # "none"
    BY <1>1, <2>1 DEF Registered
  <2>2. CASE role[m][u] = "none"
    <3>1. PICK s \in Slots : CreateCommit(s) \/ Invite(s)
      BY <1>5, <2>2 DEF Next, vars, Register, LoginRoles, LoginToken, CreateTeam, CreateMember,
                        Fail, Expire
    <3>2. CASE CreateCommit(s)
      <4>1. slot[s].pc # "idle" /\ role' = [role EXCEPT ![slot[s].team][slot[s].user] = "owner"]
        BY <3>2 DEF CreateCommit
      <4>2. u = slot[s].user
        BY <1>2, <1>5, <2>2, <4>1
      <4> QED BY <1>1, <4>1, <4>2 DEF Registered
    <3>3. CASE Invite(s)
      <4>1. PICK n \in Teams, v \in account, new \in {"admin", "member"} :
              role' = [role EXCEPT ![n][v] = new]
        BY <3>3 DEF Invite
      <4>2. u = v
        BY <1>2, <1>5, <2>2, <4>1
      <4> QED BY <1>1, <4>2
    <3> QED BY <3>1, <3>2, <3>3
  <2> QED BY <2>1, <2>2
<1> QED BY <1>3, <1>4, <1>5 DEF Registered

\* COMMIT publishes a team nobody else holds, with its one member.
LEMMA CommitFounds == ASSUME IInv, Registered, NEW s \in Slots, CreateCommit(s) PROVE Tables!Found
<1> DEFINE m == slot[s].team
           u == slot[s].user
<1>1. m \in Teams /\ u \in account /\ u \in Users /\ creator[m] = NoUser
  BY DEF CreateCommit, IInv, SlotsAreCurrent, NamesAreUnique, Registered
<1>2. /\ creator' = [creator EXCEPT ![m] = u]
      /\ role' = [role EXCEPT ![m][u] = "owner"]
      /\ account' = account
  BY DEF CreateCommit
<1>3. \A v \in Users : role[m][v] = "none"
  BY <1>1 DEF IInv, OwnerIsCreator
<1>4. role \in [Teams -> [Users -> Roles]]
  BY DEF IInv, TypeOK
<1> HIDE DEF m, u
<1>5. [role[m] EXCEPT ![u] = "owner"] = [v \in Users |-> IF v = u THEN "owner" ELSE "none"]
  BY <1>1, <1>3, <1>4
<1>6. role' = [role EXCEPT ![m] = [v \in Users |-> IF v = u THEN "owner" ELSE "none"]]
  BY <1>1, <1>2, <1>4, <1>5
<1> QED BY <1>1, <1>2, <1>6 DEF Tables!Found

\* The EXISTS of the INSERT looks at the rights of that moment.
LEMMA InviteAdmits == ASSUME IInv, Registered, NEW s \in Slots, Invite(s) PROVE Tables!Admit
<1>1. PICK t \in tokens, m \in Teams, u \in account, new \in {"admin", "member"} :
         /\ MayGrant(m, t.user, new)
         /\ NotYetMember(m, u)
         /\ role' = [role EXCEPT ![m][u] = new]
  BY DEF Invite
<1>2. t.user \in account /\ t.user \in Users
  BY DEF Registered, IInv, TypeOK, Token
<1>3. role[m][t.user] = "owner" => t.user = creator[m]
  BY <1>2 DEF IInv, OwnerIsCreator
<1>4. Tables!MayAdmit(t.user, m, new)
  BY <1>1, <1>3 DEF MayGrant, Tables!MayAdmit
<1>5. UNCHANGED <<account, creator>>
  BY DEF Invite
<1> QED BY <1>1, <1>2, <1>4, <1>5 DEF NotYetMember, Tables!Admit

LEMMA StepsAreMembershipSteps ==
    IInv /\ Registered /\ [Next]_vars => [Tables!Next]_(Tables!tables)
<1> SUFFICES ASSUME IInv, Registered, [Next]_vars PROVE [Tables!Next]_(Tables!tables)
  OBVIOUS
<1>1. ASSUME NEW s \in Slots, Register(s) PROVE Tables!Next
  BY <1>1 DEF Register, Tables!Register, Tables!Next
<1>2. ASSUME NEW s \in Slots, CreateCommit(s) PROVE Tables!Next
  BY <1>2, CommitFounds DEF Tables!Next
<1>3. ASSUME NEW s \in Slots, Invite(s) PROVE Tables!Next
  BY <1>3, InviteAdmits DEF Tables!Next
<1>4. CASE UNCHANGED <<account, creator, role>>
  BY <1>4 DEF Tables!tables
<1> QED BY <1>1, <1>2, <1>3, <1>4 DEF Next, vars, LoginRoles, LoginToken, CreateTeam,
           CreateMember, Fail, Expire

\* To the rest of the service, teams are what Membership says: no request, token or
\* transaction is to be seen in the tables.
THEOREM ImplementsMembership == Spec => MembershipSpec
<1>1. Init => Tables!Init
  BY DEF Init, Tables!Init
<1>2. Init => Registered
  BY DEF Init, Registered, Idle
<1>3. IInv /\ Registered /\ [Next]_vars => Registered'
  BY RegisteredStep
<1>4. IInv /\ Registered /\ [Next]_vars => [Tables!Next]_(Tables!tables)
  BY StepsAreMembershipSteps
<1> QED BY <1>1, <1>2, <1>3, <1>4, Inductive, PTL DEF Spec, MembershipSpec, Tables!Spec
=============================================================================
