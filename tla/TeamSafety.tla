----------------------------- MODULE TeamSafety ------------------------------
(* What accounts, teams, roles and tokens must satisfy.                    *)
EXTENDS TeamAccess

\* Every part of the state keeps its form.
TypeOK ==
    /\ account \subseteq Users
    /\ creator \in [Teams -> Users \cup {NoUser}]
    /\ role \in [Teams -> [Users -> Roles]]
    /\ grantor \in [Teams -> [Users -> Users \cup {NoUser}]]
    /\ tokens \subseteq Token
    /\ slot \in [Slots -> Slot]

\* A team has exactly one owner, the one who created it, from the moment it can
\* be seen, and a team that is not there has no members: teams.Create's two
\* INSERTs are one transaction, and nobody is invited as owner.
OwnerIsCreator ==
    \A m \in Teams :
        /\ {u \in Users : role[m][u] = "owner"} = {creator[m]} \ {NoUser}
        /\ creator[m] = NoUser => \A u \in Users : role[m][u] = "none"

\* Tokens may be stale only by what they lack: a role in a token is the role its
\* user has now.  This is what lets GET /tasks answer from the cache on the
\* token's word alone.  It stands on the code having no operation for the removals
\* and demotions of README.md:135.
TokensNeverExceed ==
    \A t \in tokens, m \in Teams : t.roles[m] # "none" => role[m][t.user] = t.roles[m]

\* Two open transactions never create the same team, nor one that exists.
NamesAreUnique ==
    \A s \in Slots : slot[s].pc \in {"member", "commit"} =>
        /\ creator[slot[s].team] = NoUser
        /\ \A o \in Slots \ {s} : slot[o].team # slot[s].team

\* Whoever is in a team founded it or was let in by a member entitled to give
\* exactly that role: admins by the owner, members by the owner or an admin.
GrantsAreAuthorized ==
    \A m \in Teams, u \in Users :
        LET by == grantor[m][u] IN
        /\ role[m][u] = "owner" => by = u
        /\ role[m][u] = "admin" => by = creator[m]
        /\ role[m][u] = "member" => by \in Users /\ role[m][by] \in {"owner", "admin"}

\* What a slot has read or written so far is still right.
SlotsAreCurrent ==
    \A s \in Slots :
        /\ slot[s].pc # "idle" => slot[s].user \in Users
        /\ IF slot[s].pc \in {"member", "commit"} THEN slot[s].team \in Teams
                                                 ELSE slot[s].team = NoTeam
        /\ slot[s].pc = "login" =>
             \A m \in Teams : slot[s].roles[m] # "none" =>
                 role[m][slot[s].user] = slot[s].roles[m]

\* The inductive invariant: a token is made of what a login has read, and a team
\* of what a transaction holds.
IInv ==
    /\ TypeOK
    /\ OwnerIsCreator
    /\ TokensNeverExceed
    /\ NamesAreUnique
    /\ GrantsAreAuthorized
    /\ SlotsAreCurrent

\* What the other components may take teams for: the tables change as Membership
\* says, whatever tokens of whatever age are used, whichever transactions race or
\* fail.  Tokens, slots and the record of grants are hidden.
Tables == INSTANCE Membership WITH account <- account, creator <- creator, role <- role
MembershipSpec == Tables!Spec
=============================================================================
