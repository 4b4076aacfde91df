\* An owner, admins, members and a stranger may come up in one team.
SPECIFICATION Spec
CONSTANTS
    Users = {u1, u2, u3}
    Teams = {m1}
    Slots = {s1, s2}
    NoUser = NoUser
    NoTeam = NoTeam
INVARIANTS
    OwnerIsCreator
    TokensNeverExceed
    GrantsAreAuthorized
    IInv
PROPERTIES
    MembershipSpec
