\* Three requests of two users on one task of one team.
SPECIFICATION Spec
CONSTANTS
    Users = {u1, u2}
    Teams = {team}
    TaskIds = {task1}
    Requests = {r1, r2, r3}
    Titles = {a}
    Descriptions = {d}
    Status = {"todo", "done"}
    NoUser = NoUser
    ExplicitNull = ExplicitNull
    NoTask = NoTask
    NoReq = NoReq
    NoPlan = NoPlan
    NoChange = NoChange
    MaxVersion = 2
SYMMETRY Symmetry
INVARIANTS
    HistoryReplays
    VersionCountsHistory
    AssigneeIsMember
    EventsAuthorized
    AcknowledgedIsRecorded
    IInv
PROPERTIES
    LedgerSpec
