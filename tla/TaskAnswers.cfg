\* Liveness, without symmetry: one user, three requests.
SPECIFICATION FairSpec
CONSTANTS
    Users = {u1}
    Teams = {team}
    TaskIds = {task1}
    Requests = {r1, r2, r3}
    Titles = {a}
    Descriptions = {d}
    Status = {"todo", "done"}
    NoUser = NoUser
    ExplicitNull = ExplicitNull
    NoTask = NoTask
    NoReq = NoReq
    NoPlan = NoPlan
    NoChange = NoChange
    MaxVersion = 2
INVARIANTS
    ClosedAtFollowsStatus
PROPERTIES
    EveryRequestAnswered
