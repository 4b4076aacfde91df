SPECIFICATION Spec
CONSTANTS
    Users = {u1}
    Teams = {team}
    TaskIds = {task1}
    Requests = {r1, r2, r3}
    Titles = {a, b}
    Descriptions = {d}
    Status = {"todo", "done"}
    NoUser = NoUser
    ExplicitNull = ExplicitNull
    NoTask = NoTask
    NoReq = NoReq
    NoPlan = NoPlan
    NoChange = NoChange
    MaxVersion = 2
SYMMETRY Symmetry
INVARIANTS
    RaceAnswersConflict
