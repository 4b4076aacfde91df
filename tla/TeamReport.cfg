\* One team, one user, one report.
SPECIFICATION Spec
CONSTANTS
    Users = {u1}
    Teams = {1}
    TaskIds = {1, 2}
    Status = {"todo", "done"}
    NoUser = NoUser
    NoTask = NoTask
    Top = 1
    Listers = {l1}
    Reporters = {r1}
    Scenarios = {{r1}}
    MaxComments = 1
INVARIANTS
    ReportsCanBeMade
