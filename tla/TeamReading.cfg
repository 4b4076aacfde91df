\* Two teams, two users, two tasks; a list, or a report.
SPECIFICATION Spec
CONSTANTS
    Users = {u1, u2}
    Teams = {1, 2}
    TaskIds = {1, 2}
    Status = {"todo", "done"}
    NoUser = NoUser
    NoTask = NoTask
    Top = 1
    Listers = {l1}
    Reporters = {r1}
    Scenarios = {{l1}, {r1}}
    MaxComments = 2
SYMMETRY Symmetry
INVARIANTS
    TypeOK
    TeamsAreGrouped
    CallersSeeTheirTeams
    ReportsAddUp
PROPERTIES
    ReportsShowTheTeam
