\* Two tasks, one of which the commenter may edit.
SPECIFICATION Spec
CONSTANTS
    Users = {u1, u2}
    Teams = {team}
    TaskIds = {1, 2}
    NoUser = NoUser
    NoTask = NoTask
    Adders = {a1}
    Getters = {g1}
    Walkers = {w1}
    Scenarios = {{a1}}
    MaxChanges = 1
    MaxInt = 3
INVARIANTS
    CommentsByEditors
