\* Three tasks; two comments and a walk, or a comment and a reader.
SPECIFICATION Spec
CONSTANTS
    Users = {u1}
    Teams = {team}
    TaskIds = {1, 2, 3}
    NoUser = NoUser
    NoTask = NoTask
    Adders = {a1, a2}
    Getters = {g1}
    Walkers = {w1}
    Scenarios = {{a1, g1}, {a1, a2, w1}}
    MaxChanges = 1
    MaxInt = 3
SYMMETRY Symmetry
INVARIANTS
    TypeOK
    AnsweredCommentIsStored
    HistoryCoversVersion
    WalksAreComplete
    PagesAreGrouped
