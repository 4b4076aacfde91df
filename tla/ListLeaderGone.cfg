\* No failure but a client that goes away.
SPECIFICATION Spec
CONSTANTS
    a = a
    all = all
    l1 = l1
    Replicas = {a}
    Keys = {all}
    Lists = {l1, l2}
    Writes = {w1}
    Placements <- Placed
    TTL = 1
    Faults = {"cancel"}
    NoList = NoList
    NoEntry = NoEntry
INVARIANTS
    CancelHurtsNobodyElse
