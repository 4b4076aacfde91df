\* Every failure, two replicas, two fields, two lists and a change.
SPECIFICATION FairSpec
CONSTANTS
    a = a
    all = all
    l1 = l1
    Replicas = {a, b}
    Keys = {all, todo}
    Lists = {l1, l2}
    Writes = {w1}
    Placements <- Placed
    TTL = 2
    Faults = {"db", "get", "corrupt", "put", "del", "cancel", "crash"}
    NoList = NoList
    NoEntry = NoEntry
INVARIANTS
    StaleForKnownReasons
    CachedListsArePlain
    ExtrasWereAskedFor
    IInv
PROPERTIES
    EveryListAnswered
    StaleEntriesGoAway
