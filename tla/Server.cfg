\* Two connections, four configurations of the timeouts.
SPECIFICATION FairSpec
CONSTANTS
    Conns = {c1, c2}
    Configs <- Timeouts
    NewGrace = 2
    Overrun = 1
INVARIANTS
    SuccessMeansDrained
    HandlersKeepDatabase
    IInv
PROPERTIES
    ProcessEnds
