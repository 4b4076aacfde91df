\* Three handlers, a window of three requests, half of at least two must fail.
SPECIFICATION FairSpec
CONSTANTS
    Handlers = {h1, h2, h3}
    HalfOpenMaxReqs <- Configured
    WindowMinReq = 2
    RatioNum = 1
    RatioDen = 2
    Width = 4
    MaxWindow = 3
INVARIANTS
    IInv
PROPERTIES
    TripsAreDeserved
    ClosesAfterProbes
    Recovers
