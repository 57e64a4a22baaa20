SPECIFICATION Spec
CONSTANTS
    Creator = creator
    Worker = worker
    s1 = s1
    s2 = s2
    c1 = c1
    c2 = c2
    c3 = c3
    Requests <- ThreeBids
    NoRequest = none
    NoClientId = null
    Terms <- Later
    Minute = 1
    MaxTime = 3
    MaxInFlight = 2
    MaxFaults = 2
    MaxSignals = 0
    MaxWatching = 0
    LatestCreate = 0
    Bidders = {b1,b2}
    Closers = {e1}
INVARIANTS
    TypeOK
    OneBidPerClientId
    BidsInTime
    CloseTimesExplained
    FeedFollowsLedger
PROPERTIES
    ClosedIsFinal
SYMMETRY Symmetry
CHECK_DEADLOCK FALSE
