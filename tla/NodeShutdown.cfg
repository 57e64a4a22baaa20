SPECIFICATION FairSpec
CONSTANTS
    Creator = creator
    Worker = worker
    s1 = s1
    s2 = s2
    c1 = c1
    c2 = c2
    c3 = c3
    Requests <- ThreeBids
    NoRequest = none
    NoClientId = null
    Terms <- AnyBid
    Minute = 1
    MaxTime = 2
    MaxInFlight = 1
    MaxFaults = 0
    MaxSignals = 1
    MaxWatching = 1
    LatestCreate = 0
    Bidders = {b1}
    Closers = {e1}
PROPERTIES
    ShutdownEnds
CHECK_DEADLOCK FALSE
