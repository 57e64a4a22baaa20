SPECIFICATION Spec
CONSTANTS
    Creator = creator
    Worker = worker
    s1 = s1
    s2 = s2
    c1 = c1
    c2 = c2
    c3 = c3
    Requests <- OneAnonymous
    NoRequest = none
    NoClientId = null
    Terms <- AnyBid
    Minute = 1
    MaxTime = 3
    EarlyBy = 1
    MaxInFlight = 2
    MaxFaults = 1
    LatestCreate = 1
    Bidders = {b1,b2}
    Closers = {e1}
INVARIANTS
    TypeOK
    OneBidPerClientId
    ExtensionsExplained
    CloseTimeExplained
    FeedFollowsLedger
    ClosedFeedUndoneOnlyByExtension

    
SYMMETRY Symmetry
CHECK_DEADLOCK FALSE
