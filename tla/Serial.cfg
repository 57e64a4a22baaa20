SPECIFICATION FairSpec
CONSTANTS
    Creator = creator
    Worker = worker
    s1 = s1
    s2 = s2
    c1 = c1
    c2 = c2
    c3 = c3
    Requests <- FourBids
    NoRequest = none
    NoClientId = null
    Terms <- FineClock
    Minute = 2
    MaxTime = 7
    EarlyBy = 0
    MaxInFlight = 1
    MaxFaults = 0
    LatestCreate = 2
    Bidders = {b1}
    Closers = {e1}
INVARIANTS
    
    AuditTrailComplete
    ClosurePending
    FeedIsCurrent
PROPERTIES
    
    EventuallyClosed
    ImplementsBritishAuction
CHECK_DEADLOCK FALSE
