SPECIFICATION Spec
CONSTANTS
    Creator = creator
    Worker = worker
    s1 = s1
    s2 = s2
    c1 = c1
    c2 = c2
    c3 = c3
    Requests <- ThreeBids
    NoRequest = none
    NoClientId = null
    Terms <- AnyBid
    Minute = 1
    MaxTime = 3
    EarlyBy = 0
    MaxInFlight = 2
    MaxFaults = 0
    LatestCreate = 0
    Bidders = {b1}
    Closers = {e1}
PROPERTIES
    ClosedStaysClosed
CHECK_DEADLOCK FALSE
