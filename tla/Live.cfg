SPECIFICATION LiveSpec
CONSTANTS
    s1 = s1
    s2 = s2
    c1 = c1
    c2 = c2
    Me = s1
    Requests <- SelfOrRival
    NoClientId = null
    Terms <- MCTerms
    CloseRule <- AlwaysExtends
    Roles = {"supplier", "buyer"}
    Protocols <- Subscribing
    MaxSockets = 2
    MaxMounts = 2
    MaxFaults = 1
    MaxTime = 1
INVARIANTS
    ViewIsHistory
    SupplierSeesBidOnce
    RankIsRight
    OneSubscription
CHECK_DEADLOCK FALSE
