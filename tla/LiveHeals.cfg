SPECIFICATION FairLiveSpec
CONSTANTS
    s1 = s1
    s2 = s2
    c1 = c1
    c2 = c2
    Me = s1
    Requests <- TwoBids
    NoClientId = null
    Terms <- MCTerms
    CloseRule <- MayExtend
    Roles = {"supplier", "buyer"}
    Protocols <- MCProtocols
    MaxSockets = 1
    MaxMounts = 1
    MaxFaults = 1
    MaxTime = 1
PROPERTIES
    EventuallyCurrent
CHECK_DEADLOCK FALSE
