SPECIFICATION FairSessionSpec
CONSTANTS
    e1 = e1
    p1 = p1
    None = None
    Emails = {e1}
    Passwords = {p1}
    Backends <- BothBackends
    TokenLife = 1
    MaxTime = 1
INVARIANTS
    SessionsAreTheAccounts
    ShownIsSent
PROPERTIES
    NobodyStaysExpired
CHECK_DEADLOCK FALSE
