SPECIFICATION HubSpec
CONSTANTS
    c1 = c1
    c2 = c2
    r1 = r1
    r2 = r2
    Clients = {c1, c2}
    Rooms = {r1, r2}
    BufferSize = 1
    MaxMessages = 3
    MaxJoins = 2
INVARIANTS
    DeliveryHasNoGaps
    CrashNeedsTwoJoins
PROPERTIES
    GoneClientsLeave
CHECK_DEADLOCK FALSE
