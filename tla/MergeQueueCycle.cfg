SPECIFICATION MCSpec
CONSTANTS
    p1 = p1
    p2 = p2
    PR = {p1, p2}
    NoPR = NoPR
    Priority <- MCPriority
    Created <- MCCreated
    Drafts = {}
    Blocked = {}
    Check = {k1, k2}
    Conclusions = {"SUCCESS", "FAILURE"}
    Operators = {}
    Torn = Torn
    MaxEjected = 1
    MaxPush = 1
    MaxFailure = 1
    MaxCrash = 1
    s1 = s1
    Ship = {s1, s2}
    ShipOf <- MCShipOf
    MaxRebases = 1
    MaxOutage = 1
INVARIANT TypeOK
INVARIANT ShipTypeOK
INVARIANT NativeOnlyWhileWatched
PROPERTY ShippedAsSeen
CHECK_DEADLOCK FALSE
