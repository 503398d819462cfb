SPECIFICATION Spec
CONSTANTS
    p1 = p1
    p2 = p2
    PR = {p1}
    NoPR = NoPR
    Priority <- MCPriority
    Created <- MCCreated
    Drafts = {}
    Blocked = {}
    Check = {k1}
    Conclusions = {"SUCCESS", "CANCELLED"}
    Operators = {}
    Torn = Torn
    MaxEjected = 1
    MaxPush = 0
    MaxFailure = 0
    MaxCrash = 0
PROPERTY MergedIfGreen
