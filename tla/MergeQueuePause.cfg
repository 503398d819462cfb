SPECIFICATION MCSpec
CONSTANTS
    p1 = p1
    p2 = p2
    PR = {p1, p2}
    NoPR = NoPR
    Priority <- MCPriority
    Created <- MCCreated
    Drafts = {}
    Blocked = {p1}
    Check = {k1, k2}
    Conclusions = {"SUCCESS", "FAILURE"}
    Operators = {o1}
    Torn = Torn
    MaxEjected = 1
    MaxPush = 1
    MaxFailure = 1
    MaxCrash = 1
INVARIANT MergedWasRebased
INVARIANT MergeIsRecorded
PROPERTY MergedWithoutFailure
