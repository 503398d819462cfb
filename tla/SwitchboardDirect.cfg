SPECIFICATION Spec
CONSTANTS
    c1 = c1
    c2 = c2
    c3 = c3
    a1 = a1
    a2 = a2
    Client = {c1, c2, c3}
    Address = {a1, a2}
    AddressOf <- MCShared
    Topic = {topic}
    NoAddress = NoAddress
    NoTopic = NoTopic
    TTL <- MCTTL
    Casters = {c1}
    Callers = {c1}
    Publishers = {}
    Subscribers = {}
    Daemons = {"gc"}
    DeliveredRetention = 1
    FailedRetention = 2
    PollLimit = 2
    EventLimit = 2
    RouterLimit = 2
    MaxRow = 2
    MaxClock = 2
    MaxCrash = 1
INVARIANT TypeOK
INVARIANT HandedAtMostOnce
INVARIANT AwaitedCallIsLive
PROPERTY ImplementsMailbox
SYMMETRY MCSymmetry
