SPECIFICATION Spec
CONSTANTS
    c1 = c1
    c2 = c2
    c3 = c3
    a1 = a1
    a2 = a2
    Client = {c1, c2}
    Address = {a1, a2}
    AddressOf <- MCTwo
    Topic = {topic}
    NoAddress = NoAddress
    NoTopic = NoTopic
    TTL <- MCTTL
    Casters = {}
    Callers = {}
    Publishers = {c1}
    Subscribers = {c2}
    Daemons = {"router"}
    DeliveredRetention = 1
    FailedRetention = 2
    PollLimit = 2
    EventLimit = 2
    RouterLimit = 2
    MaxRow = 1
    MaxClock = 0
    MaxCrash = 0
INVARIANT EventReachesSubscribers
