SPECIFICATION FairSpec
CONSTANTS
    c1 = c1
    c2 = c2
    c3 = c3
    a1 = a1
    a2 = a2
    Client = {c1, c2}
    Address = {a1, a2}
    AddressOf <- MCTwo
    Topic = {topic}
    NoAddress = NoAddress
    NoTopic = NoTopic
    TTL <- MCTTL
    Casters = {c1}
    Callers = {}
    Publishers = {c1}
    Subscribers = {c2}
    Daemons = {"router"}
    DeliveredRetention = 1
    FailedRetention = 2
    PollLimit = 2
    EventLimit = 1
    RouterLimit = 1
    MaxRow = 2
    MaxClock = 0
    MaxCrash = 1
INVARIANT DeliveredIsAccountedFor
INVARIANT NoEventSkipped
PROPERTY MessageSettles
