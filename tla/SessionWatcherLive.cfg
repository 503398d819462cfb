SPECIFICATION MCSpec
CONSTANTS
    e1 = e1
    e2 = e2
    box = box
    Execution = {e1}
    Container = {box}
    Host = host
    EnvOf <- MCEnvOf
    Commands = {}
    Cleaners = {}
    Outages = {"docker", "container"}
    Labels = {{}, {box}}
    Moods = {"done", "hung"}
    MaxFailures = 3
    Cycle = {w1, w2}
    Nobody = Nobody
    g1 = g1
    g2 = g2
    s1 = s1
    u1 = u1
    u2 = u2
    User = {u1, u2}
    Agent = {s1}
    Allowed = {u1}
    Gateway = {g1, g2}
    DefaultAgent <- MCDefaultAgent
    NoSession = NoSession
    MaxUpdate = 2
    MaxStart = 2
    MaxFault = 1
INVARIANT RecoveredByOneCycle
PROPERTY DeadAgentsSettle
INVARIANT NothingSkipped
INVARIANT HeardOncePerStart
PROPERTY EveryMessageHeard
