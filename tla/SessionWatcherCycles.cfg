SPECIFICATION MCSpec
CONSTANTS
    e1 = e1
    e2 = e2
    box = box
    Execution = {e1, e2}
    Container = {box}
    Host = host
    EnvOf <- MCEnvOf
    Commands = {q1}
    Cleaners = {k1}
    Outages = {"docker", "container", "host"}
    Labels = {{}, {box}}
    Moods = {}
    MaxFailures = 1
    Cycle = {w1}
    Nobody = Nobody
INVARIANT TypeOK
INVARIANT SeenIsNotTimedOut
INVARIANT StoppedOnlyIfGone
PROPERTY RevivedHasSession
PROPERTY FinalOnlyLostInRaces
CHECK_DEADLOCK FALSE
