SPECIFICATION FairSpec
CONSTANTS
    p1 = p1
    p2 = p2
    r1 = r1
    r2 = r2
    Procs = {p1, p2}
    Readers = {}
    MaxVersion = 2
    MaxGen = 8
    MaxFaults = 2
    Repeats = TRUE
    RedisLoses = TRUE
PROPERTIES BarrierReleased
CHECK_DEADLOCK FALSE
