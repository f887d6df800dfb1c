SPECIFICATION Spec
CONSTANTS
    p1 = p1
    p2 = p2
    r1 = r1
    r2 = r2
    Procs = {p1, p2}
    Readers = {r1}
    MaxVersion = 1
    MaxGen = 1
    MaxFaults = 0
    Repeats = TRUE
    RedisLoses = FALSE
SYMMETRY Symm
INVARIANTS NoStaleAnswer
CHECK_DEADLOCK FALSE
