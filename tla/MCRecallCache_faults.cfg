SPECIFICATION Spec
CONSTANTS
    p1 = p1
    p2 = p2
    r1 = r1
    r2 = r2
    Procs = {p1, p2}
    Readers = {r1}
    MaxVersion = 2
    MaxGen = 2
    MaxFaults = 1
    Repeats = FALSE
    RedisLoses = FALSE
SYMMETRY Symm
INVARIANTS NoStaleAnswer ReachableIsFresh
PROPERTIES ImplementsRegister
CHECK_DEADLOCK FALSE
