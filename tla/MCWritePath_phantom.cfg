SPECIFICATION Spec
CONSTANTS
    p1 = p1
    p2 = p2
    w1 = w1
    w2 = w2
    w3 = w3
    r1 = r1
    r2 = r2
    h1 = h1
    Procs = {p1}
    Workers = {w1, w2}
    Home <- One
    Requests = {r1}
    Held = {}
    MaxKeys = 2
    MaxMemories = 2
    MaxPending = 1
    MaxFaults = 0
INVARIANTS WrittenIsReadable
CHECK_DEADLOCK FALSE
