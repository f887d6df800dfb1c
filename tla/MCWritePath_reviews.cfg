SPECIFICATION Spec
CONSTANTS
    p1 = p1
    p2 = p2
    w1 = w1
    w2 = w2
    w3 = w3
    r1 = r1
    r2 = r2
    h1 = h1
    Procs = {p1}
    Workers = {w1, w2}
    Home <- One
    Requests = {h1}
    Held = {h1}
    MaxKeys = 2
    MaxMemories = 2
    MaxPending = 2
    MaxFaults = 0
\* Each of these is violated: check them one at a time.
INVARIANTS AdmittedOnce RejectedIsNotStored ParkedOnce
CHECK_DEADLOCK FALSE
