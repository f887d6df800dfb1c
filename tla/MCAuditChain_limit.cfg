SPECIFICATION Spec
CONSTANTS
    p1 = p1
    p2 = p2
    w1 = w1
    w2 = w2
    w3 = w3
    Procs = {p1}
    Writers = {w1, w2}
    Home <- One
    BatchSize = 4
    Limit = 1
    MaxRows = 4
    MaxTime = 3
    MaxFaults = 0
\* Each of these is violated: check them one at a time.
INVARIANTS VerifiesWithinLimit DeletionAlwaysShows
CHECK_DEADLOCK FALSE
