SPECIFICATION Spec
CONSTANTS
    p1 = p1
    p2 = p2
    w1 = w1
    w2 = w2
    w3 = w3
    Procs = {p1, p2}
    Writers = {w1, w2, w3}
    Home <- Two
    BatchSize = 2
    Limit = 2
    MaxRows = 4
    MaxTime = 3
    MaxFaults = 1
INVARIANTS Verifies DeletionShows AnchoredOnce EventsCovered
CHECK_DEADLOCK FALSE
