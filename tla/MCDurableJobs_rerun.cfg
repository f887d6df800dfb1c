SPECIFICATION Spec
CONSTANTS
    j1 = j1
    j2 = j2
    w1 = w1
    w2 = w2
    Gone = Gone
    Jobs = {j1, j2}
    Flushed = {}
    Workers = {w1, w2}
    MaxAttempts = 3
    MaxFaults = 0
    Embedded = FALSE
PROPERTIES NotRunOnceCompleted
CHECK_DEADLOCK FALSE
