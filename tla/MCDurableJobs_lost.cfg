SPECIFICATION FairSpec
CONSTANTS
    j1 = j1
    j2 = j2
    w1 = w1
    w2 = w2
    Gone = Gone
    Jobs = {j1}
    Flushed = {}
    Workers = {w1}
    MaxAttempts = 3
    MaxFaults = 1
    Embedded = FALSE
PROPERTIES Settled
CHECK_DEADLOCK FALSE
