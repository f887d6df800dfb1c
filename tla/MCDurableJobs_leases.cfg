SPECIFICATION Spec
CONSTANTS
    j1 = j1
    j2 = j2
    w1 = w1
    w2 = w2
    Gone = Gone
    Jobs = {j1, j2}
    Flushed = {j2}
    Workers = {w1, w2}
    MaxAttempts = 2
    MaxFaults = 1
    Embedded = TRUE
SYMMETRY Symm
INVARIANTS TypeOK OnlyHandledComplete RunsWithinAttempts DeadIsExhausted NoConcurrentRuns
PROPERTIES CompletedIsNotRun CompletedIsFinal
CHECK_DEADLOCK FALSE
