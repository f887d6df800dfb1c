SPECIFICATION Spec
CONSTANTS
    d1 = d1
    d2 = d2
    d3 = d3
    m = m
    c1 = c1
    c2 = c2
    None = None
    Device = {d1, d2}
    Root = d1
    Second = None
    Memory = {m, c1, c2}
    Corrects <- Branching
    MaxEpoch = 2
    MaxRevision = 2
    MaxBusy = 2
PROPERTIES TombstonesKept
CHECK_DEADLOCK FALSE
