SPECIFICATION Spec
CONSTANTS
    d1 = d1
    d2 = d2
    d3 = d3
    m = m
    c1 = c1
    c2 = c2
    None = None
    Device = {d1, d2, d3}
    Root = d1
    Second = d2
    Memory = {}
    Corrects <- Empty
    MaxEpoch = 2
    MaxRevision = 1
    MaxBusy = 2
INVARIANTS SurvivorsFollow
CHECK_DEADLOCK FALSE
