SPECIFICATION Spec
CONSTANTS
    Clients = {c1}
    Keys = {k1}
    NoKey = NoKey
    Projects = {p1}
    Global = Global
    Artifacts = {a1}
    MaxMemories = 2
    MaxDependencies = 1
INVARIANTS MovedFollows
CHECK_DEADLOCK FALSE
