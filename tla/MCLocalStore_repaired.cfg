SPECIFICATION Spec
CONSTANTS
    Clients = {c1}
    Keys = {k1}
    NoKey = NoKey
    Projects = {}
    Global = Global
    Artifacts = {a1}
    MaxMemories = 3
    MaxDependencies = 4
\* Each of these is violated: check them one at a time.
INVARIANTS RepairedFollows NoSelfDependency Repairable
CHECK_DEADLOCK FALSE
