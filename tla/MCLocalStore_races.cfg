SPECIFICATION Spec
CONSTANTS
    Clients = {c1, c2}
    Keys = {k1}
    NoKey = NoKey
    Projects = {p1}
    Global = Global
    Artifacts = {}
    MaxMemories = 3
    MaxDependencies = 0
\* Each of these is violated: check them one at a time.
INVARIANTS LineageReciprocal LineageForgotten OneCurrentAnyway
CHECK_DEADLOCK FALSE
