SPECIFICATION Spec
CONSTANTS
    Clients = {c1}
    Keys = {}
    NoKey = NoKey
    Projects = {}
    Global = Global
    Artifacts = {a1}
    MaxMemories = 4
    MaxDependencies = 2
INVARIANTS LinkedFollowsAnyway
CHECK_DEADLOCK FALSE
