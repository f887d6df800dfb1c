SPECIFICATION Spec
CONSTANTS
    Clients = {c1, c2}
    Keys = {k1}
    NoKey = NoKey
    Projects = {}
    Global = Global
    Artifacts = {a1}
    MaxMemories = 3
    MaxDependencies = 2
SYMMETRY Symm
INVARIANTS OneCurrent LinkedFollows OpenIsActive ForgottenUnlinked LinksAcyclic
CHECK_DEADLOCK FALSE
