SPECIFICATION Spec
CONSTANTS
    m1 = m1
    m2 = m2
    m3 = m3
    w1 = w1
    w2 = w2
    va = va
    vb = vb
    None = None
    Memories = {m1, m2, m3}
    Workers = {w1, w2}
    Values = {va, vb}
    Variants = {va}
    MaxTime = 3
    Backdated = TRUE
    Future = TRUE
    Ops = {"add"}
SYMMETRY Symm
INVARIANTS LiveIsLatest ConflictsFlagged LiveAgree
PROPERTIES AsOfKept
CHECK_DEADLOCK FALSE
