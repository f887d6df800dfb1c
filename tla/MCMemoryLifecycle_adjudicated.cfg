SPECIFICATION Spec
CONSTANTS
    m1 = m1
    m2 = m2
    m3 = m3
    w1 = w1
    w2 = w2
    va = va
    vb = vb
    None = None
    Memories = {m1, m2, m3}
    Workers = {w1}
    Values = {va, vb}
    Variants = {va}
    MaxTime = 2
    Backdated = TRUE
    Future = FALSE
    Ops = {"note", "adjudicate"}
SYMMETRY Symm
INVARIANTS LiveMatchesLog
CHECK_DEADLOCK FALSE
