SPECIFICATION Spec
CONSTANTS
    m1 = m1
    m2 = m2
    m3 = m3
    w1 = w1
    w2 = w2
    va = va
    vb = vb
    None = None
    Memories = {m1, m2, m3}
    Workers = {w1}
    Values = {va, vb}
    Variants = {va, vb}
    MaxTime = 3
    Backdated = TRUE
    Future = FALSE
    Ops = {"add"}
SYMMETRY Symm
\* Each of these is violated: check them one at a time.
INVARIANTS LiveAgree AsOfAgree
CHECK_DEADLOCK FALSE
