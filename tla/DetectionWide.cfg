SPECIFICATION Spec
CONSTANTS
    c1 = c1
    c2 = c2
    l1 = l1
    l2 = l2
    m1 = m1
    m2 = m2
    None = None
    Models = {m1, m2}
    Callers = {c1, c2}
    Lanes = {l1, l2}
    Ops = {"start", "stop", "activate", "release"}
    Stalls = FALSE
    MaxOps = 2
    MaxFailures = 0
    MaxFrames = 2
INVARIANTS RightRuntime QuietWhileSwapping
SYMMETRY Symmetry
CHECK_DEADLOCK FALSE
