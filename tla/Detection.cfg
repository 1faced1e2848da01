SPECIFICATION Spec
CONSTANTS
    c1 = c1
    c2 = c2
    l1 = l1
    l2 = l2
    m1 = m1
    m2 = m2
    None = None
    Models = {m1, m2}
    Callers = {c1}
    Lanes = {l1}
    Ops = {"start", "stop", "activate", "release", "resume", "task"}
    Stalls = FALSE
    MaxOps = 3
    MaxFailures = 1
    MaxFrames = 1
INVARIANTS InflightExact RightRuntime QuietWhileSwapping StoppedRunStaysZero RunningIsOpen
PROPERTY StopReturns
CHECK_DEADLOCK FALSE
