SPECIFICATION Spec
CONSTANTS
    MaxCalls = 2
    MaxStarts = 3
    MaxShots = 3
CHECK_DEADLOCK FALSE
INVARIANTS
    OneLoop
    KeepsGoing
    NothingForgotten
    FramesFreed
PROPERTIES
    NeverBack
    ComesToRest
