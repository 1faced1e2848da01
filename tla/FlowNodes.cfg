SPECIFICATION Spec
CONSTANTS
    Setups <- AllSetups
    MaxDeeds = 2
    MaxFaults = 1
    MaxOpen = 2
    MaxPolls <- PollBound
CHECK_DEADLOCK FALSE
INVARIANTS
    TypeOK
    NothingTwice
    DoneMeansDone
PROPERTIES
    Settles
    CloseEnds
