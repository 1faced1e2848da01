SPECIFICATION Spec
CONSTANTS
    Setups <- BadgeSetups
    MaxDeeds = 2
    MaxFaults = 0
    MaxOpen = 2
    MaxPolls <- PollBound
CHECK_DEADLOCK FALSE
PROPERTIES
    BadgeReflects
