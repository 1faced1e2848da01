SPECIFICATION Spec
CONSTANTS
    MaxConns = 4
    MaxEvents = 3
    HistoryLimit = 2
CHECK_DEADLOCK FALSE
INVARIANTS
    OneStream
    NothingSkipped
PROPERTIES
    ImplementsSubscription
    StaysInformed
