SPECIFICATION Spec
CONSTANTS
    Clients = {c1, c2}
    Datasets = {d1, f1}
    Faces = {f1}
    None = None
    MaxJobs = 2
CHECK_DEADLOCK FALSE
INVARIANTS
    TypeOK
    ClaimedWhileActive
    TrainsWhatWasValidated
    CancelDiscards
    NothingLeft
PROPERTIES
    HonoursLease
    JobEnds
