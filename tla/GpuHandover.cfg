SPECIFICATION Spec
CONSTANTS
    Routes = {r1, r2}
    MaxRequests = 4
    MaxRestarts = 1
CHECK_DEADLOCK FALSE
INVARIANTS
    TrainerAlone
    BuildAlone
PROPERTIES
    HandedBack
