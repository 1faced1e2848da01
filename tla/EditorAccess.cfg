SPECIFICATION Spec
CONSTANTS
    k1 = k1
    k2 = k2
    NoKey = NoKey
    Keys = {k1, k2}
    Ttl = 2
    MaxTime = 3
    MaxChanges = 1
CHECK_DEADLOCK FALSE
INVARIANTS
    SignedAlike
    NoLongerThanTtl
    OpenOnlyByChoice
