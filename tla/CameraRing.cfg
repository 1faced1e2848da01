SPECIFICATION FairSpec
CONSTANTS
    t1 = t1
    t2 = t2
    o1 = o1
    d1 = d1
    d2 = d2
    Scripts <- MixedScripts
    Threads = {t1}
    Objects = {o1}
    Obj <- OneReader
    Dims = {d1, d2}
    Jpeg = jpeg
    StartDims = d1
    MaxFrames = 3
    MaxSegments = 2
    Retries = 2
CHECK_DEADLOCK FALSE
INVARIANTS
    NoTornFrame
    FreshSegmentAhead
PROPERTIES
    ImplementsLatestFrame
    ReadersCatchUp
