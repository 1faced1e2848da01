SPECIFICATION Spec
CONSTANTS
    Clients = {c1, c2}
    Datasets = {d1, f1}
    Faces = {f1}
    None = None
    MaxJobs = 2
CHECK_DEADLOCK FALSE
INVARIANT
    DatasetThere
