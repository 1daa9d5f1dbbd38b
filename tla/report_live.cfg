\* One job of one PDF with a retry, a fault and a purge at any point: Runs covers every claim this allows.
CONSTANTS
    i1 = i1  i2 = i2  i3 = i3  j1 = j1  j2 = j2
    Situations = {"live"}
    Jobs <- OneJob
    Items <- OneItem
    JobOf <- ItsJob
    BulkJobs = {}
    Runs = {r1, r2, r3}
    Sweeps = {s1}
    Bundle = Bundle
    None = None
    Limit = 2
    MaxQueuedJobs = 1
    Pauses = FALSE
    MaxMonth = 0
    MaxRevision = 1
    MaxFaults = 1
    MaxPurges = 1
SPECIFICATION FairPartSpec
PROPERTIES
    EveryJobSettles
    LeftoversCollected
    PurgeCompletes
CHECK_DEADLOCK FALSE
