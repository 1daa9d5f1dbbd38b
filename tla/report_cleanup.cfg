\* Two jobs and their quota; two sweeps and a purge against the runs of one job.
CONSTANTS
    i1 = i1  i2 = i2  i3 = i3  j1 = j1  j2 = j2
    Situations = {"quota", "cleanup"}
    Jobs <- TwoJobs
    Items <- TwoItems
    JobOf <- OneEach
    BulkJobs <- OneJob
    Runs = {r1, r2}
    Sweeps = {s1, s2}
    Bundle = Bundle
    None = None
    Limit = 1
    MaxQueuedJobs = 1
    Pauses = FALSE
    MaxMonth = 1
    MaxRevision = 1
    MaxFaults = 1
    MaxPurges = 1
SPECIFICATION PartSpec
INVARIANTS QuotaWithinLimit NoOrphanBytes
CHECK_DEADLOCK FALSE
