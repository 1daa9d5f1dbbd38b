\* A bulk job, and a job that outlives its retention or its organization.
CONSTANTS
    i1 = i1  i2 = i2  i3 = i3  j1 = j1  j2 = j2
    Situations = {"bulk", "expiry"}
    Jobs <- TwoJobs
    Items <- ThreeItems
    JobOf <- OneAndTwo
    BulkJobs <- TwoJobs
    Runs = {r1, r2}
    Sweeps = {s1}
    Bundle = Bundle
    None = None
    Limit = 2
    MaxQueuedJobs = 1
    Pauses = TRUE
    MaxMonth = 0
    MaxRevision = 2
    MaxFaults = 1
    MaxPurges = 1
SPECIFICATION PartSpec
INVARIANTS OnePdfPerSuccess DownloadIsCurrent
PROPERTIES LostStaysLost ImplementsLedger
CHECK_DEADLOCK FALSE
