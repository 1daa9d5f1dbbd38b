\* Uploads, their budget, generated files and exports: see MCStoredFiles.
CONSTANTS
    u1 = u1  u2 = u2  p1 = p1  x1 = x1  x2 = x2
    Uploads <- TwoUploads
    Reports = {p1}
    Exports = {x1, x2}
    AuditExports = {x2}
    Size <- UnevenSizes
    Stores = {"s3", "azure", "local"}
    MaxFiles = 2
    MaxBytes = 2
    Closes = TRUE
    MaxFaults = 2
SPECIFICATION FairPartSpec
INVARIANTS ErasedHasNoBytes OutstandingWithinBudget NothingGeneratedAfterPurge AdmissionHasWork
PROPERTIES HeldIsKept VerdictIsFinal UploadsDrain ExportsEnd
CHECK_DEADLOCK FALSE
