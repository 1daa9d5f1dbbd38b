SPECIFICATION Spec
CONSTANTS
    MaxWrites = 1
    MaxFaults = 1
    Documents <- MCDocuments
    Specs = {"s1", "s2"}
    MaxPasses = 2
    Indents = {0, 1, 2}
    MaxLength = 3
    StartLine = 2
    Owners = {o1, o2}
    Bodies = {"a", "b"}
    MaxKeys = 2
    MaxLosses = 1
    MaxLapses = 1
INVARIANTS ShownIsSaved SurfaceAgrees OneRunPerRequest
PROPERTIES DeferredIsShown StreamReads
\* Nobody has to press anything.
CHECK_DEADLOCK FALSE
