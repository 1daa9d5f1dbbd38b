SPECIFICATION PartsSpec
CONSTANTS
    \* Two overlapping writers, three writes of the row across a wrap of the ids.
    Writers = {w1, w2}
    Modules = {"sites"}
    Modulus = 16
    FirstXid = 3
    FirstWrite = 10
    MaxWrites = 3
    \* Two tabs, one of which works; one write, one change and one fault.
    Tabs = {t1, t2}
    Contexts = {A, B}
    Writes = {w}
    MaxChanges = 1
    MaxFaults = 1
    Active = {t1}
    First = A
    MaxOpen = 1
INVARIANTS DirectoryAgrees NoStaleIntent TruthfulOutcome
PROPERTIES OffboardIsDeliberate SuspensionReachesRequests TabsConverge
CHECK_DEADLOCK FALSE
