SPECIFICATION PartsSpec
CONSTANTS
    Parts = {"rows"}
    \* cells
    AllRows <- Rows3
    Start <- Data3
    NCols = 3
    PageSize = 1
    Pinned = {3}
    Selectable = {1, 3}
    Editable = {1, 2, 3}
    Locked = {}
    Numeric = {3}
    Words = {"a"}
    Values = {"a", "1", ""}
    Blank = ""
    MaxWrites = 1
    MaxLive = 1
    MaxRanges = 2
    GestureSets <- Together
    \* columns
    Columns <- Columns3
    AutoSize = {"a", "b"}
    BaseSize <- Base3
    MinSize <- Min3
    MaxSize <- Max3
    Widths = {8, 14}
    Deltas <- Around
    MaxColumnEvents = 3
    \* rows
    RowH = 2
    HeadH = 2
    ViewH = 6
    Sticky = TRUE
    Overscan = 1
    FetchOffset = 0
    Total = 5
    FetchSize = 1
    Loaded = 3
    TellsEnd = FALSE
    Offsets = {0, 3, 6}
    MoreLimit = 2
    Sizes = {1, 2}
    RowGestures <- DragMix
    MaxEvents = 3
INVARIANT SelectingShowsRows
CHECK_DEADLOCK FALSE
