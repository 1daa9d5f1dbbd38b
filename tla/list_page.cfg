SPECIFICATION Spec
CONSTANTS
  MaxIds = 2
  Toggled = {0}
  MaxNodes = 4
  Views <- MCViews
  Reorderable = TRUE
  Pages <- MCPages
  NoneOption = "none"
  Saved <- MCSaved
  Elsewhere = {"none", "b"}
  MaxRequests = 3
  FieldType <- MCFields
  Narrowed <- MCNarrowed
  Entries = {"x"}
  MaxRows = 2
  Days = {1, 2}
  Years = {1, 2}
  Indexes = {0}
  PeriodTypes = {"day", "quarter"}
  Presets = {"between"}
  AllowRange = TRUE
  Stored <- MCStored
  Words = {"", "x"}
  Chips = {{}, {"Open"}}
  Sites = {"s1", "s2", "s3"}
  Areas = {"north", "south"}
  AreaOf <- MCAreaOf
  Hits <- MCHits
  MaxHeld = 2
INVARIANTS RowsHold PicksAreKept ListFollowsPage
PROPERTIES EditsKeepTree OptionsHold
CHECK_DEADLOCK FALSE
