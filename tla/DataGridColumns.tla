-------------------------- MODULE DataGridColumns --------------------------
(***************************************************************************)
(* Column widths and layout of the data grid: the auto-size controller     *)
(* that gives a column the container's free space and takes it back        *)
(* (data-grid.tsx), the resize session of a header handle and the          *)
(* viewport's measurements (data-grid-table.tsx), and the header menu that *)
(* hides, pins, moves and sorts columns (data-grid-column-header.tsx).     *)
(*                                                                         *)
(* Store writes reach the screen through a later React commit, `Render`,   *)
(* whose layout effect measures again.  Widths are small integers; one     *)
(* pointing device is in use at a time.                                    *)
(***************************************************************************)
EXTENDS Integers, FiniteSets, Sequences, SequencesExt, FiniteSetsExt, Functions

CONSTANTS
    Columns,      \* the column ids in definition order, a sequence
    AutoSize,     \* the columns with meta.autoSize
    BaseSize,     \* size, minSize and maxSize of the column definitions
    MinSize,
    MaxSize,
    Widths,       \* the widths the container takes
    Deltas,       \* how far a drag of a handle goes
    MaxColumnEvents     \* bound: gestures and container changes in a behaviour

VARIABLES
    sizing,       \* columnSizing: a width, or Unset
    hidden, columnOrder, pinnedCols, sort,
    width,        \* the container
    auto,         \* the controller's bookkeeping for this table
    drag, resizing, cursor,  \* resize session; isResizingColumn; page cursor
    header, bodyWidths, stale,     \* the columns on screen; a commit is due
    userSet,      \* the columns whose present width a drag wrote
    columnEvents

colVars == <<sizing, hidden, columnOrder, pinnedCols, sort, width, auto, drag, resizing,
             cursor, header, bodyWidths, stale, userSet, columnEvents>>

ColumnIds == ToSet(Columns)
Unset == 0
NoDrag == [none |-> TRUE]

ASSUME ColumnsAssumption ==
    /\ AutoSize \subseteq ToSet(Columns)
    /\ \A c \in ToSet(Columns) : /\ MinSize[c] \in Nat \ {0}
                                 /\ MinSize[c] <= BaseSize[c] /\ BaseSize[c] <= MaxSize[c]

----------------------------------------------------------------------------
(* What the table computes *)

Clamp(c, n) == Min({MaxSize[c], Max({MinSize[c], n})})
Size(c) == Clamp(c, IF sizing[c] = Unset THEN BaseSize[c] ELSE sizing[c])
VisibleColumns == SelectSeq(columnOrder, LAMBDA c : c \notin hidden)
Section(side) == SelectSeq(VisibleColumns, LAMBDA c : pinnedCols[c] = side)

\* getDataGridTableOrderedVisibleColumns: header groups, colgroup and cells.
Layout == Section("start") \o Section("no") \o Section("end")

TotalSize == MapThenSumSet(LAMBDA c : Size(c), ToSet(VisibleColumns))
FreeSpace == width - TotalSize

\* The first visible column with meta.autoSize.
Candidate ==
    LET auto1 == SelectSeq(VisibleColumns, LAMBDA c : c \in AutoSize)
    IN  IF auto1 = <<>> THEN "none" ELSE Head(auto1)

----------------------------------------------------------------------------
(* The auto-size controller *)

\* Bug variant: every width counts as the controller's own.
OwnsEveryWidth(c) == TRUE

\* A width the controller did not write belongs to the user.
Owns(c) == \/ sizing[c] = Unset
           \/ auto.applied # NoDrag /\ sizing[c] = auto.applied.grown

\* reflow: the column re-absorbs what it would measure without its growth.
Reflow(free, a) ==
    LET ap == a.applied
        target == Max({MinSize[ap.col], ap.base + free + (ap.grown - ap.base)})
    IN  IF ap = NoDrag \/ Candidate # ap.col \/ ~Owns(ap.col) \/ target = ap.grown
        THEN auto' = a /\ UNCHANGED sizing
        ELSE /\ auto' = [a EXCEPT !.applied.grown = target]
             /\ sizing' = [sizing EXCEPT ![ap.col] = target]

\* The first fill of a column; a column that filled before hands its growth back.
Fill(free, a) ==
    LET c == Candidate
        ap == a.applied
        base == IF sizing[c] = Unset THEN Size(c) ELSE sizing[c]
        reverted == IF ap # NoDrag /\ sizing[ap.col] = ap.grown
                    THEN [sizing EXCEPT ![ap.col] = ap.base] ELSE sizing
    IN  /\ auto' = [a EXCEPT !.applied = [col |-> c, base |-> base, grown |-> base + free]]
        /\ sizing' = [reverted EXCEPT ![c] = base + free]

\* Bug variant: measurements inside the settle window are dropped.
ApplyDropsBurst(free) ==
    \E a \in {IF auto.applied # NoDrag /\ sizing[auto.applied.col] = Unset
              THEN [auto EXCEPT !.applied = NoDrag] ELSE auto} :
       IF Candidate # "none" /\ a.applied # NoDrag /\ a.applied.col = Candidate
       THEN IF a.recent THEN auto' = a /\ UNCHANGED sizing
            ELSE Reflow(free, [a EXCEPT !.recent = TRUE, !.pending = free])
       ELSE IF Candidate = "none" \/ free <= 0 \/ ~Owns(Candidate)
            THEN auto' = a /\ UNCHANGED sizing
            ELSE Fill(free, a)

\* apply: a reset re-arms; the filled column reflows at once or behind the
\* settle timer; otherwise a first fill, unless the width is the user's.
Apply(free) ==
    \E a \in {IF auto.applied # NoDrag /\ sizing[auto.applied.col] = Unset
              THEN [auto EXCEPT !.applied = NoDrag] ELSE auto} :
       IF Candidate # "none" /\ a.applied # NoDrag /\ a.applied.col = Candidate
       THEN IF a.recent THEN /\ auto' = [a EXCEPT !.pending = free, !.timer = TRUE]
                             /\ UNCHANGED sizing
            ELSE Reflow(free, [a EXCEPT !.recent = TRUE, !.pending = free])
       ELSE IF Candidate = "none" \/ free <= 0 \/ ~Owns(Candidate)
            THEN auto' = a /\ UNCHANGED sizing
            ELSE Fill(free, a)

\* The settle timer: the latest measurement, whatever happened since.
Settle ==
    /\ auto.timer
    /\ Reflow(auto.pending, [auto EXCEPT !.timer = FALSE, !.recent = TRUE])
    /\ stale' = (stale \/ sizing' # sizing)
    /\ UNCHANGED <<hidden, columnOrder, pinnedCols, sort, width, drag, resizing, cursor, header, bodyWidths,
                   userSet, columnEvents>>

\* 150 ms since the last commit.
WindowPasses ==
    /\ auto.recent
    /\ auto' = [auto EXCEPT !.recent = FALSE]
    /\ UNCHANGED <<sizing, hidden, columnOrder, pinnedCols, sort, width, drag, resizing, cursor, header,
                   bodyWidths, stale, userSet, columnEvents>>

----------------------------------------------------------------------------
(* The viewport *)

Event == columnEvents < MaxColumnEvents /\ columnEvents' = columnEvents + 1

\* The ResizeObserver: measure, then syncFillWidth.
ResizeContainer(w) ==
    /\ Event /\ w # width
    /\ width' = w
    /\ Apply(w - TotalSize)
    /\ stale' = (stale \/ sizing' # sizing)
    /\ UNCHANGED <<hidden, columnOrder, pinnedCols, sort, drag, resizing, cursor, header, bodyWidths, userSet>>

\* MemoizedDataGridTableBodyRows.
BodyRows == IF resizing THEN bodyWidths ELSE Layout

\* The commit: headers follow the state, the memoized body rows only when no
\* column is being resized, and the layout effect measures again.  A header
\* that leaves takes its handle with it; one that comes back has a new one.
Render ==
    /\ stale
    /\ header' = Layout
    /\ bodyWidths' = BodyRows
    /\ Apply(FreeSpace)
    /\ stale' = (sizing' # sizing)
    /\ drag' = IF drag # NoDrag /\ drag.col \notin ToSet(header') THEN [drag EXCEPT !.gone = TRUE]
               ELSE drag
    /\ UNCHANGED <<hidden, columnOrder, pinnedCols, sort, width, resizing, cursor, userSet, columnEvents>>

----------------------------------------------------------------------------
(* The resize session of a header handle *)

StartResize(c) ==
    /\ Event /\ drag = NoDrag /\ c \in ToSet(header)
    /\ drag' = [col |-> c, start |-> Size(c), delta |-> 0, gone |-> FALSE]
    /\ resizing' = TRUE /\ cursor' = "col-resize" /\ stale' = TRUE
    /\ UNCHANGED <<sizing, hidden, columnOrder, pinnedCols, sort, width, auto, header, bodyWidths, userSet>>

\* An end-pinned column grows from its start edge: the drag runs mirrored.
MoveResize(d) ==
    /\ drag # NoDrag /\ Event
    /\ LET n == IF pinnedCols[drag.col] = "end" THEN -d ELSE d
       IN  drag' = [drag EXCEPT !.delta = n]
    /\ drag' # drag
    /\ stale' = TRUE
    /\ UNCHANGED <<sizing, hidden, columnOrder, pinnedCols, sort, width, auto, resizing, cursor, header,
                   bodyWidths, userSet>>

\* endResize, the one way out: commits the last position, removes every
\* listener and restores the cursor.
EndResize ==
    /\ sizing' = [sizing EXCEPT ![drag.col] = Clamp(drag.col, drag.start + drag.delta)]
    /\ userSet' = userSet \cup {drag.col}
    /\ drag' = NoDrag /\ resizing' = FALSE /\ cursor' = "auto" /\ stale' = TRUE

\* Mouse up or the initiating finger lifts; the window loses focus; the system
\* cancels the touch; a second finger lands on the handle.
Release ==
    /\ drag # NoDrag
    /\ EndResize
    /\ UNCHANGED <<hidden, columnOrder, pinnedCols, sort, width, auto, header, bodyWidths, columnEvents>>

\* The handle unmounted with its header in mid-drag.
HandleUnmounted ==
    /\ drag # NoDrag /\ drag.gone
    /\ EndResize
    /\ UNCHANGED <<hidden, columnOrder, pinnedCols, sort, width, auto, header, bodyWidths, columnEvents>>

\* A double click on the handle, or resetColumnSizing.
ResetSize(c) ==
    /\ Event /\ drag = NoDrag /\ sizing[c] # Unset
    /\ sizing' = [sizing EXCEPT ![c] = Unset]
    /\ userSet' = userSet \ {c}
    /\ stale' = TRUE
    /\ UNCHANGED <<hidden, columnOrder, pinnedCols, sort, width, auto, drag, resizing, cursor, header, bodyWidths>>

----------------------------------------------------------------------------
(* The header menu and the columns menu *)

ToggleVisibility(c) ==
    /\ Event
    /\ hidden' = IF c \in hidden THEN hidden \ {c} ELSE hidden \cup {c}
    /\ stale' = TRUE
    /\ UNCHANGED <<sizing, columnOrder, pinnedCols, sort, width, auto, drag, resizing, cursor, header, bodyWidths,
                   userSet>>

Pin(c, side) ==
    /\ Event /\ c \in ToSet(header)
    /\ pinnedCols' = [pinnedCols EXCEPT ![c] = IF pinnedCols[c] = side THEN "no" ELSE side]
    /\ stale' = TRUE
    /\ UNCHANGED <<sizing, hidden, columnOrder, sort, width, auto, drag, resizing, cursor, header, bodyWidths,
                   userSet>>

\* Move left and right: one place in the whole order, hidden columns counted.
Move(c, by) ==
    /\ Event /\ c \in ToSet(header) /\ pinnedCols[c] = "no"
    /\ LET i == CHOOSE k \in DOMAIN columnOrder : columnOrder[k] = c
       IN  /\ i + by \in DOMAIN columnOrder
           /\ columnOrder' = [columnOrder EXCEPT ![i] = columnOrder[i + by], ![i + by] = c]
    /\ stale' = TRUE
    /\ UNCHANGED <<sizing, hidden, pinnedCols, sort, width, auto, drag, resizing, cursor, header, bodyWidths,
                   userSet>>

\* A column header dropped over another: the consumer moves it there.
DropColumn(c, d) ==
    /\ Event /\ drag = NoDrag /\ {c, d} \subseteq ToSet(header) /\ c # d
    /\ LET to == CHOOSE k \in DOMAIN columnOrder : columnOrder[k] = d
       IN  columnOrder' = InsertAt(SelectSeq(columnOrder, LAMBDA x : x # c), to, c)
    /\ stale' = TRUE
    /\ UNCHANGED <<sizing, hidden, pinnedCols, sort, width, auto, drag, resizing, cursor, header, bodyWidths,
                   userSet>>

\* handleSort: ascending, descending, none.  A menu item toggles its own.
SortBy(c, how) ==
    /\ Event /\ c \in ToSet(header)
    /\ LET now == IF sort.col = c THEN sort.dir ELSE "none"
           cycled == CASE now = "asc" -> "desc" [] now = "desc" -> "none" [] OTHER -> "asc"
           next == IF how = "click" THEN cycled ELSE IF now = how THEN "none" ELSE how
       IN  sort' = IF next = "none" THEN [col |-> "none", dir |-> "none"]
                   ELSE [col |-> c, dir |-> next]
    /\ stale' = TRUE
    /\ UNCHANGED <<sizing, hidden, columnOrder, pinnedCols, width, auto, drag, resizing, cursor, header, bodyWidths,
                   userSet>>

----------------------------------------------------------------------------

ColumnsInit ==
    /\ sizing = [c \in ColumnIds |-> Unset] /\ hidden = {} /\ columnOrder = Columns
    /\ pinnedCols = [c \in ColumnIds |-> "no"] /\ sort = [col |-> "none", dir |-> "none"]
    /\ width \in Widths
    /\ auto = [applied |-> NoDrag, timer |-> FALSE, pending |-> 0, recent |-> FALSE]
    /\ drag = NoDrag /\ resizing = FALSE /\ cursor = "auto"
    /\ header = Columns /\ bodyWidths = Columns /\ stale = TRUE
    /\ userSet = {} /\ columnEvents = 0

ColumnsNext ==
    \/ Settle \/ WindowPasses \/ Render \/ Release \/ HandleUnmounted
    \/ \E w \in Widths : ResizeContainer(w)
    \/ \E d \in Deltas : MoveResize(d)
    \/ \E c \in ColumnIds :
         \/ StartResize(c) \/ ResetSize(c) \/ ToggleVisibility(c)
         \/ \E side \in {"start", "end"} : Pin(c, side)
         \/ \E by \in {-1, 1} : Move(c, by)
         \/ \E d \in ColumnIds : DropColumn(c, d)
         \/ \E how \in {"click", "asc", "desc"} : SortBy(c, how)

\* React commits what is due, timers fire, time passes, effects clean up.
ColumnsFairness == WF_colVars(Render) /\ WF_colVars(Settle) /\ WF_colVars(WindowPasses)
            /\ WF_colVars(HandleUnmounted)

ColumnsSpec == ColumnsInit /\ [][ColumnsNext]_colVars /\ ColumnsFairness

----------------------------------------------------------------------------
(* Properties *)

\* createDataGridAutoSizeController: a width the person dragged a column to is
\* never overwritten by a measurement, unless it is the very number the
\* controller last wrote.
UserWidthKept ==
    [][\A c \in userSet \cap userSet' :
          (drag' = drag /\ (auto.applied # NoDrag => sizing[c] # auto.applied.grown))
          => sizing'[c] = sizing[c]]_colVars

Filled == auto.applied # NoDrag /\ Candidate = auto.applied.col
          /\ sizing[Candidate] = auto.applied.grown

\* apply, reflow: once the container and the columns are left alone, a column
\* that fills itself takes exactly the free space, or its minimum.
FillSettles ==
    <>[](Filled => Size(Candidate) =
            Max({MinSize[Candidate], width - (TotalSize - Size(Candidate))}))

\* Widths: the person's are kept, and the grid's come to rest.
WidthsHold == UserWidthKept /\ FillSettles
=============================================================================
