--------------------------- MODULE DataGridCells ---------------------------
(***************************************************************************)
(* The spreadsheet controller of the data grid                             *)
(* (reui/data-grid/data-grid-cell-selection.tsx): cell ranges and the      *)
(* focused cell, keyboard navigation over what the view can show, the      *)
(* clipboard, the fill drag, the built-in editor, and the batches of cell  *)
(* changes they hand to the consumer, whose data may change underneath.    *)
(*                                                                         *)
(* Rows are addressed by id; `order` is the display order before paging,   *)
(* with the bottom-pinned rows last.  A range keeps its two corners by id, *)
(* and the focused cell is the anchor of the newest range.  Styling, DOM   *)
(* measurements, scrolling and the accessibility attributes are left out.  *)
(***************************************************************************)
EXTENDS Naturals, FiniteSets, Sequences, SequencesExt, FiniteSetsExt

CONSTANTS
    AllRows,      \* the row ids, a sequence in the initial display order
    NCols,        \* the visible columns are 1 .. NCols in display order
    PageSize,
    Pinned,       \* the bottom-pinned rows, shown on every page
    Selectable,   \* the columns that do not opt out of cell selection
    Editable,     \* the columns with a cellEdit contract
    Locked,       \* the rows its function-form `editable` refuses
    Numeric,      \* the columns whose parse refuses a text in Words
    Words,        \* the texts a numeric column refuses
    Values,       \* the cell values; Blank is null
    Blank,
    Start,        \* the initial value of every cell
    MaxWrites,    \* bound: batches the consumer applies
    MaxLive,      \* bound: changes of the data from outside the grid
    MaxRanges,    \* bound: ranges held at once
    GestureSets   \* bound: the kinds of gesture used together in a behaviour

VARIABLES
    order, page, cells,     \* the rows, the page shown, the data
    sel,                    \* the ranges, newest last
    clip,                   \* the system clipboard
    cutting,                \* a Ctrl+X whose clipboard write has not resolved
    editor, fill, want,     \* editor session, fill drag, focusCell retry
    batch,                  \* the batch the last step dispatched
    writes, live, uses      \* the bounded counts; the gestures of this behaviour

gridVars == <<order, page, cells, sel, clip, cutting, editor, fill, want, batch, writes, live, uses>>

None == [none |-> TRUE]
NoBatch == [source |-> "none", changes |-> {}, rejected |-> {}, region |-> {}]
Cols == 1..NCols
RowIds == ToSet(AllRows)

ASSUME GridAssumption ==
    /\ NCols \in Nat \ {0} /\ PageSize \in Nat \ {0}
    /\ Selectable \subseteq 1..NCols /\ Editable \subseteq 1..NCols
    /\ Pinned \subseteq ToSet(AllRows) /\ Blank \in Values

----------------------------------------------------------------------------
(* What the view shows *)

CenterOf(rows) == SelectSeq(rows, LAMBDA r : r \notin Pinned)
Center == CenterOf(order)

\* The page slice of a display order, and with it the rows the DOM renders
\* outside it.
SliceOf(rows, p) ==
    LET center == CenterOf(rows)
    IN  {center[i] : i \in {j \in DOMAIN center : j > p * PageSize /\ j <= (p + 1) * PageSize}}
RenderedOf(rows, p) ==
    LET shown == SliceOf(rows, p) \cup Pinned
    IN  SelectSeq(rows, LAMBDA r : r \in shown)
Slice == SliceOf(order, page)
Rendered == RenderedOf(order, page)
RenderedRowIds == ToSet(Rendered)
SelectableColumns == SelectSeq([c \in 1..NCols |-> c], LAMBDA c : c \in Selectable)
At(seq, x) == CHOOSE i \in DOMAIN seq : seq[i] = x
Index(r) == At(order, r)
In(r) == r \in ToSet(order)

\* getDataGridWritableCellEdit
Writable(r, c) == c \in Editable /\ r \notin Locked
Refuses(c, raw) == c \in Numeric /\ raw \in Words

----------------------------------------------------------------------------
(* Selection geometry *)

Cell(r, c) == [row |-> r, col |-> c]
Range1(a, f) == [anchor |-> a, focus |-> f]

\* A range whose corner ids left the table drops out of the bounds.
Resolved(s) == SelectSeq(s, LAMBDA g : In(g.anchor.row) /\ In(g.focus.row))
BoundOf(g) ==
    LET rs == {Index(g.anchor.row), Index(g.focus.row)}
        cs == {g.anchor.col, g.focus.col}
    IN  [r1 |-> Min(rs), r2 |-> Max(rs), c1 |-> Min(cs), c2 |-> Max(cs)]

\* The feature hands its bounds back in geometric order.
Before(a, b) == \/ a.r1 < b.r1
                \/ a.r1 = b.r1 /\ a.c1 < b.c1
                \/ a.r1 = b.r1 /\ a.c1 = b.c1 /\ (a.r2 < b.r2 \/ (a.r2 = b.r2 /\ a.c2 < b.c2))
BoundsOf(s) == SetToSortSeq({BoundOf(Resolved(s)[i]) : i \in DOMAIN Resolved(s)}, Before)
Bounds == BoundsOf(sel)

FocusedOf(s) == IF s = <<>> \/ ~In(Last(s).anchor.row) THEN None ELSE Last(s).anchor
Focused == FocusedOf(sel)
Holds(b, x) == /\ Index(x.row) >= b.r1 /\ Index(x.row) <= b.r2
               /\ x.col >= b.c1 /\ x.col <= b.c2

\* getDataGridActiveBound: the first bound holding the focused cell, else the
\* geometric last.
ActiveBoundOf(s) ==
    LET bs == BoundsOf(s)
        holding == {i \in DOMAIN bs : FocusedOf(s) # None /\ Holds(bs[i], FocusedOf(s))}
    IN  IF bs = <<>> THEN None
        ELSE IF holding = {} THEN Last(bs) ELSE bs[Min(holding)]
ActiveBound == ActiveBoundOf(sel)

\* The corner of the active bound across from the focused cell.
ActiveCorner(s) ==
    LET b == ActiveBoundOf(s)
        x == FocusedOf(s)
    IN  Cell(order[IF Index(x.row) = b.r1 THEN b.r2 ELSE b.r1],
             IF x.col = b.c1 THEN b.c2 ELSE b.c1)

\* The cells of a bound the view shows: what the selection paints and what
\* every batch walk keeps.
Visible(b) == {Cell(order[i], c) : i \in {j \in b.r1..b.r2 : order[j] \in RenderedRowIds},
                                   c \in {k \in b.c1..b.c2 : k \in Selectable}}
Painted(bs) == UNION {Visible(bs[i]) : i \in DOMAIN bs}

\* setFocusedCell, and selectCellRange with mode "replace".
FocusOn(x) == sel' = <<Range1(x, x)>>
SelectRange(a, f) == sel' = <<Range1(a, f)>>

----------------------------------------------------------------------------
(* Batches *)

Change(x, prev, val) == [cell |-> x, prev |-> prev, val |-> val]
Written(data, changes) ==
    [r \in RowIds |-> [c \in Cols |->
        LET here == {ch \in changes : ch.cell = Cell(r, c)}
        IN  IF here = {} THEN data[r][c] ELSE (CHOOSE ch \in here : TRUE).val]]

\* The consumer applies the one batch of an operation to its own state.
Dispatch(source, changes, rejected, region) ==
    /\ writes < MaxWrites
    /\ writes' = writes + 1
    /\ batch' = [source |-> source, changes |-> changes,
                 rejected |-> rejected, region |-> region]
    /\ cells' = Written(cells, changes)

Quiet == batch' = NoBatch /\ UNCHANGED <<cells, writes>>
Idle == editor = None /\ fill = None

\* buildDataGridClearDetails: the writable painted cells of the bounds.
ClearDetails(bs) ==
    {Change(x, cells[x.row][x.col], Blank) :
        x \in {y \in Painted(bs) : Writable(y.row, y.col)}}

----------------------------------------------------------------------------
(* Clipboard *)

\* getDataGridActiveRegionGrid: the shown rows of the active bound, with the
\* opt-out columns compacted away.
RegionGrid(b) ==
    LET rows == SelectSeq(SubSeq(order, b.r1, b.r2), LAMBDA r : r \in RenderedRowIds)
        cols == SelectSeq(SelectableColumns, LAMBDA c : c >= b.c1 /\ c <= b.c2)
    IN  [i \in DOMAIN rows |->
            IF cols = <<>> THEN <<Blank>> ELSE [j \in DOMAIN cols |-> cells[rows[i]][cols[j]]]]

\* serializeDataGridClipboardText then parseDataGridClipboardText: a last line
\* of one empty field is taken for the terminator a spreadsheet writes.
ThroughText(grid) ==
    IF Len(grid) > 1 /\ Last(grid) = <<Blank>> THEN Front(grid) ELSE grid

\* An empty text is not pasted at all.
EmptyText(grid) == grid = <<<<Blank>>>>

\* tileDataGridClipboardBlock
Tiled(block, i, j) ==
    LET line == block[((i - 1) % Len(block)) + 1]
    IN  line[((j - 1) % Len(line)) + 1]

\* The place of a row, or of a column, among those a block landing on a bound
\* goes to, counted from the bound's first.
RowPlace(b, r) == Cardinality({q \in RenderedRowIds : Index(q) >= b.r1 /\ Index(q) <= Index(r)})
ColumnPlace(b, c) == Cardinality({d \in Selectable : d >= b.c1 /\ d <= c})

\* A single cell, or a block the region is a multiple of, fills the region;
\* anything else is pasted once from the top left; a region of opt-out columns
\* takes nothing.
PasteSize(block, b) ==
    LET regionRows == b.r2 - b.r1 + 1
        regionColumns == ColumnPlace(b, b.c2)
        fills == regionRows % Len(block) = 0 /\ regionColumns % Len(block[1]) = 0
    IN  IF regionColumns = 0 THEN [rows |-> 0, columns |-> 0]
        ELSE IF fills THEN [rows |-> regionRows, columns |-> regionColumns]
        ELSE [rows |-> Len(block), columns |-> Len(block[1])]

\* Bug variant: a block runs on over the rows that are not shown.
PasteContiguousRows(block, b) ==
    [rows |-> {order[i] : i \in {j \in DOMAIN order :
                 j >= b.r1 /\ j < b.r1 + PasteSize(block, b).rows}},
     columns |-> {c \in Selectable : c >= b.c1 /\ ColumnPlace(b, c) <= PasteSize(block, b).columns}]

\* buildDataGridPasteDetails: where a block lands, the next rows the view shows
\* and the next columns that are selectable.
PasteTarget(block, b) ==
    [rows |-> {r \in RenderedRowIds :
                 Index(r) >= b.r1 /\ RowPlace(b, r) <= PasteSize(block, b).rows},
     columns |-> {c \in Selectable : c >= b.c1 /\ ColumnPlace(b, c) <= PasteSize(block, b).columns}]

Copy ==
    /\ "clipboard" \in uses /\ Idle /\ ActiveBound # None
    /\ RegionGrid(ActiveBound) # <<>>
    /\ clip' = [text |-> RegionGrid(ActiveBound)]
    /\ Quiet
    /\ UNCHANGED <<order, page, sel, cutting, editor, fill, want, live, uses>>

\* The native cut event: the text is set and the region cleared in one task.
CutEvent ==
    /\ "clipboard" \in uses /\ Idle /\ ActiveBound # None
    /\ RegionGrid(ActiveBound) # <<>>
    /\ clip' = [text |-> RegionGrid(ActiveBound)]
    /\ LET changes == ClearDetails(<<ActiveBound>>)
       IN  IF changes = {} THEN Quiet
           ELSE Dispatch("cut", changes, {}, Visible(ActiveBound))
    /\ UNCHANGED <<order, page, sel, cutting, editor, fill, want, live, uses>>

\* Ctrl+X: the asynchronous clipboard write starts now ...
CutKey ==
    /\ "clipboard" \in uses /\ Idle /\ ~cutting /\ ActiveBound # None
    /\ RegionGrid(ActiveBound) # <<>>
    /\ clip' = [text |-> RegionGrid(ActiveBound)]
    /\ cutting' = TRUE
    /\ Quiet
    /\ UNCHANGED <<order, page, sel, editor, fill, want, live, uses>>

\* ... and when it resolves the region selected by then is cleared.
CutWritten ==
    /\ cutting /\ cutting' = FALSE
    /\ LET changes == IF ActiveBound = None THEN {} ELSE ClearDetails(<<ActiveBound>>)
       IN  IF changes = {} THEN Quiet
           ELSE Dispatch("cut", changes, {}, Visible(ActiveBound))
    /\ UNCHANGED <<order, page, sel, clip, editor, fill, want, live, uses>>

\* Denied by the browser, and the legacy command failed too: nothing clears.
CutDenied ==
    /\ cutting /\ cutting' = FALSE
    /\ Quiet
    /\ UNCHANGED <<order, page, sel, clip, editor, fill, want, live, uses>>

\* The batch a block makes over a bound: the cells it writes and those that
\* cannot be written or refuse the text.
PasteDetails(block, b) ==
    LET t == PasteTarget(block, b)
        put == {Cell(r, c) : r \in t.rows, c \in t.columns}
        Text(x) == Tiled(block, RowPlace(b, x.row), ColumnPlace(b, x.col))
        ok == {x \in put : Writable(x.row, x.col) /\ ~Refuses(x.col, Text(x))}
    IN  [changes |-> {Change(x, cells[x.row][x.col], Text(x)) : x \in ok},
         rejected |-> put \ ok,
         rows |-> t.rows, columns |-> t.columns]

\* The last of some rows in the display order.
LastRow(rows) == CHOOSE r \in rows : \A q \in rows : Index(q) <= Index(r)

\* The paste event: one batch, then the pasted region becomes the selection.
Paste ==
    /\ Idle /\ clip # None /\ ActiveBound # None
    /\ ~EmptyText(clip.text)
    /\ \E b \in {ActiveBound} : \E d \in {PasteDetails(ThroughText(clip.text), b)} :
          /\ d.changes # {} \/ d.rejected # {}
          /\ Dispatch("paste", d.changes, d.rejected, Visible(b))
          /\ SelectRange(Cell(order[b.r1], Min(d.columns)), Cell(LastRow(d.rows), Max(d.columns)))
    /\ UNCHANGED <<order, page, clip, cutting, editor, fill, want, live, uses>>

\* Delete and Backspace clear every range.
Delete ==
    /\ Idle
    /\ ClearDetails(Bounds) # {}
    /\ Dispatch("clear", ClearDetails(Bounds), {}, Painted(Bounds))
    /\ UNCHANGED <<order, page, sel, clip, cutting, editor, fill, want, live, uses>>

----------------------------------------------------------------------------
(* Moving the focus *)

\* getDataGridStepTarget: one step over the selectable columns or the rendered
\* rows.  No target at an edge, nor from a row that is not rendered, where the
\* feature's own move stalls too.
StepTarget(x, dir) ==
    LET i == IF x.row \in RenderedRowIds THEN At(Rendered, x.row) ELSE 0
        j == IF x.col \in Selectable THEN At(SelectableColumns, x.col) ELSE 0
        c == IF dir = "right" THEN j + 1 ELSE j - 1
        r == IF dir = "down" THEN i + 1 ELSE i - 1
    IN  IF dir \in {"left", "right"}
        THEN IF j # 0 /\ c \in DOMAIN SelectableColumns THEN {Cell(x.row, SelectableColumns[c])} ELSE {}
        ELSE IF i # 0 /\ r \in DOMAIN Rendered THEN {Cell(Rendered[r], x.col)} ELSE {}

Directions == {"up", "down", "left", "right"}

\* Arrows, Tab, and Enter where nothing opens.
Step(dir) ==
    /\ Idle /\ Focused # None
    /\ \E x \in StepTarget(Focused, dir) : FocusOn(x)
    /\ Quiet
    /\ UNCHANGED <<order, page, clip, cutting, editor, fill, want, live, uses>>

\* The feature's extendCellSelection: it moves the newest range's focus corner
\* over the page slice and stalls on a pinned row.
Extended(dir) ==
    LET g == Last(sel)
        to == StepTarget(g.focus, dir)
    IN  IF /\ In(g.focus.row) /\ g.focus.row \in Slice
           /\ \E x \in to : x.row \in Slice
        THEN [sel EXCEPT ![Len(sel)].focus = CHOOSE x \in to : TRUE]
        ELSE sel

BoundKey(s) == IF BoundsOf(s) = <<>> THEN <<0>> ELSE <<Len(BoundsOf(s)), Last(BoundsOf(s))>>

\* extendDataGridSelection, Shift+Arrow: the feature extends; when the key of
\* the bounds did not change, the active corner steps in visual space and the
\* selection becomes that one range.
ShiftArrow(dir) ==
    /\ Idle /\ Focused # None
    /\ \E s \in {Extended(dir)} :
         IF BoundKey(s) # BoundKey(sel) THEN sel' = s
         ELSE \E x \in {FocusedOf(s)} :
              \E to \in {StepTarget(IF ActiveBoundOf(s) = None THEN x ELSE ActiveCorner(s), dir)} :
                 sel' = IF to = {} THEN s ELSE <<Range1(x, CHOOSE y \in to : TRUE)>>
    /\ Quiet
    /\ UNCHANGED <<order, page, clip, cutting, editor, fill, want, live, uses>>

\* A jump walks back toward the focus until it is on a rendered row.
Clamped(i, target) ==
    LET span == IF target >= i THEN i..target ELSE target..i
        ok == {k \in span : k = i \/ order[k] \in RenderedRowIds}
    IN  IF target >= i THEN Max(ok) ELSE Min(ok)

RowTargets(i) ==
    {1, Len(order), i, Min({Len(order), i + PageSize}), IF i > PageSize THEN i - PageSize ELSE 1}
ColumnTargets(c) == {SelectableColumns[1], Last(SelectableColumns), c}

\* jumpFocus: Home, End, Ctrl+Arrow, PageUp and PageDown; with Shift the range
\* runs from the corner across from the focused cell.
Jump(extend) ==
    /\ Idle /\ Focused # None
    /\ \E x \in {Focused}, rt \in RowTargets(Index(Focused.row)), c \in ColumnTargets(Focused.col) :
       \E to \in {Cell(order[Clamped(Index(x.row), rt)], c)} :
          IF ~extend THEN FocusOn(to)
          ELSE SelectRange(IF ActiveBound = None THEN x ELSE ActiveCorner(sel), to)
    /\ Quiet
    /\ UNCHANGED <<order, page, clip, cutting, editor, fill, want, live, uses>>

\* Ctrl+A: the whole display order, the pages not shown included.
SelectAll ==
    /\ Idle /\ order # <<>>
    /\ SelectRange(Cell(order[1], SelectableColumns[1]), Cell(Last(order), Last(SelectableColumns)))
    /\ Quiet
    /\ UNCHANGED <<order, page, clip, cutting, editor, fill, want, live, uses>>

\* Escape, and the API's clearSelection.
Escape ==
    /\ Idle /\ Bounds # <<>>
    /\ sel' = <<>>
    /\ Quiet
    /\ UNCHANGED <<order, page, clip, cutting, editor, fill, want, live, uses>>

----------------------------------------------------------------------------
(* The editor *)

\* What a finished editor hands to the consumer.  The row is read again; an
\* unchanged text writes nothing, a refused one is reported.
CommitEffect(ed) ==
    LET x == ed.cell
    IN  IF ed.text = ed.baseline \/ ~In(x.row) \/ ~Writable(x.row, x.col) THEN Quiet
        ELSE IF Refuses(x.col, ed.text) THEN Dispatch("edit", {}, {x}, {x})
        ELSE Dispatch("edit", {Change(x, cells[x.row][x.col], ed.text)}, {}, {x})

Session(x) == [cell |-> x, text |-> cells[x.row][x.col], baseline |-> cells[x.row][x.col]]

\* requestCellEdit, on Enter, F2 or a double click of the focused cell; the
\* overlay cancels itself when it finds no focused cell to measure.
OpenEditor ==
    /\ "editor" \in uses /\ Idle /\ Focused # None
    /\ Focused.row \in RenderedRowIds /\ Writable(Focused.row, Focused.col)
    /\ editor' = Session(Focused)
    /\ Quiet
    /\ UNCHANGED <<order, page, sel, clip, cutting, fill, want, live, uses>>

TypeText(v) ==
    /\ editor # None /\ v # editor.text
    /\ editor' = [editor EXCEPT !.text = v]
    /\ Quiet
    /\ UNCHANGED <<order, page, sel, clip, cutting, fill, want, live, uses>>

\* Enter, Tab: the session closes, the focus advances, then the value goes out.
CommitEditor(advance) ==
    /\ editor # None
    /\ editor' = None
    /\ IF advance = "stay" \/ Focused = None \/ StepTarget(Focused, advance) = {}
       THEN UNCHANGED sel
       ELSE \E x \in StepTarget(Focused, advance) : FocusOn(x)
    /\ CommitEffect(editor)
    /\ UNCHANGED <<order, page, clip, cutting, fill, want, live, uses>>

CancelEditor ==
    /\ editor # None
    /\ editor' = None
    /\ Quiet
    /\ UNCHANGED <<order, page, sel, clip, cutting, fill, want, live, uses>>

\* A press on a cell: a plain one collapses to it, Shift moves the newest
\* range's corner, Ctrl starts another range.  Leaving an open editor commits
\* it, with nothing refocused.
Press(x, how) ==
    /\ fill = None
    /\ x.row \in RenderedRowIds /\ x.col \in Selectable
    /\ CASE how = "plain" -> FocusOn(x)
         [] how = "shift" -> sel' = IF sel = <<>> THEN <<Range1(x, x)>>
                                    ELSE [sel EXCEPT ![Len(sel)].focus = x]
         [] how = "add" -> "ranges" \in uses /\ Len(sel) < MaxRanges /\ sel' = Append(sel, Range1(x, x))
    /\ editor' = None
    /\ IF editor = None THEN Quiet ELSE CommitEffect(editor)
    /\ UNCHANGED <<order, page, clip, cutting, fill, want, live, uses>>

----------------------------------------------------------------------------
(* focusCell: a bounded retry that waits for the row to be mounted *)

FocusCell(x, edit) ==
    /\ "focus" \in uses
    /\ x.row \notin RenderedRowIds \/ ~Idle
    /\ want' = [cell |-> x, edit |-> edit, stage |-> "find"]
    /\ Quiet
    /\ UNCHANGED <<order, page, sel, clip, cutting, editor, fill, live, uses>>

\* The row is mounted: focus moves to the table, so an open editor commits.
Land ==
    /\ want # None /\ want.stage = "find" /\ want.cell.row \in RenderedRowIds
    /\ FocusOn(want.cell)
    /\ want' = IF want.edit THEN [want EXCEPT !.stage = "edit"] ELSE None
    /\ editor' = None
    /\ IF editor = None THEN Quiet ELSE CommitEffect(editor)
    /\ UNCHANGED <<order, page, clip, cutting, fill, live, uses>>

\* The focused attribute was committed: the editor opens on it, unless the
\* focus went elsewhere in between.
LandEdit ==
    /\ want # None /\ want.stage = "edit"
    /\ Focused = want.cell /\ Focused.row \in RenderedRowIds /\ fill = None
    /\ Writable(Focused.row, Focused.col)
    /\ editor' = IF editor # None /\ editor.cell = Focused THEN editor ELSE Session(Focused)
    /\ want' = None
    /\ Quiet
    /\ UNCHANGED <<order, page, sel, clip, cutting, fill, live, uses>>

\* The attempts ran out.
GiveUp ==
    /\ want # None
    /\ want' = None
    /\ Quiet
    /\ UNCHANGED <<order, page, sel, clip, cutting, editor, fill, live, uses>>

----------------------------------------------------------------------------
(* The fill drag *)

\* startDataGridFillSession: what it walks is taken down at the start.
StartFill ==
    /\ "fill" \in uses /\ Idle /\ Len(Bounds) = 1 /\ ActiveBound # None
    /\ Visible(ActiveBound) # {}
    /\ fill' = [bound |-> ActiveBound, rows |-> RenderedRowIds, display |-> order,
                data |-> cells, axis |-> "none", count |-> 0]
    /\ Quiet
    /\ UNCHANGED <<order, page, sel, clip, cutting, editor, want, live, uses>>

\* The rows of the drag in their order, and those of them it copies from.
FillIndex(r) == At(fill.display, r)
FillPlace(r) == Cardinality({q \in fill.rows : FillIndex(q) <= FillIndex(r)})
SourceRows == {r \in fill.rows : FillIndex(r) >= fill.bound.r1 /\ FillIndex(r) <= fill.bound.r2}
SourceEnd == Max({FillPlace(r) : r \in SourceRows})

\* handleMove: the dominant axis, down or right only.
DragFill(r, c) ==
    /\ fill # None
    /\ r \in fill.rows /\ c \in Cols
    /\ LET i == FillPlace(r)
           down == IF i > SourceEnd THEN i - SourceEnd ELSE 0
           right == IF c > fill.bound.c2 THEN c - fill.bound.c2 ELSE 0
       IN  fill' = IF down = 0 /\ right = 0 THEN [fill EXCEPT !.axis = "none", !.count = 0]
                   ELSE IF down >= right THEN [fill EXCEPT !.axis = "row", !.count = down]
                   ELSE [fill EXCEPT !.axis = "column", !.count = right]
    /\ fill' # fill
    /\ Quiet
    /\ UNCHANGED <<order, page, sel, clip, cutting, editor, want, live, uses>>

TargetRows == IF fill.axis = "row"
              THEN {r \in fill.rows : /\ FillPlace(r) > SourceEnd
                                      /\ FillPlace(r) <= SourceEnd + fill.count}
              ELSE SourceRows
TargetColumns == {c \in Selectable \cap Editable :
                     IF fill.axis = "row" THEN c >= fill.bound.c1 /\ c <= fill.bound.c2
                     ELSE c > fill.bound.c2 /\ c <= fill.bound.c2 + fill.count}

\* The value a fill puts in a cell: the source region repeats.
FillValue(x) ==
    LET n == Cardinality(SourceRows)
        place == SourceEnd - n + 1 + ((FillPlace(x.row) - SourceEnd - 1) % n)
        width == fill.bound.c2 - fill.bound.c1 + 1
    IN  IF fill.axis = "row"
        THEN fill.data[CHOOSE q \in SourceRows : FillPlace(q) = place][x.col]
        ELSE fill.data[x.row][fill.bound.c1 + ((x.col - fill.bound.c2 - 1) % width)]

\* selectDataGridRegion over the display indices of the drag's start.
GrowOverFill ==
    LET lastRow == IF fill.axis = "row" THEN Max({FillIndex(r) : r \in TargetRows}) ELSE fill.bound.r2
        lastCol == fill.bound.c2 + IF fill.axis = "column" THEN fill.count ELSE 0
    IN  IF fill.bound.r1 > Len(order) THEN UNCHANGED sel
        ELSE SelectRange(Cell(order[fill.bound.r1], fill.bound.c1),
                         Cell(order[Min({lastRow, Len(order)})], lastCol))

\* The previous value is the one the drag's start captured.
PreviousValue(x) == fill.data[x.row][x.col]

\* Release.  Across columns the value passes the target's parse.
EndFill ==
    /\ fill # None
    /\ fill' = None
    /\ IF fill.axis = "none" THEN Quiet /\ UNCHANGED sel
       ELSE \E all \in {{x \in {Cell(r, c) : r \in TargetRows, c \in TargetColumns} :
                            Writable(x.row, x.col)}} :
            \E bad \in {{x \in all : fill.axis = "column" /\ Refuses(x.col, FillValue(x))}} :
            \E changes \in {{Change(x, PreviousValue(x), FillValue(x)) : x \in all \ bad}} :
               /\ IF all = {} THEN Quiet ELSE Dispatch("fill", changes, bad, {})
               /\ GrowOverFill
    /\ UNCHANGED <<order, page, clip, cutting, editor, want, live, uses>>

CancelFill ==
    /\ fill # None
    /\ fill' = None
    /\ Quiet
    /\ UNCHANGED <<order, page, sel, clip, cutting, editor, want, live, uses>>

----------------------------------------------------------------------------
(* The data and the view change underneath *)

\* The pager turns the page, which resets the selection; pressing it took the
\* focus from an editor, which committed it.
FlipPage ==
    /\ Idle
    /\ page' = IF (page + 1) * PageSize < Len(Center) THEN page + 1 ELSE 0
    /\ page' # page
    /\ sel' = <<>>
    /\ Quiet
    /\ UNCHANGED <<order, clip, cutting, editor, fill, want, live, uses>>

\* A live value: it changes the text of a cell, which the editor's observer
\* sees only when the cell's renderer replaces elements.
LiveUpdate(r, c, v) ==
    /\ "live" \in uses /\ live < MaxLive /\ live' = live + 1
    /\ In(r) /\ cells[r][c] # v
    /\ cells' = [cells EXCEPT ![r][c] = v]
    /\ editor' \in {editor, None}
    /\ batch' = NoBatch
    /\ UNCHANGED <<order, page, sel, clip, cutting, fill, want, writes, uses>>

\* The overlay watches the body of the table and cancels the editor when rows
\* come, go or move.  Its observer is made anew by every render that hands it a
\* new onCancel, and takes along what it was not yet told: when the render that
\* moves the rows is a synchronous one, that is before it hears of them, and the
\* editor stays where it was measured.
Watched == editor' \in IF Rendered' = Rendered THEN {editor} ELSE {editor, None}

\* A re-sort, or a row deleted elsewhere.
LiveRows ==
    /\ "resort" \in uses /\ live < MaxLive /\ live' = live + 1
    /\ UNCHANGED page
    /\ \/ \E i, j \in DOMAIN order :
            /\ i < j /\ {order[i], order[j]} \cap Pinned = {}
            /\ order' = [order EXCEPT ![i] = order[j], ![j] = order[i]]
       \/ \E i \in DOMAIN order :
            /\ order[i] \notin Pinned /\ Len(Center) > page * PageSize + 1
            /\ order' = RemoveAt(order, i)
    /\ Watched
    /\ Quiet
    /\ UNCHANGED <<sel, clip, cutting, fill, want, uses>>

----------------------------------------------------------------------------

Init ==
    /\ order = AllRows /\ page = 0 /\ cells = Start
    /\ sel = <<>> /\ clip = None /\ cutting = FALSE
    /\ editor = None /\ fill = None /\ want = None
    /\ batch = NoBatch /\ writes = 0 /\ live = 0
    /\ uses \in GestureSets

Next ==
    \/ Copy \/ CutEvent \/ CutKey \/ CutWritten \/ CutDenied \/ Paste \/ Delete
    \/ \E dir \in Directions : Step(dir) \/ ShiftArrow(dir)
    \/ \E extend \in BOOLEAN : Jump(extend)
    \/ SelectAll \/ Escape
    \/ OpenEditor \/ CancelEditor
    \/ \E v \in Values : TypeText(v)
    \/ \E advance \in Directions \cup {"stay"} : CommitEditor(advance)
    \/ \E r \in RowIds, c \in Selectable, how \in {"plain", "shift", "add"} : Press(Cell(r, c), how)
    \/ \E r \in RowIds, c \in Selectable, edit \in BOOLEAN : FocusCell(Cell(r, c), edit)
    \/ Land \/ LandEdit \/ GiveUp
    \/ StartFill \/ EndFill \/ CancelFill
    \/ \E r \in RowIds, c \in Cols : DragFill(r, c)
    \/ FlipPage \/ LiveRows
    \/ \E r \in RowIds, c \in Cols, v \in Values : LiveUpdate(r, c, v)

Spec == Init /\ [][Next]_gridVars

----------------------------------------------------------------------------
(* Properties *)

\* getDataGridRenderedRowIds: what a clear, a cut, a paste or a fill writes is
\* what the person can see: cells on rendered rows and on columns that take part
\* in the selection.  A fill whose rows were reordered during the drag is the
\* exception.
OnlyShownWritten ==
    [][(batch'.source # "edit" /\ (batch'.source = "fill" => fill.display = order))
       => \A ch \in batch'.changes :
             ch.cell.row \in RenderedRowIds /\ ch.cell.col \in Selectable]_gridVars
=============================================================================
