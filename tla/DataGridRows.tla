---------------------------- MODULE DataGridRows ----------------------------
(***************************************************************************)
(* The rows of the data grid: the virtual body with its window, spacers    *)
(* and infinite loading (data-grid-table-virtual.tsx), rows that are       *)
(* pinned, selected and dragged (data-grid-table.tsx,                      *)
(* data-grid-table-dnd-rows.tsx), the custom scrollbar                     *)
(* (data-grid-scroll-area.tsx) and the pager (data-grid-pagination.tsx).   *)
(*                                                                         *)
(* `Commit` is a React commit of DataGridTableVirtual with its effects in  *)
(* order.  Rows are RowH high, centre rows are counted from zero, and the  *)
(* virtualizer and the table are external.  An instance exercises one set  *)
(* of gestures per behaviour.                                              *)
(***************************************************************************)
EXTENDS Integers, FiniteSets, Sequences, SequencesExt, FiniteSetsExt

CONSTANTS
    RowH, HeadH, ViewH,    \* heights of a row, the header and the viewport
    Sticky,                \* tableLayout.headerSticky
    Overscan, FetchOffset, \* overscan, fetchMoreOffset
    Total, FetchSize, Loaded, \* rows at the source, per page, loaded at first
    TellsEnd,              \* the consumer sets hasMore = false at the end
    Offsets,               \* where a person scrolls to
    MoreLimit, Sizes,      \* pager: pages per group, page sizes
    RowGestures,           \* bound: the gestures of one behaviour
    MaxEvents              \* bound: gestures in a behaviour

VARIABLES
    gestures,              \* the gestures of this behaviour
    rows, pinned, checked, \* data in display order; top rows; rowSelection
    scroll, window, body, skipped, due,             \* the virtual body
    selecting, edgeDrag,   \* cells are being selected, a column resized
    latch, calls, asked, flag, more, broken,        \* infinite loading
    wantRow, last, pending, \* the controlled row and what was done about it
    mover,                 \* what moved the rows on screen last
    carried, thumb, metrics,
    pager, events

freezeVars == <<selecting, edgeDrag>>
listVars == <<rows, pinned, checked>>
fetchVars == <<latch, calls, asked, flag, more, broken>>
askVars == <<wantRow, last, pending>>
dragVars == <<carried, thumb, metrics>>
rowVars == <<gestures, listVars, scroll, window, body, skipped, freezeVars, due, fetchVars, askVars,
             mover, dragVars, pager, events>>

Nobody == [none |-> TRUE]
Unseen == -1

ASSUME RowsAssumption ==
    /\ RowH \in Nat \ {0} /\ HeadH \in Nat /\ ViewH > HeadH + RowH
    /\ Loaded <= Total /\ FetchSize > 0 /\ MoreLimit > 0 /\ \A s \in Sizes : s > 0

Gesture(g) == g \in gestures /\ events < MaxEvents /\ events' = events + 1

----------------------------------------------------------------------------
(* Sections and geometry *)

\* getDataGridTableRowSections: top rows, then the rest.
CenterRows == SelectSeq(rows, LAMBDA r : r \notin pinned)
TopRows == SelectSeq(rows, LAMBDA r : r \in pinned)
Count == Len(CenterRows)
RowId(i) == CenterRows[i + 1]

ScrollHeight == HeadH + RowH * Len(rows)
Furthest(h) == Max({0, h - ViewH})

\* A scroll position the browser accepts.
Within(t) == Min({Max({0, t}), Furthest(ScrollHeight)})
RowTop(i) == HeadH + RowH * (Len(TopRows) + i)

\* getDataGridTableHeaderOffset: what a stuck header covers.
HeaderOffset == IF Sticky THEN HeadH ELSE 0
OnScreen(i, s) == RowTop(i) >= s + HeaderOffset /\ RowTop(i) + RowH <= s + ViewH
Touches(i, s) == RowTop(i) + RowH > s + HeaderOffset /\ RowTop(i) < s + ViewH

\* Bug variant: no overscan.
BareWindow(s) == {i \in 0..(Count - 1) : RowH * (i + 1) > s /\ RowH * i < s + ViewH}

\* The virtualizer's items: it counts from the first centre row, the page from
\* the header, and the overscan covers the difference.
Window(s) == {i \in 0..(Count - 1) : RowH * (i + 1 + Overscan) > s
                                     /\ RowH * (i - Overscan) < s + ViewH}

\* getDataGridTableScrollTarget, or where the row already is.
ScrollTarget(align, i, s) ==
    LET top == RowTop(i)
        bottom == top + RowH
        room == Max({0, ViewH - HeaderOffset})
        centred == top - HeaderOffset - Max({0, (room - RowH) \div 2})
    IN  CASE align = "auto" ->
               IF top < s + HeaderOffset THEN Within(top - HeaderOffset)
               ELSE IF bottom > s + ViewH THEN Within(bottom - ViewH) ELSE s
          [] align = "start" -> Within(top - HeaderOffset)
          [] align = "end" -> Within(bottom - ViewH)
          [] align = "center" -> Within(centred)

\* virtualizer.scrollToIndex: the estimate, blind to header and pinned rows.
EstimateFor(align, i, s) ==
    CASE align = "start" \/ (align = "auto" /\ RowH * i < s) -> Within(RowH * i)
      [] align = "end" \/ (align = "auto" /\ RowH * (i + 1) > s + ViewH) ->
            Within(RowH * (i + 1) - ViewH)
      [] align = "center" -> Within(RowH * i - ((ViewH - RowH) \div 2))
      [] OTHER -> s

----------------------------------------------------------------------------
(* The commit of the virtual grid and its effects *)

Mounted(b, i) == [index |-> i, row |-> RowId(i)] \in b

\* isSameDataGridTableScrollRequest.
SameRequest(sig) == last = sig

\* Bug variant: nothing follows the estimate up.
NoFollowUp(b) == scroll' = scroll /\ pending' = pending /\ UNCHANGED last

\* The row the pending request waits for has entered the window.
FollowUp(b) ==
    /\ scroll' = IF Mounted(b, pending) THEN ScrollTarget(wantRow.align, pending, scroll) ELSE scroll
    /\ pending' = IF Mounted(b, pending) THEN Unseen ELSE pending
    /\ UNCHANGED last

\* The effect of a controlled scrollToRowIndex and its follow-up.
Reveal(b, items) ==
    LET valid == wantRow # Nobody /\ wantRow.index < Count
        sig == [row |-> RowId(wantRow.index), want |-> wantRow]
    IN  \/ /\ ~valid
           /\ last' = Nobody /\ pending' = Unseen /\ scroll' = scroll
        \/ /\ valid /\ SameRequest(sig)
           /\ IF pending = wantRow.index /\ pending \in items \ window THEN FollowUp(b)
              ELSE scroll' = scroll /\ UNCHANGED <<last, pending>>
        \/ /\ valid /\ ~SameRequest(sig)
           /\ last' = sig
           /\ IF Mounted(b, wantRow.index)
              THEN /\ scroll' = ScrollTarget(wantRow.align, wantRow.index, scroll)
                   /\ pending' = Unseen
              ELSE /\ scroll' = EstimateFor(wantRow.align, wantRow.index, scroll)
                   /\ pending' = wantRow.index

\* The infinite-loading effect, latched per number of centre rows.
FetchMore(items) ==
    IF more /\ ~flag /\ items # {} /\ latch # Count /\ Max(items) >= Count - 1 - FetchOffset
    THEN latch' = Count /\ calls' = calls + 1 /\ asked' = asked + 1
    ELSE UNCHANGED <<latch, calls, asked>>

\* What the memoized body asks before it renders.
Frozen == selecting \/ edgeDrag

\* The commit.  A frozen body keeps its last render.
Commit ==
    /\ due
    /\ \E items \in {Window(scroll)} :
       \E b \in {IF Frozen THEN body ELSE {[index |-> i, row |-> RowId(i)] : i \in items}} :
          /\ body' = b /\ skipped' = (Frozen /\ body # {[index |-> i, row |-> RowId(i)] : i \in items})
          /\ Reveal(b, items)
          /\ FetchMore(items)
          /\ window' = items
    /\ due' = (scroll' # scroll)
    /\ mover' = IF scroll' = scroll THEN mover ELSE IF Frozen THEN "drag" ELSE "grid"
    /\ UNCHANGED <<gestures, listVars, freezeVars, flag, more, broken, wantRow, dragVars, pager, events>>

----------------------------------------------------------------------------
(* The consumer: pages, live rows, the controlled row *)

FetchStarts ==
    /\ asked > 0 /\ ~flag
    /\ flag' = TRUE /\ due' = TRUE
    /\ UNCHANGED <<gestures, listVars, scroll, window, body, skipped, freezeVars, latch, calls, asked,
                   more, broken, askVars, mover, dragVars, pager, events>>

\* The next page, empty at the end of the data.
FetchOk ==
    /\ flag /\ asked > 0
    /\ LET n == Min({Total, Len(rows) + FetchSize})
       IN  /\ rows' = rows \o [k \in 1..(n - Len(rows)) |-> Len(rows) + k]
           /\ more' = ~(TellsEnd /\ n = Total)
           /\ calls' = IF n = Len(rows) THEN calls ELSE 0
    /\ asked' = asked - 1 /\ flag' = FALSE /\ due' = TRUE
    /\ UNCHANGED <<gestures, pinned, checked, scroll, window, body, skipped, freezeVars, latch, broken,
                   askVars, mover, dragVars, pager, events>>

FetchFails ==
    /\ flag /\ asked > 0 /\ Gesture("fail")
    /\ asked' = asked - 1 /\ flag' = FALSE /\ due' = TRUE /\ broken' = TRUE
    /\ UNCHANGED <<gestures, listVars, scroll, window, body, skipped, freezeVars, latch, calls, more,
                   askVars, mover, dragVars, pager>>

\* A live update puts the last row first.
LiveSort ==
    /\ Gesture("sort") /\ Len(rows) > 1
    /\ rows' = <<Last(rows)>> \o Front(rows)
    /\ due' = TRUE
    /\ UNCHANGED <<gestures, pinned, checked, scroll, window, body, skipped, freezeVars, fetchVars,
                   askVars, mover, dragVars, pager>>

\* scrollToRowIndex and scrollToRowAlign change, or are withdrawn.
Ask(w) ==
    /\ Gesture("ask") /\ w # wantRow
    /\ wantRow' = w /\ due' = TRUE
    /\ UNCHANGED <<gestures, listVars, scroll, window, body, skipped, freezeVars, fetchVars, last,
                   pending, mover, dragVars, pager>>

----------------------------------------------------------------------------
(* The person: scrolling, selecting cells, pinning and checking rows *)

Scroll(s) ==
    /\ Gesture("scroll") /\ Within(s) # scroll
    /\ scroll' = Within(s) /\ due' = TRUE /\ mover' = "person"
    /\ UNCHANGED <<gestures, listVars, window, body, skipped, freezeVars, fetchVars, askVars, dragVars,
                   pager>>

\* A cell-selection drag begins on a cell of a mounted row, or ends; the table's
\* flag is not state, so nothing need render when it ends.
DragCells ==
    /\ Gesture("cells") /\ selecting' = ~selecting /\ (selecting \/ body # {})
    /\ due' \in {due, TRUE} /\ mover' = "drag"
    /\ UNCHANGED <<gestures, listVars, scroll, window, body, skipped, edgeDrag, fetchVars, askVars,
                   dragVars, pager>>

\* A column's edge is taken or let go of: isResizingColumn is state, so this
\* renders.
DragColumn ==
    /\ Gesture("resize") /\ edgeDrag' = ~edgeDrag
    /\ due' = TRUE /\ mover' = "drag"
    /\ UNCHANGED <<gestures, listVars, scroll, window, body, skipped, selecting, fetchVars, askVars,
                   dragVars, pager>>

\* row.pin("top") adds the row to those at the top; row.pin(false) takes it out.
TogglePin(r) ==
    /\ Gesture("pin")
    /\ pinned' = IF r \in pinned THEN pinned \ {r} ELSE pinned \cup {r}
    /\ calls' = 0 /\ due' = TRUE /\ mover' = "pin"
    /\ UNCHANGED <<gestures, rows, checked, scroll, window, body, skipped, freezeVars, latch, asked,
                   flag, more, broken, askVars, dragVars, pager>>

ToggleRow(r) ==
    /\ Gesture("check")
    /\ checked' = IF r \in checked THEN checked \ {r} ELSE checked \cup {r}
    /\ UNCHANGED <<gestures, rows, pinned, scroll, window, body, skipped, freezeVars, due, fetchVars,
                   askVars, mover, dragVars, pager>>

AllChecked == rows # <<>> /\ ToSet(rows) \subseteq checked

\* The header checkbox, and the clear button of DataGridSelectionBar.
ToggleAll ==
    /\ Gesture("check") /\ rows # <<>>
    /\ checked' = IF AllChecked THEN checked \ ToSet(rows) ELSE checked \cup ToSet(rows)
    /\ UNCHANGED <<gestures, rows, pinned, scroll, window, body, skipped, freezeVars, due, fetchVars,
                   askVars, mover, dragVars, pager>>

ClearChecked ==
    /\ Gesture("check") /\ checked \cap ToSet(rows) # {}
    /\ checked' = {}
    /\ UNCHANGED <<gestures, rows, pinned, scroll, window, body, skipped, freezeVars, due, fetchVars,
                   askVars, mover, dragVars, pager>>

----------------------------------------------------------------------------
(* A row carried to another place *)

RowAt(r) == CHOOSE i \in DOMAIN rows : rows[i] = r

PickUp(r) ==
    /\ Gesture("carry") /\ carried = Nobody
    /\ carried' = [row |-> r, over |-> r]
    /\ UNCHANGED <<gestures, listVars, scroll, window, body, skipped, freezeVars, due, fetchVars,
                   askVars, mover, thumb, metrics, pager>>

CarryOver(r) ==
    /\ Gesture("carry") /\ carried # Nobody /\ r # carried.over
    /\ carried' = [carried EXCEPT !.over = r]
    /\ UNCHANGED <<gestures, listVars, scroll, window, body, skipped, freezeVars, due, fetchVars,
                   askVars, mover, thumb, metrics, pager>>

\* onDragEnd: the consumer moves the row to the index it is over; or a cancel.
Drop(cancelled) ==
    /\ carried # Nobody
    /\ LET to == RowAt(carried.over)
           rest == SelectSeq(rows, LAMBDA r : r # carried.row)
       IN  rows' = IF cancelled THEN rows ELSE InsertAt(rest, to, carried.row)
    /\ carried' = Nobody /\ due' = TRUE
    /\ UNCHANGED <<gestures, pinned, checked, scroll, window, body, skipped, freezeVars, fetchVars,
                   askVars, mover, thumb, metrics, pager, events>>

----------------------------------------------------------------------------
(* The custom scrollbar: measured in a frame, dragged against the last measure *)

Metrics ==
    LET track == Max({0, ViewH - HeadH})
        content == Max({track, ScrollHeight - HeadH})
        size == Min({track, Max({1, (track * track) \div content})})
        room == track - size
    IN  IF track = 0 \/ Furthest(ScrollHeight) = 0 THEN [on |-> FALSE, room |-> 0, top |-> 0]
        ELSE [on |-> TRUE, room |-> room, top |-> (scroll * room) \div Furthest(ScrollHeight)]

SyncScrollbar ==
    /\ "thumb" \in gestures /\ metrics # Metrics
    /\ metrics' = Metrics
    /\ UNCHANGED <<gestures, listVars, scroll, window, body, skipped, freezeVars, due, fetchVars,
                   askVars, mover, carried, thumb, pager, events>>

ThumbDown ==
    /\ Gesture("thumb") /\ metrics.on /\ thumb = Nobody
    /\ thumb' = [from |-> scroll]
    /\ UNCHANGED <<gestures, listVars, scroll, window, body, skipped, freezeVars, due, fetchVars,
                   askVars, mover, carried, metrics, pager>>

\* handleThumbPointerMove.
ThumbMove(d) ==
    /\ Gesture("thumb") /\ thumb # Nobody /\ metrics.room > 0 /\ Furthest(ScrollHeight) > 0
    /\ scroll' = Within(thumb.from + (d * Furthest(ScrollHeight)) \div metrics.room)
    /\ scroll' # scroll /\ due' = TRUE /\ mover' = "person"
    /\ UNCHANGED <<gestures, listVars, window, body, skipped, freezeVars, fetchVars, askVars, dragVars,
                   pager>>

\* Pointer up, cancelled or its capture lost.
ThumbUp ==
    /\ thumb # Nobody /\ thumb' = Nobody
    /\ UNCHANGED <<gestures, listVars, scroll, window, body, skipped, freezeVars, due, fetchVars,
                   askVars, mover, carried, metrics, pager, events>>

\* A press on the track: scrollToThumbOffset.
TrackDown(y) ==
    /\ Gesture("thumb") /\ metrics.on
    /\ scroll' = IF Furthest(ScrollHeight) = 0 \/ metrics.room = 0 THEN 0
                 ELSE (Min({metrics.room, y}) * Furthest(ScrollHeight)) \div metrics.room
    /\ scroll' # scroll /\ due' = TRUE /\ mover' = "person"
    /\ UNCHANGED <<gestures, listVars, window, body, skipped, freezeVars, fetchVars, askVars, dragVars,
                   pager>>

----------------------------------------------------------------------------
(* The pager over `pager.records` records *)

PageCount == (pager.records + pager.size - 1) \div pager.size
GroupStart == (pager.page \div MoreLimit) * MoreLimit

GroupEnd == Min({GroupStart + MoreLimit, PageCount})
Buttons == GroupStart..(GroupEnd - 1)
Ellipses == (IF GroupStart > 0 THEN {GroupStart - 1} ELSE {})
            \cup (IF GroupEnd < PageCount THEN {GroupEnd} ELSE {})
Arrows == (IF pager.page > 0 THEN {pager.page - 1} ELSE {})
          \cup (IF pager.page < PageCount - 1 THEN {pager.page + 1} ELSE {})

\* table.setPageIndex keeps the index in range.
SetPageIndex(p) == [pager EXCEPT !.page = Max({0, Min({p, PageCount - 1})})]

TurnPage(p) ==
    /\ Gesture("page") /\ PageCount > 1 /\ p # pager.page
    /\ p \in Buttons \cup Ellipses \cup Arrows
    /\ pager' = SetPageIndex(p)
    /\ UNCHANGED <<gestures, listVars, scroll, window, body, skipped, freezeVars, due, fetchVars,
                   askVars, mover, dragVars>>

\* table.setPageSize keeps the first row of the page on screen.
SetPageSize(n) ==
    /\ Gesture("page") /\ n # pager.size
    /\ pager' = [pager EXCEPT !.size = n, !.page = (pager.page * pager.size) \div n]
    /\ UNCHANGED <<gestures, listVars, scroll, window, body, skipped, freezeVars, due, fetchVars,
                   askVars, mover, dragVars>>

\* Records come and go at the server under manual pagination.
RecordsChange(n) ==
    /\ Gesture("page") /\ n # pager.records
    /\ pager' = [pager EXCEPT !.records = n]
    /\ UNCHANGED <<gestures, listVars, scroll, window, body, skipped, freezeVars, due, fetchVars,
                   askVars, mover, dragVars>>

----------------------------------------------------------------------------

Requests == {Nobody} \cup [index : 0..(Total - 1), align : {"auto", "start", "end", "center"}]

RowsInit ==
    /\ gestures \in RowGestures
    /\ rows = [k \in 1..Loaded |-> k] /\ pinned = {} /\ checked = {}
    /\ scroll = 0 /\ window = {} /\ body = {} /\ skipped = FALSE /\ due = TRUE
    /\ selecting = FALSE /\ edgeDrag = FALSE
    /\ latch = Unseen /\ calls = 0 /\ asked = 0 /\ flag = FALSE /\ more = TRUE /\ broken = FALSE
    /\ wantRow = Nobody /\ last = Nobody /\ pending = Unseen /\ mover = "grid"
    /\ carried = Nobody /\ thumb = Nobody /\ metrics = [on |-> FALSE, room |-> 0, top |-> 0]
    /\ pager = [page |-> 0, size |-> Min(Sizes), records |-> Total] /\ events = 0

RowsNext ==
    \/ Commit \/ FetchStarts \/ FetchOk \/ FetchFails \/ LiveSort \/ DragCells \/ DragColumn
    \/ ToggleAll \/ ClearChecked \/ SyncScrollbar \/ ThumbDown \/ ThumbUp
    \/ \E w \in Requests : Ask(w)
    \/ \E s \in Offsets : Scroll(s) \/ ThumbMove(s) \/ ThumbMove(-s) \/ TrackDown(s)
    \/ \E r \in ToSet(rows) : TogglePin(r) \/ ToggleRow(r) \/ PickUp(r) \/ CarryOver(r)
    \/ \E cancelled \in BOOLEAN : Drop(cancelled)
    \/ \E p \in 0..Total : TurnPage(p) \/ RecordsChange(p)
    \/ \E n \in Sizes : SetPageSize(n)

RowsSpec == RowsInit /\ [][RowsNext]_rowVars

----------------------------------------------------------------------------
(* Properties *)

\* DataGridTableVirtualBody: once the commit is made, every row the viewport
\* touches is mounted under its own index, whatever was pinned, re-sorted or
\* loaded meanwhile, and again after a freeze.  The virtualizer is not told of
\* the rows pinned above it (it has no scrollMargin), so this asks that they be
\* no more than the overscan.
VisibleRowsMounted ==
    (~due /\ ~skipped /\ Cardinality(pinned) <= Overscan) =>
        \A i \in 0..(Count - 1) : Touches(i, scroll) => Mounted(body, i)

\* scrollToRowIndex: once the commit is made, the row asked for is fully below
\* the header and inside the viewport, unless the request was withdrawn, a
\* person scrolled, a pinned row shifted the others, or a drag over cells or of
\* a column's edge froze the body.
Revealed ==
    (~due /\ wantRow # Nobody /\ wantRow.index < Count /\ mover = "grid")
        => OnScreen(wantRow.index, scroll)

\* The virtual body: a row in view is mounted, and a row asked for is in view.
RowsReached == VisibleRowsMounted /\ Revealed

\* "the virtualizer re-renders itself from inside the memo boundary, so
\* parent-driven reconciliation during the drag is waste": while cells are being
\* selected the rows scrolled to are mounted all the same.
SelectingShowsRows ==
    (~due /\ selecting /\ pinned = {}) =>
        \A i \in 0..(Count - 1) : Touches(i, scroll) => Mounted(body, i)
=============================================================================
