--------------------------- MODULE DataGridProofs ---------------------------
(***************************************************************************)
(* Proofs about the cells of the data grid, for every set of rows and      *)
(* columns and every size of a page.  A paste or a fill writes only what   *)
(* is shown because its targets are places of the rendered rows.  FillInv  *)
(* carries that across the frames of a drag: its rows are those that were  *)
(* rendered when it began.                                                 *)
(***************************************************************************)
EXTENDS DataGridCells, TLAPS

\* A fill drag keeps the rows that were rendered when it began.
FillInv ==
    fill = None \/
      /\ fill = [bound |-> fill.bound, rows |-> fill.rows, display |-> fill.display,
                 data |-> fill.data, axis |-> fill.axis, count |-> fill.count]
      /\ fill.rows = ToSet(RenderedOf(fill.display, page))

----------------------------------------------------------------------------
(* The rows of a drag stay those it began with.                             *)
LEMMA FillStays ==
  ASSUME FillInv, page' = page,
         \/ fill' = None
         \/ fill' = fill
         \/ \E b, d : fill' = [bound |-> b, rows |-> RenderedRowIds, display |-> order,
                              data |-> d, axis |-> "none", count |-> 0]
         \/ (\E a, n : fill' = [fill EXCEPT !.axis = a, !.count = n]) /\ fill # None
  PROVE  FillInv'
  <1>1. CASE fill' = None \/ fill' = fill
    BY <1>1 DEF FillInv
  <1>2. ASSUME NEW b, NEW d, fill' = [bound |-> b, rows |-> RenderedRowIds, display |-> order,
                                      data |-> d, axis |-> "none", count |-> 0]
        PROVE  FillInv'
    <2>1. fill'.rows = ToSet(RenderedOf(fill'.display, page'))
      BY <1>2 DEF RenderedRowIds, Rendered
    <2>2. fill' = [bound |-> fill'.bound, rows |-> fill'.rows, display |-> fill'.display,
                   data |-> fill'.data, axis |-> fill'.axis, count |-> fill'.count]
      BY <1>2
    <2> QED BY <2>1, <2>2 DEF FillInv
  <1>3. ASSUME fill # None, NEW a, NEW n, fill' = [fill EXCEPT !.axis = a, !.count = n]
        PROVE  FillInv'
    <2>1. /\ fill = [bound |-> fill.bound, rows |-> fill.rows, display |-> fill.display,
                     data |-> fill.data, axis |-> fill.axis, count |-> fill.count]
          /\ fill.rows = ToSet(RenderedOf(fill.display, page))
      BY <1>3 DEF FillInv
    <2>2. fill' = [bound |-> fill.bound, rows |-> fill.rows, display |-> fill.display,
                   data |-> fill.data, axis |-> a, count |-> n]
      BY <1>3, <2>1
    <2> QED BY <2>1, <2>2 DEF FillInv
  <1> QED BY <1>1, <1>2, <1>3

(* Every step keeps the rows of a drag those it began with.                 *)
LEMMA FillStep ==
  ASSUME FillInv, Next
  PROVE  FillInv'
  <1>1. CASE Copy \/ CutEvent \/ CutKey \/ CutWritten \/ CutDenied \/ Paste \/ Delete
    BY <1>1, FillStays DEF Copy, CutEvent, CutKey, CutWritten, CutDenied, Paste, Delete
  <1>2. CASE \E dir \in Directions : Step(dir) \/ ShiftArrow(dir)
    BY <1>2, FillStays DEF Step, ShiftArrow
  <1>3. CASE SelectAll \/ Escape \/ \E extend \in BOOLEAN : Jump(extend)
    BY <1>3, FillStays DEF SelectAll, Escape, Jump
  <1>4. CASE OpenEditor \/ CancelEditor \/ \E v \in Values : TypeText(v)
    BY <1>4, FillStays DEF OpenEditor, CancelEditor, TypeText
  <1>5. CASE \E advance \in Directions \cup {"stay"} : CommitEditor(advance)
    BY <1>5, FillStays DEF CommitEditor
  <1>6. CASE \E r \in RowIds, c \in Selectable, how \in {"plain", "shift", "add"} : Press(Cell(r, c), how)
    <2>1. UNCHANGED <<fill, page>>
      BY <1>6 DEF Press
    <2> QED BY <2>1, FillStays
  <1>7. CASE \E r \in RowIds, c \in Selectable, edit \in BOOLEAN : FocusCell(Cell(r, c), edit)
    BY <1>7, FillStays DEF FocusCell
  <1>8. CASE Land \/ LandEdit \/ GiveUp
    BY <1>8, FillStays DEF Land, LandEdit, GiveUp
  <1>9. CASE StartFill
    BY <1>9, FillStays DEF StartFill
  <1>10. CASE EndFill \/ CancelFill
    <2>1. fill' = None /\ page' = page
      BY <1>10 DEF EndFill, CancelFill
    <2> QED BY <2>1, FillStays
  <1>11. ASSUME NEW r \in RowIds, NEW c \in Cols, DragFill(r, c) PROVE FillInv'
    <2>1. fill # None /\ page' = page
      BY <1>11 DEF DragFill
    <2>2. \E a, n : fill' = [fill EXCEPT !.axis = a, !.count = n]
      BY <1>11 DEF DragFill
    <2> QED BY <2>1, <2>2, FillStays
  <1>12. CASE FlipPage
    BY <1>12 DEF FlipPage, Idle, FillInv
  <1>13. CASE LiveRows \/ \E r \in RowIds, c \in Cols, v \in Values : LiveUpdate(r, c, v)
    BY <1>13, FillStays DEF LiveRows, LiveUpdate
  <1> QED
    BY <1>1, <1>2, <1>3, <1>4, <1>5, <1>6, <1>7, <1>8, <1>9, <1>10, <1>11, <1>12, <1>13 DEF Next

(* So do all the steps of a behaviour.                                      *)
LEMMA FillInvHolds == Spec => []FillInv
  <1>1. Init => FillInv
    BY DEF Init, FillInv
  <1>2. FillInv /\ [Next]_gridVars => FillInv'
    <2> SUFFICES ASSUME FillInv, [Next]_gridVars PROVE FillInv'
      OBVIOUS
    <2>1. CASE Next
      BY <2>1, FillStep
    <2>2. CASE UNCHANGED gridVars
      BY <2>2, FillStays DEF gridVars
    <2> QED BY <2>1, <2>2
  <1> QED BY <1>1, <1>2, PTL DEF Spec

----------------------------------------------------------------------------
(* What a cleared selection writes is shown.                                *)
LEMMA VisibleIsShown ==
  ASSUME NEW b, NEW x \in Visible(b)
  PROVE  x.row \in RenderedRowIds /\ x.col \in Selectable
  <1>1. PICK i \in {j \in b.r1..b.r2 : order[j] \in RenderedRowIds},
             c \in {k \in b.c1..b.c2 : k \in Selectable} : x = Cell(order[i], c)
    BY DEF Visible
  <1> QED BY <1>1 DEF Cell

(* The same of every range.                                                 *)
LEMMA PaintedIsShown ==
  ASSUME NEW bs, NEW x \in Painted(bs)
  PROVE  x.row \in RenderedRowIds /\ x.col \in Selectable
  <1>1. PICK i \in DOMAIN bs : x \in Visible(bs[i])
    BY DEF Painted
  <1> QED BY <1>1, VisibleIsShown

(* And of the batch that clears them.                                       *)
LEMMA ClearIsShown ==
  ASSUME NEW bs, NEW ch \in ClearDetails(bs)
  PROVE  ch.cell.row \in RenderedRowIds /\ ch.cell.col \in Selectable
  <1>1. PICK x \in {y \in Painted(bs) : Writable(y.row, y.col)} :
          ch = Change(x, cells[x.row][x.col], Blank)
    BY DEF ClearDetails
  <1>2. ch.cell = x
    BY <1>1 DEF Change
  <1> QED BY <1>1, <1>2, PaintedIsShown

(* A pasted block lands on shown rows and selectable columns only.          *)
LEMMA PasteIsShown ==
  ASSUME NEW block, NEW b, NEW ch \in PasteDetails(block, b).changes
  PROVE  ch.cell.row \in RenderedRowIds /\ ch.cell.col \in Selectable
  <1> DEFINE t == PasteTarget(block, b)
             put == {Cell(r, c) : r \in t.rows, c \in t.columns}
             Text(x) == Tiled(block, RowPlace(b, x.row), ColumnPlace(b, x.col))
             ok == {x \in put : Writable(x.row, x.col) /\ ~Refuses(x.col, Text(x))}
  <1>1. ch \in {Change(x, cells[x.row][x.col], Text(x)) : x \in ok}
    BY DEF PasteDetails
  <1>2. PICK x \in ok : ch = Change(x, cells[x.row][x.col], Text(x))
    BY <1>1
  <1>3. PICK r \in t.rows, c \in t.columns : x = Cell(r, c)
    BY <1>2
  <1>4. r \in RenderedRowIds /\ c \in Selectable
    BY <1>3 DEF PasteTarget
  <1>5. ch.cell = x /\ x.row = r /\ x.col = c
    BY <1>2, <1>3 DEF Change, Cell
  <1> QED BY <1>4, <1>5

(* The rows a drag writes are among those it began with, and its columns    *)
(* are selectable.                                                          *)
LEMMA FillIsShown ==
  ASSUME NEW r \in TargetRows, NEW c \in TargetColumns
  PROVE  r \in fill.rows /\ c \in Selectable
  BY DEF TargetRows, TargetColumns, SourceRows

\* What OnlyShownWritten says of a step.
ShownStep ==
    (batch'.source # "edit" /\ (batch'.source = "fill" => fill.display = order))
      => \A ch \in batch'.changes :
             ch.cell.row \in RenderedRowIds /\ ch.cell.col \in Selectable

(* A step without a batch writes nothing.                                   *)
LEMMA QuietShown ==
  ASSUME batch' = NoBatch
  PROVE  ShownStep
  BY DEF NoBatch, ShownStep

(* A batch of shown cells.                                                  *)
LEMMA DispatchShown ==
  ASSUME NEW source, NEW changes, NEW rejected, NEW region,
         Dispatch(source, changes, rejected, region),
         source = "edit" \/ \A ch \in changes : ch.cell.row \in RenderedRowIds
                                              /\ ch.cell.col \in Selectable
  PROVE  ShownStep
  <1>1. batch'.changes = changes /\ batch'.source = source
    BY DEF Dispatch
  <1> QED BY <1>1 DEF ShownStep

(* The batch of an editor that closes is its own.                           *)
LEMMA CommitShown ==
  ASSUME NEW ed, CommitEffect(ed)
  PROVE  ShownStep
  <1>1. Quiet \/ \E changes, rejected, region : Dispatch("edit", changes, rejected, region)
    BY DEF CommitEffect
  <1>2. CASE Quiet
    BY <1>2, QuietShown DEF Quiet
  <1> QED BY <1>1, <1>2, DispatchShown

(* A finished drag writes shown cells, unless the rows moved under it.      *)
LEMMA EndFillShown ==
  ASSUME FillInv, EndFill
  PROVE  ShownStep
  <1>0. fill # None /\ fill.rows = ToSet(RenderedOf(fill.display, page))
    BY DEF EndFill, FillInv
  <1>1. CASE fill.axis = "none"
    BY <1>1, QuietShown DEF EndFill, Quiet
  <1>2. CASE fill.axis # "none"
    <2>1. PICK all \in {{x \in {Cell(r, c) : r \in TargetRows, c \in TargetColumns} :
                            Writable(x.row, x.col)}} :
          \E bad \in {{x \in all : fill.axis = "column" /\ Refuses(x.col, FillValue(x))}} :
          \E changes \in {{Change(x, PreviousValue(x), FillValue(x)) : x \in all \ bad}} :
             IF all = {} THEN Quiet ELSE Dispatch("fill", changes, bad, {})
      BY <1>2 DEF EndFill
    <2>2. PICK bad, changes :
             /\ changes = {Change(x, PreviousValue(x), FillValue(x)) : x \in all \ bad}
             /\ IF all = {} THEN Quiet ELSE Dispatch("fill", changes, bad, {})
      BY <2>1
    <2>3. CASE all = {}
      BY <2>2, <2>3, QuietShown DEF Quiet
    <2>4. CASE all # {}
      <3>1. Dispatch("fill", changes, bad, {})
        BY <2>2, <2>4
      <3>2. batch'.changes = changes /\ batch'.source = "fill"
        BY <3>1 DEF Dispatch
      <3>3. ASSUME fill.display = order, NEW ch \in changes
            PROVE  ch.cell.row \in RenderedRowIds /\ ch.cell.col \in Selectable
        <4>1. PICK x \in all \ bad : ch = Change(x, PreviousValue(x), FillValue(x))
          BY <2>2, <3>3
        <4>2. x \in {Cell(r, c) : r \in TargetRows, c \in TargetColumns}
          BY <2>1, <4>1
        <4>3. PICK r \in TargetRows, c \in TargetColumns : x = Cell(r, c)
          BY <4>2
        <4>4. ch.cell.row = r /\ ch.cell.col = c
          BY <4>1, <4>3 DEF Change, Cell
        <4>5. fill.rows = RenderedRowIds
          BY <1>0, <3>3 DEF RenderedRowIds, Rendered
        <4> QED BY <4>4, <4>5, <4>3, FillIsShown
      <3> QED BY <3>2, <3>3 DEF ShownStep
    <2> QED BY <2>3, <2>4
  <1> QED BY <1>1, <1>2

(* Every step writes only what is shown.                                    *)
LEMMA ShownSteps ==
  ASSUME FillInv, Next
  PROVE  ShownStep
  <1>1. CASE CutEvent \/ CutWritten
    <2>1. PICK bs, region : \/ Quiet
                            \/ Dispatch("cut", ClearDetails(bs), {}, region)
                            \/ Dispatch("cut", {}, {}, region)
      BY <1>1 DEF CutEvent, CutWritten
    <2>2. CASE Quiet
      BY <2>2, QuietShown DEF Quiet
    <2>3. CASE Dispatch("cut", ClearDetails(bs), {}, region)
      BY <2>3, ClearIsShown, DispatchShown
    <2>4. CASE Dispatch("cut", {}, {}, region)
      BY <2>4, DispatchShown
    <2> QED BY <2>1, <2>2, <2>3, <2>4
  <1>2. CASE Paste
    <2>1. PICK block, b, region, rejected :
            Dispatch("paste", PasteDetails(block, b).changes, rejected, region)
      BY <1>2 DEF Paste
    <2> QED BY <2>1, PasteIsShown, DispatchShown
  <1>3. CASE Delete
    BY <1>3, ClearIsShown, DispatchShown DEF Delete
  <1>4. CASE Copy \/ CutKey \/ CutDenied
    BY <1>4, QuietShown DEF Copy, CutKey, CutDenied, Quiet
  <1>5. CASE \E dir \in Directions : Step(dir) \/ ShiftArrow(dir)
    BY <1>5, QuietShown DEF Step, ShiftArrow, Quiet
  <1>6. CASE SelectAll \/ Escape \/ \E extend \in BOOLEAN : Jump(extend)
    BY <1>6, QuietShown DEF SelectAll, Escape, Jump, Quiet
  <1>7. CASE OpenEditor \/ CancelEditor \/ \E v \in Values : TypeText(v)
    BY <1>7, QuietShown DEF OpenEditor, CancelEditor, TypeText, Quiet
  <1>8. CASE \E advance \in Directions \cup {"stay"} : CommitEditor(advance)
    <2>1. editor # None /\ CommitEffect(editor)
      BY <1>8 DEF CommitEditor
    <2> QED BY <2>1, CommitShown
  <1>9. CASE \E r \in RowIds, c \in Selectable, how \in {"plain", "shift", "add"} : Press(Cell(r, c), how)
    <2>1. IF editor = None THEN Quiet ELSE CommitEffect(editor)
      BY <1>9 DEF Press
    <2> QED BY <2>1, CommitShown, QuietShown DEF Quiet
  <1>10. CASE Land
    <2>1. IF editor = None THEN Quiet ELSE CommitEffect(editor)
      BY <1>10 DEF Land
    <2> QED BY <2>1, CommitShown, QuietShown DEF Quiet
  <1>11. CASE LandEdit \/ GiveUp
    BY <1>11, QuietShown DEF LandEdit, GiveUp, Quiet
  <1>12. CASE \E r \in RowIds, c \in Selectable, edit \in BOOLEAN : FocusCell(Cell(r, c), edit)
    BY <1>12, QuietShown DEF FocusCell, Quiet
  <1>13. CASE StartFill \/ CancelFill
    BY <1>13, QuietShown DEF StartFill, CancelFill, Quiet
  <1>14. CASE EndFill
    BY <1>14, EndFillShown
  <1>15. CASE \E r \in RowIds, c \in Cols : DragFill(r, c)
    BY <1>15, QuietShown DEF DragFill, Quiet
  <1>16. CASE FlipPage \/ LiveRows \/ \E r \in RowIds, c \in Cols, v \in Values : LiveUpdate(r, c, v)
    BY <1>16, QuietShown DEF FlipPage, LiveRows, LiveUpdate, Quiet
  <1> QED
    BY <1>1, <1>2, <1>3, <1>4, <1>5, <1>6, <1>7, <1>8, <1>9, <1>10, <1>11, <1>12, <1>13,
       <1>14, <1>15, <1>16 DEF Next

(* A clear, a cut, a paste or a fill writes only cells on rows the view     *)
(* renders and in selectable columns, for any rows, pages, pinned rows and  *)
(* columns.                                                                 *)
THEOREM GridOnlyShownWritten == Spec => OnlyShownWritten
  <1>1. FillInv /\ [Next]_gridVars => [ShownStep]_gridVars
    BY ShownSteps
  <1> QED BY <1>1, FillInvHolds, PTL DEF Spec, OnlyShownWritten, ShownStep

=============================================================================
