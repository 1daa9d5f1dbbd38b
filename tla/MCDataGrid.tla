----------------------------- MODULE MCDataGrid -----------------------------
(***************************************************************************)
(* The cells, the columns and the rows of a data grid, which share no      *)
(* state: each is explored alone, and part says which.                     *)
(*   cells    three rows on pages of one, the last row pinned to the       *)
(*            bottom, so that a range over the pinned row spans a row that *)
(*            is not shown; the middle of three columns opts out of        *)
(*            selection;                                                   *)
(*   columns  two columns that fill themselves and one that does not, in a *)
(*            container wider or narrower than the three;                  *)
(*   rows     five rows in pages of one under a viewport of two.           *)
(***************************************************************************)
EXTENDS DataGridCells, DataGridColumns, DataGridRows

Rows3 == <<1, 2, 3>>
Data3 == [r \in {1, 2, 3} |-> IF r = 3 THEN <<"a", "1", "">> ELSE <<"1", "a", "1">>]
Together == {{"ranges"}, {"clipboard", "resort"}, {"editor", "focus"},
             {"editor", "live", "resort"}, {"fill", "resort"}}

Columns3 == <<"a", "b", "c">>
Base3 == [c \in {"a", "b", "c"} |-> 3]
Min3 == [c \in {"a", "b", "c"} |-> IF c = "a" THEN 2 ELSE 3]
Max3 == [c \in {"a", "b", "c"} |-> IF c = "c" THEN 4 ELSE 40]
Around == {-1, 2}

Mixes == {{"scroll", "fail", "pin"}, {"ask", "scroll", "sort"}, {"ask", "pin"}, {"ask", "cells"},
          {"scroll", "cells"}, {"scroll", "resize", "ask"}, {"check", "carry", "sort"},
          {"thumb", "scroll"}, {"page"}}

\* The gestures of a drag over cells that scrolls.
DragMix == {{"scroll", "cells"}}

CONSTANT Parts
VARIABLE part

vars == <<part, gridVars, colVars, rowVars>>

\* Bounds: a behaviour of the cells ends with its last batch, and a block of at
\* most two cells is copied.
Writing == writes < MaxWrites
SmallBlocks == clip # None => Len(clip.text) * Len(clip.text[1]) <= 2

PartsInit ==
    /\ part \in Parts
    /\ Init /\ ColumnsInit /\ RowsInit
    /\ part # "cells" => uses = (CHOOSE g \in GestureSets : TRUE)
    /\ part # "columns" => width = Min(Widths)
    /\ part # "rows" => gestures = (CHOOSE g \in RowGestures : TRUE)

PartsNext ==
    /\ UNCHANGED part
    /\ \/ part = "cells" /\ Writing /\ Next /\ SmallBlocks' /\ UNCHANGED <<colVars, rowVars>>
       \/ part = "columns" /\ ColumnsNext /\ UNCHANGED <<gridVars, rowVars>>
       \/ part = "rows" /\ RowsNext /\ UNCHANGED <<gridVars, colVars>>

\* ColumnsFairness; nothing is asked to happen of the cells and the rows.
Fairness ==
    /\ WF_colVars(part = "columns" /\ Render)
    /\ WF_colVars(part = "columns" /\ Settle)
    /\ WF_colVars(part = "columns" /\ WindowPasses)
    /\ WF_colVars(part = "columns" /\ HandleUnmounted)

PartsSpec == PartsInit /\ [][PartsNext]_vars /\ Fairness
=============================================================================
