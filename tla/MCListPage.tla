------------------------------ MODULE MCListPage ------------------------------
(*****************************************************************************)
(* What stands around a list of the console: the tree of a filter query, its *)
(* rows, the options of a value editor, the date selector and the site       *)
(* library's own query.  They share no state, so each is explored alone;     *)
(* part says which.                                                          *)
(*****************************************************************************)
EXTENDS FilterTree, FilterOptions, FilterRow, DateSelector, SitesPage

VARIABLE part

vars == <<part, treeVars, optVars, rowVars, dateVars, siteVars>>

\* The bounds of two parts: a menu or a drag is open over at most three nodes, and
\* a condition that takes a range stands alone.
Bounded ==
  /\ menu # None \/ drag # None => Cardinality(Nodes(query)) <= 4
  /\ (\E id \in DOMAIN rows : rows[id].op = "between") => Cardinality(DOMAIN rows) = 1

Init ==
  /\ part \in {"tree", "options", "rows", "dates", "sites"}
  /\ TreeInit /\ OptInit /\ RowInit /\ DateInit /\ SitesInit
  \* An idle part stands in one state.
  /\ part # "options" => selected = <<>>
  /\ part # "rows" => variant = "basic"
  /\ part # "dates" => value = NoValue /\ preset = NoPreset /\ calendar = 1 /\ sel.period = "day"

Next ==
  /\ UNCHANGED part
  /\ \/ part = "tree" /\ TreeNext /\ UNCHANGED <<optVars, rowVars, dateVars, siteVars>>
     \/ part = "options" /\ OptNext /\ UNCHANGED <<treeVars, rowVars, dateVars, siteVars>>
     \/ part = "rows" /\ RowNext /\ UNCHANGED <<treeVars, optVars, dateVars, siteVars>>
     \/ part = "dates" /\ DateNext /\ UNCHANGED <<treeVars, optVars, rowVars, siteVars>>
     \/ part = "sites" /\ SitesNext /\ UNCHANGED <<treeVars, optVars, rowVars, dateVars>>
  /\ Bounded'

Spec == Init /\ [][Next]_vars

\* A saved view: a group with a condition in it.
SavedView == [kids  |-> (Root :> <<12>>) @@ (12 :> <<13>>),
              word  |-> (Root :> "and") @@ (12 :> "or"),
              rules |-> {13}]
MCViews == {SavedView}

MCPages == [all |-> << <<"a", "b">>, <<"none">> >>, some |-> << <<"b">> >>]
MCSaved == {<<"none">>, <<>>}

MCFields   == [amount |-> "number", owner |-> "select"]
MCNarrowed == [amount |-> {"eq", "between"}, owner |-> {"is_any_of", "empty"}]

\* A day, a range of days begun and one complete, and a range of a grid.
MCStored == {DayValue("is", 1, 0), DayValue("between", 2, 0), DayValue("between", 1, 2),
             RangeValue("quarter", 100, 200)}

\* A site in the north, one in the south and one without coordinates.
MCAreaOf == ("s1" :> "north") @@ ("s2" :> "south")
MCHits == [k \in Words \X Chips |->
             {"s1", "s2", "s3"} \ ((IF k[1] = "" THEN {} ELSE {"s1"})
                                   \cup (IF k[2] = {} THEN {} ELSE {"s2"}))]
===============================================================================
