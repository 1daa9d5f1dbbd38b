------------------------------ MODULE FilterTree ------------------------------
(***************************************************************************)
(* The structure of a filter query under the hands of its user: the        *)
(* mutators of <Filters> (filters.tsx), the add, wrap, ungroup, duplicate, *)
(* move and remove controls of the advanced builder and the chip menus     *)
(* (filters-advanced.tsx, filters-chip.tsx), and the pointer drag that     *)
(* drops a row somewhere else (filters-dnd.tsx).                           *)
(*                                                                         *)
(* The page that owns the query may refuse a change (onBeforeQueryChange), *)
(* lock the bar at any moment, or replace the whole tree by a saved view:  *)
(* a gesture that began before all that still ends.  The page may also be  *)
(* loaded again over the query it kept, and the factory, seeded from the   *)
(* place of the bar on the page, then counts from the start again.         *)
(* What a condition says is left to FilterRow.                             *)
(***************************************************************************)
EXTENDS FilterQuery

CONSTANTS
  MaxIds,        \* bound: how many ids the factory hands out
  Toggled,       \* bound: the groups whose combinator the user flips
  MaxNodes,      \* bound: how many nodes a tree holds besides the root
  Views,         \* the trees the page may put in place: saved views
  Reorderable    \* the builder draws handles and offers moves

None == [none |-> TRUE]

VARIABLES
  query,    \* the committed tree
  minted,   \* the last id the factory counted out
  clashed,  \* an id was handed out that a live node has
  locked,   \* the page made the bar read only or disabled
  menu,     \* the open "Move to" menu: its row, and the tree it was drawn from
  drag      \* the pointer drag under way

treeVars == <<query, minted, clashed, locked, menu, drag>>

\* Every id a node can have: a saved view carries those it was made with.
Ids == ((1 .. MaxIds) \cup UNION {Nodes(v) : v \in Views}) \ {Root}

ASSUME ViewsAssumption == \A v \in Views : IsTree(v)

TreeInit ==
  /\ query = EmptyQuery /\ minted = 0 /\ clashed = FALSE
  /\ locked = FALSE
  /\ menu = None /\ drag = None

(***************************************************************************)
(* The mutation boundary.  Every write passes here: a locked bar drops it, *)
(* the page may veto it, and a tree that did not change is no write.       *)
(***************************************************************************)
emit(next) ==
  /\ ~locked
  /\ query' \in {next, query}

\* A write that takes n ids, counted out whether or not the page lets it pass.
Minting(n, next) ==
  /\ minted + n <= MaxIds
  /\ Cardinality(Nodes(query)) + n <= MaxNodes + 1
  /\ minted' = minted + n
  /\ emit(next)
  /\ clashed' = (query' # query /\ (minted + 1 .. minted + n) \cap Nodes(query) # {})

\* A press on a control: no menu is open over it and no drag holds the pointer.
Pressed == menu = None /\ drag = None /\ UNCHANGED <<locked, menu, drag>>

Edit(next) == Pressed /\ emit(next) /\ UNCHANGED <<minted, clashed>>

addRule(parent) ==
  /\ Pressed
  /\ parent \in Groups(query)
  /\ Minting(1, AsRule(appendFilterNode(query, minted + 1, parent), minted + 1))

addGroup ==
  /\ Pressed
  /\ Minting(1, AsGroup(appendFilterNode(query, minted + 1, Root), minted + 1, "or"))

removeNode(id) == Movable(query, id) /\ Edit(removeFilterNode(query, id))

duplicateNode(id) ==
  /\ Pressed
  /\ Movable(query, id)
  /\ Minting(Cardinality(Within(query, id)), duplicateFilterNode(query, id, minted + 1))

moveNode(id, delta) ==
  /\ Reorderable
  /\ Movable(query, id)
  /\ Edit(moveFilterNode(query, id, delta))

wrapNodeInGroup(id) ==
  /\ Pressed
  /\ id \in query.rules
  /\ Minting(1, wrapFilterNodeInGroup(query, id, minted + 1))

unwrapGroup(g) == g \in Groups(query) \ {Root} /\ Edit(unwrapFilterGroup(query, g))

\* Only the slot before the second row of a group is a control.
toggleCombinator(g) ==
  /\ g \in Toggled \cap Groups(query) /\ Len(query.kids[g]) > 1
  /\ Edit(toggleFilterCombinator(query, g))

clearQuery == query.rules # {} /\ Edit(clearFilterQuery(query))

-------------------------------------------------------------------------------
(* The menu lists the groups a node may move to, as the tree stood when the *)
(* menu was drawn, and sends it to the end each had then.                  *)
Destinations(tree, id) == Groups(tree) \ (Within(tree, id) \cup {ParentOf(tree, id)})

OpenMenu(id) ==
  /\ menu = None /\ drag = None /\ ~locked /\ Reorderable
  /\ Movable(query, id) /\ Destinations(query, id) # {}
  /\ menu' = [node |-> id, tree |-> query]
  /\ UNCHANGED <<query, minted, clashed, locked, drag>>

MoveTo(g) ==
  /\ menu # None
  /\ g \in Destinations(menu.tree, menu.node)
  /\ emit(moveFilterNodeTo(query, menu.node, g, Len(menu.tree.kids[g])))
  /\ menu' = None
  /\ UNCHANGED <<minted, clashed, locked, drag>>

CloseMenu ==
  /\ menu # None
  /\ menu' = None
  /\ UNCHANGED <<query, minted, clashed, locked, drag>>

-------------------------------------------------------------------------------
(* A drag arms on the press of a handle, and comes alive when the pointer   *)
(* has moved or rested long enough: that is when the rows are measured.    *)
Held(id) == [node |-> id, from |-> ParentOf(query, id), at |-> PlaceOf(query, id) - 1,
             live |-> FALSE, tree |-> None, over |-> None, copy |-> FALSE]

\* A row at the top level with no sibling has no handle.
canFilterNodeMove(id) == ParentOf(query, id) # Root \/ Len(query.kids[Root]) > 1

startDrag(id) ==
  /\ Reorderable /\ ~locked /\ drag = None /\ menu = None
  /\ Movable(query, id) /\ canFilterNodeMove(id)
  /\ drag' = Held(id)
  /\ UNCHANGED <<query, minted, clashed, locked, menu>>

activate ==
  /\ drag # None /\ ~drag.live
  /\ drag.node \in Nodes(query)      \* its row is still on the page
  /\ drag' = [drag EXCEPT !.live = TRUE, !.tree = query]
  /\ UNCHANGED <<query, minted, clashed, locked, menu>>

\* What a pointer can be over: a slot of any group outside the dragged subtree.
collectSurface(tree, id) ==
  {[parent |-> g, index |-> i] :
     g \in Groups(tree) \ Within(tree, id), i \in 0 .. MaxNodes} \cap
  UNION {{[parent |-> g, index |-> i] : i \in 0 .. Len(tree.kids[g])} : g \in Groups(tree)}

\* Both slots beside the row itself leave it where it is.
isFilterDropNoop(d, slot) ==
  /\ ~d.copy
  /\ slot.parent = d.from
  /\ slot.index \in {d.at, d.at + 1}

hitTest(d) == IF d.over = None \/ isFilterDropNoop(d, d.over) THEN None ELSE d.over

onPointerMove(over) ==
  /\ drag # None /\ drag.live
  /\ over \in collectSurface(drag.tree, drag.node) \cup {None}
  /\ drag' = [drag EXCEPT !.over = over]
  /\ UNCHANGED <<query, minted, clashed, locked, menu>>

\* Alt, pressed or let go, turns the move into a copy and back.
setCopy ==
  /\ drag # None /\ drag.live
  /\ drag' = [drag EXCEPT !.copy = ~@]
  /\ UNCHANGED <<query, minted, clashed, locked, menu>>

\* Bug variant: a dropped row moves on the strength of the press, which the bar
\* then still allowed.
LandedUnlocked(d, slot) ==
  /\ query' \in {moveFilterNodeTo(query, d.node, slot.parent, slot.index), query}
  /\ UNCHANGED <<minted, clashed>>

\* What the release writes, against the tree of that moment and not the one
\* that was measured.
Landed(d, slot) ==
  IF locked \/ d.node \notin Nodes(query)
  THEN UNCHANGED <<query, minted, clashed>>
  ELSE IF d.copy
  THEN Minting(Cardinality(Within(query, d.node)),
               copyFilterNodeTo(query, d.node, slot.parent, slot.index, minted + 1))
  ELSE /\ emit(moveFilterNodeTo(query, d.node, slot.parent, slot.index))
       /\ UNCHANGED <<minted, clashed>>

onPointerUp ==
  /\ drag # None
  /\ drag' = None
  /\ IF drag.live /\ hitTest(drag) # None
     THEN Landed(drag, hitTest(drag))
     ELSE UNCHANGED <<query, minted, clashed>>
  /\ UNCHANGED <<locked, menu>>

\* Escape, a window that lost focus, a pointer taken away, the panel closing.
cancelDrag ==
  /\ drag # None
  /\ drag' = None
  /\ UNCHANGED <<query, minted, clashed, locked, menu>>

-------------------------------------------------------------------------------
(* The page around the bar. *)

Lock == locked' = ~locked /\ UNCHANGED <<query, minted, clashed, menu, drag>>

\* A view is kept as it stood, or pruned of the groups nobody filled.
Load(view) ==
  /\ view \in Views \cup {pruneFilterQuery(v) : v \in Views}
  /\ query # view
  /\ query' = view /\ clashed' = FALSE
  /\ UNCHANGED <<minted, locked, menu, drag>>

Replaced == \E v \in Views : Load(v) \/ Load(pruneFilterQuery(v))

\* The page is loaded again over the query it kept.
Reload ==
  /\ minted' = 0 /\ menu' = None /\ drag' = None
  /\ UNCHANGED <<query, clashed, locked>>

Gesture ==
  \/ onPointerUp \/ cancelDrag \/ activate \/ setCopy
  \/ \E over \in {None} \cup [parent : Ids \cup {Root}, index : 0 .. MaxNodes] :
       onPointerMove(over)
  \/ \E id \in Ids : startDrag(id)

Editing ==
  \/ \E id \in Ids \cup {Root} : addRule(id) \/ toggleCombinator(id) \/ MoveTo(id)
  \/ \E id \in Ids : \/ removeNode(id) \/ duplicateNode(id) \/ wrapNodeInGroup(id)
                     \/ unwrapGroup(id) \/ OpenMenu(id)
                     \/ \E delta \in {-1, 1} : moveNode(id, delta)
  \/ addGroup \/ clearQuery \/ CloseMenu
  \/ Gesture

\* What each lookup does to two nodes of one id is not followed further: only
\* the page's own steps are.
TreeNext == (~clashed /\ Editing) \/ Lock \/ Replaced \/ Reload

TreeSpec == TreeInit /\ [][TreeNext]_treeVars

-------------------------------------------------------------------------------
(* Every lookup of the component goes by id, so the code copies "under      *)
(* fresh ids, the whole way down: children keeping their old ids would give *)
(* two live nodes one id": no two live nodes ever share one, whatever the   *)
(* page kept of an earlier load.                                            *)
IdsAreFresh == IsTree(query)

(* The query stays a tree as long as the ids handed out are new to it: no   *)
(* condition sits in two places, no group ends inside itself, nothing the   *)
(* page still counts is out of reach of the root.                           *)
TreeShape == clashed \/ IsTree(query)

(* Rearranging keeps every condition: only a removal, Clear or the page     *)
(* itself takes one away, and a removal no more than the subtree it names.  *)
(* A drag, a menu opened on an older tree and an ungroup lose nothing.      *)
RulesSurvive ==
  [][ \/ query.rules \subseteq query'.rules
      \/ clearQuery \/ Replaced
      \/ \E id \in Ids : removeNode(id) /\ query.rules \ query'.rules \subseteq Within(query, id)
    ]_treeVars

(* A drop puts the row where the bar between the rows said it would, when   *)
(* the tree is still the one that was measured.                             *)
DropLands ==
  [][ onPointerUp /\ query' # query /\ drag.tree = query =>
        LET slot  == drag.over
            front == SubSeq(query.kids[slot.parent], 1, slot.index)
            now   == query'.kids[slot.parent]
        IN IF drag.copy
           THEN now = InsertAt(query.kids[slot.parent], slot.index + 1, minted + 1)
           ELSE SelectSeq(front, LAMBDA c : c # drag.node) \o <<drag.node>> =
                SubSeq(now, 1, Len(SelectSeq(front, LAMBDA c : c # drag.node)) + 1)
    ]_treeVars

(* A locked bar changes nothing, and neither does a gesture that began      *)
(* before the lock: only the page itself still replaces the tree.           *)
LockHolds == [][ locked /\ query' # query => Replaced ]_treeVars

(* No edit, drag, lock or load, in whatever order, loses, doubles or         *)
(* misplaces a condition of the tree, until an id is handed out twice.       *)
EditsKeepTree == []TreeShape /\ RulesSurvive /\ DropLands /\ LockHolds
===============================================================================
