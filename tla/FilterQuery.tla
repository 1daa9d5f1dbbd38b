----------------------------- MODULE FilterQuery -----------------------------
(***************************************************************************)
(* The query tree of the filters component, and the pure functions that    *)
(* rewrite it (src/web/packages/ui/src/components/reui/filters/            *)
(* filters-query.tsx).                                                     *)
(*                                                                         *)
(* The source nests nodes inside nodes and finds every one of them by its  *)
(* id.  Here a query is kept flat: `kids` gives the children of every live *)
(* group in order, `word` its combinator, and `rules` is the set of live   *)
(* conditions.  What a condition says is FilterRow's business: no function *)
(* of this file but the plain update of one rule looks inside it.          *)
(*                                                                         *)
(* Ids are the numbers the per-mount factory counts out; the root is 0.    *)
(***************************************************************************)
EXTENDS Naturals, Sequences, FiniteSets, SequencesExt

Root == 0

Groups(q) == DOMAIN q.kids
Nodes(q)  == Groups(q) \cup q.rules

EmptyQuery == [kids |-> (Root :> <<>>), word |-> (Root :> "and"), rules |-> {}]

\* Who holds a node, and where: findFilterNode.  Only asked of a live node
\* other than the root.
ParentOf(q, id) == CHOOSE g \in Groups(q) : Contains(q.kids[g], id)
PlaceOf(q, id)  == CHOOSE i \in 1 .. Len(q.kids[ParentOf(q, id)]) :
                      q.kids[ParentOf(q, id)][i] = id

\* The nodes of the subtree under a node, itself included.  A tree has no
\* chain longer than its number of groups.
Within(q, id) ==
  LET reach[n \in 0 .. Cardinality(Groups(q))] ==
        IF n = 0 THEN {id}
        ELSE reach[n - 1] \cup
             UNION {ToSet(q.kids[g]) : g \in reach[n - 1] \cap Groups(q)}
  IN reach[Cardinality(Groups(q))]

\* A subtree in document order, groups before what they hold.
DocumentOrder(q, id) ==
  LET walk[n \in 0 .. Cardinality(Groups(q))] ==
        [x \in Nodes(q) |->
           IF x \in q.rules \/ n = 0 THEN <<x>>
           ELSE <<x>> \o FlattenSeq([i \in 1 .. Len(q.kids[x]) |-> walk[n - 1][q.kids[x][i]]])]
  IN walk[Cardinality(Groups(q))][id]

\* Only what is still reached from the root is part of the query: a node cut
\* out takes its subtree with it.
Reached(q) ==
  LET live == Within(q, Root) IN
  [kids  |-> [g \in Groups(q) \cap live |-> q.kids[g]],
   word  |-> [g \in Groups(q) \cap live |-> q.word[g]],
   rules |-> q.rules \cap live]

AsRule(q, id)        == [q EXCEPT !.rules = @ \cup {id}]
AsGroup(q, id, word) == [q EXCEPT !.kids = @ @@ (id :> <<>>), !.word = @ @@ (id :> word)]

AtMost(i, n) == IF i < n THEN i ELSE n

\* Places a node in a group: at the end when no index is given, never past it.
\* An id that names no group leaves the query as it was.
insertFilterNode(q, id, parent, index) ==
  IF parent \notin Groups(q) THEN q
  ELSE [q EXCEPT !.kids[parent] = InsertAt(@, AtMost(index, Len(@)) + 1, id)]

appendFilterNode(q, id, parent) ==
  IF parent \notin Groups(q) THEN q
  ELSE [q EXCEPT !.kids[parent] = Append(@, id)]

\* The groups above a node, its own first and the root last.
Above(q, id) ==
  LET up[n \in 0 .. Cardinality(Groups(q))] ==
        IF n = 0 THEN <<ParentOf(q, id)>>
        ELSE IF Last(up[n - 1]) = Root THEN up[n - 1]
        ELSE Append(up[n - 1], ParentOf(q, Last(up[n - 1])))
  IN up[Cardinality(Groups(q))]

\* Removal prunes on its way up: of every group above the node it keeps the
\* children that still hold something.  A group beside that path is asked only
\* whether it is empty, and dropped when it is.
removeFilterNode(q, id) ==
  IF id = Root \/ id \notin Nodes(q) THEN q
  ELSE LET above == Above(q, id)
           kept[n \in 1 .. Len(above)] ==
             SelectSeq(q.kids[above[n]],
               LAMBDA c : /\ c # id
                          /\ \/ c \in q.rules
                             \/ IF n > 1 /\ c = above[n - 1]
                                THEN kept[n - 1] # <<>>
                                ELSE q.kids[c] # <<>>)
       IN Reached([q EXCEPT !.kids = [g \in Groups(q) |->
            IF Contains(above, g)
            THEN kept[CHOOSE n \in 1 .. Len(above) : above[n] = g]
            ELSE @[g]]])

\* Bug variant: a copy whose root is new and whose children keep their ids.
cloneShallow(q, id, next) ==
  IF id \in q.rules THEN AsRule(q, next)
  ELSE [q EXCEPT !.kids = @ @@ (next :> q.kids[id]), !.word = @ @@ (next :> q.word[id])]

\* A deep copy under fresh ids, minted in document order starting at `next`.
\* The copy is not placed yet: its root is `next`.
cloneFilterNode(q, id, next) ==
  LET order == DocumentOrder(q, id)
      New(x) == next - 1 + (CHOOSE i \in 1 .. Len(order) : order[i] = x)
      groups == ToSet(order) \cap Groups(q)
      Old(n) == order[n - next + 1]
      fresh  == {New(g) : g \in groups}
  IN [kids  |-> q.kids @@ [n \in fresh |->
                  [i \in 1 .. Len(q.kids[Old(n)]) |-> New(q.kids[Old(n)][i])]],
      word  |-> q.word @@ [n \in fresh |-> q.word[Old(n)]],
      rules |-> q.rules \cup {New(r) : r \in ToSet(order) \cap q.rules}]

Movable(q, id) == id # Root /\ id \in Nodes(q)

duplicateFilterNode(q, id, next) ==
  IF ~Movable(q, id) THEN q
  ELSE insertFilterNode(cloneFilterNode(q, id, next), next, ParentOf(q, id), PlaceOf(q, id))

copyFilterNodeTo(q, id, parent, index, next) ==
  IF ~Movable(q, id) \/ parent \notin Groups(q) THEN q
  ELSE insertFilterNode(cloneFilterNode(q, id, next), next, parent, index)

toggleFilterCombinator(q, g) ==
  IF g \notin Groups(q) THEN q
  ELSE [q EXCEPT !.word[g] = IF @ = "and" THEN "or" ELSE "and"]

\* One place up or down inside its own group; off either end is a no-op.
moveFilterNode(q, id, delta) ==
  IF ~Movable(q, id) THEN q
  ELSE LET p == ParentOf(q, id)  from == PlaceOf(q, id) IN
       IF from + delta \notin 1 .. Len(q.kids[p]) THEN q
       ELSE [q EXCEPT !.kids[p] = InsertAt(RemoveAt(@, from), from + delta, id)]

\* Takes a node out without pruning what it leaves empty.
detachFilterNode(q, id) ==
  [q EXCEPT !.kids = [g \in Groups(q) |-> SelectSeq(@[g], LAMBDA c : c # id)]]

\* Bug variant: the slot the node leaves behind is not accounted for.
moveUnadjusted(q, id, parent, index) ==
  IF \/ ~Movable(q, id)
     \/ parent \in Within(q, id)
     \/ parent \notin Groups(q)
  THEN q
  ELSE insertFilterNode(detachFilterNode(q, id), id, parent, index)

\* Bug variant: a move made of a removal, which prunes, and an insertion.
moveByRemoving(q, id, parent, index) ==
  IF \/ ~Movable(q, id)
     \/ parent \in Within(q, id)
     \/ parent \notin Groups(q)
  THEN q
  ELSE LET left == removeFilterNode(q, id)
           took == Within(q, id)
       IN Reached(insertFilterNode(
            [kids  |-> left.kids @@ [g \in took \cap Groups(q) |-> q.kids[g]],
             word  |-> left.word @@ [g \in took \cap Groups(q) |-> q.word[g]],
             rules |-> left.rules \cup (took \cap q.rules)], id, parent, index))

\* Moves a node to a place (counted from 0) of any group but itself or one
\* inside it.  Inside its own group its slot goes first, so later places
\* shift down by one.
moveFilterNodeTo(q, id, parent, index) ==
  IF \/ ~Movable(q, id)
     \/ parent \in Within(q, id)
     \/ parent \notin Groups(q)
  THEN q
  ELSE LET same   == ParentOf(q, id) = parent
           found  == PlaceOf(q, id) - 1
           target == IF same /\ found < index THEN index - 1 ELSE index
       IN IF same /\ target = found THEN q
          ELSE insertFilterNode(detachFilterNode(q, id), id, parent, target)

\* Nests a node in a new group that takes its place.
wrapFilterNodeInGroup(q, id, next) ==
  IF ~Movable(q, id) THEN q
  ELSE LET p == ParentOf(q, id) IN
       [kids  |-> [q.kids EXCEPT ![p] = ReplaceAt(@, PlaceOf(q, id), next)] @@ (next :> <<id>>),
        word  |-> q.word @@ (next :> "or"),
        rules |-> q.rules]

\* Dissolves a group: what it holds takes its place.
unwrapFilterGroup(q, g) ==
  IF g = Root \/ g \notin Groups(q) THEN q
  ELSE LET p == ParentOf(q, g)  at == PlaceOf(q, g)  row == q.kids[p] IN
       Reached([q EXCEPT !.kids[p] =
                  SubSeq(row, 1, at - 1) \o q.kids[g] \o SubSeq(row, at + 1, Len(row))])

clearFilterQuery(q) == Reached([q EXCEPT !.kids[Root] = <<>>])

\* Persisting: empty groups go, and a group holding one group gives way to it.
pruneFilterQuery(q) ==
  LET prune[n \in 0 .. Cardinality(Groups(q))] ==   \* what stands for a node: <<>> or one node
        [x \in Nodes(q) |->
           IF x \in q.rules THEN <<x>>
           ELSE IF n = 0 THEN <<>>
           ELSE LET rest == FlattenSeq([i \in 1 .. Len(q.kids[x]) |-> prune[n - 1][q.kids[x][i]]]) IN
                IF rest = <<>> THEN <<>>
                ELSE IF Len(rest) = 1 /\ rest[1] \in Groups(q) THEN rest ELSE <<x>>]
      all  == prune[Cardinality(Groups(q))]
  IN Reached([q EXCEPT !.kids = [g \in Groups(q) |->
       FlattenSeq([i \in 1 .. Len(@[g]) |-> all[@[g][i]]])]])

\* The query is a tree: every live node but the root sits in exactly one place
\* of one live group, and all of them are reached from the root.
IsTree(q) ==
  /\ Root \in Groups(q)
  /\ Groups(q) \cap q.rules = {}
  /\ DOMAIN q.word = Groups(q)
  /\ \A g \in Groups(q) : ToSet(q.kids[g]) \subseteq Nodes(q) \ {Root}
  /\ \A x \in Nodes(q) \ {Root} :
       Cardinality({<<g, i>> \in UNION {{<<h, j>> : j \in 1 .. Len(q.kids[h])} : h \in Groups(q)} :
                      q.kids[g][i] = x}) = 1
  /\ Within(q, Root) = Nodes(q)
===============================================================================
