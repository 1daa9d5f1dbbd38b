---------------------------- MODULE CascaderTree ----------------------------
(* The pure half of the cascader, cascader-lib.tsx: the index built from      *)
(* `items`, the loaded pages merged onto it, and everything computed from the *)
(* merged index - who is a branch, who may be committed, the path of a node,  *)
(* the rows of a level, a search and a tree, and what a cascading commit      *)
(* selects.  A node is its value; labels and icons are left out, and whether  *)
(* a node matches the query is a constant of the instance.                    *)
EXTENDS Naturals, Sequences, FiniteSets, SequencesExt

CONSTANTS Nodes,        \* every node value that items or the server can name
          Items,        \* the flat `items` prop: sequence of [value, parent]
          HasChildren,  \* nodes that announce children they do not carry
          Disabled,     \* nodes with `disabled`
          Matching      \* query -> the nodes whose label or keywords match it

Root == "/"                         \* CASCADER_ROOT_KEY: no node has this value
Levels == Nodes \cup {Root}

ASSUME ItemsAreNodes ==
    /\ Root \notin Nodes
    /\ \A i \in DOMAIN Items : Items[i].value \in Nodes

-----------------------------------------------------------------------------
(* An index: the children of every level in order, and the level-less nodes   *)
(* (search hits, resolved selections) that only have a label.                 *)

\* The first entry with a value wins; a parent that is not an item is the root.
BuildIndex(items) ==
    LET first == [i \in DOMAIN items |->
                    \A j \in 1..(i - 1) : items[j].value # items[i].value]
        kept  == {items[i].value : i \in DOMAIN items}
        level(i) == IF items[i].parent \in kept THEN items[i].parent ELSE Root
        on(k) == [n \in 1..Len(items) |-> first[n] /\ level(n) = k]
    IN  [kids |-> [k \in Levels |->
                    LET ix == SetToSortSeq({n \in DOMAIN items : on(k)[n]}, <)
                    IN  [n \in DOMAIN ix |-> items[ix[n]].value]],
         loose |-> {}]

Base == BuildIndex(Items)
Placed(I) == UNION {Range(I.kids[k]) : k \in Levels}     \* nodes on some level
ByValue(I) == Placed(I) \cup I.loose
BaseValues == Placed(Base)

\* What `items` already places stays where it is; detached nodes get no level.
MergeIndex(pages, detached) ==
    LET fresh(n) == n \notin BaseValues
    IN  [kids |-> [k \in Levels |-> Base.kids[k] \o SelectSeq(pages[k], fresh)],
         loose |-> detached]

ParentOf(I, n) ==
    IF n \in Placed(I) THEN CHOOSE k \in Levels : n \in Range(I.kids[k]) ELSE Root
Children(I, k) == I.kids[k]
IsBranch(I, n) == n \in HasChildren \/ I.kids[n] # <<>>

\* The ancestor chain, root first, the node last; a cycle or a gap ends it.
RECURSIVE Climb(_, _, _)
Climb(I, n, seen) ==
    IF n \in seen \/ n \notin ByValue(I) THEN <<>>
    ELSE Append(Climb(I, ParentOf(I, n), seen \cup {n}), n)
PathTo(I, n) == Climb(I, n, {Root})
Ancestors(I, n) == Range(PathTo(I, n)) \ {n}

\* "any" commits branches too; otherwise only what is not a branch.
Selectable(I, n, mode) ==
    /\ n \notin Disabled
    /\ Ancestors(I, n) \cap Disabled = {}
    /\ mode = "any" \/ ~IsBranch(I, n)

-----------------------------------------------------------------------------
(* Rows *)

Filtered(rows, query) == IF query = "" THEN rows ELSE rows \cap Matching[query]
FilterLevel(I, k, query) == Filtered(Range(Children(I, k)), query)

\* Every placed node that matches, below `within` when a level is open.
SearchDeep(I, within, query) ==
    {n \in Placed(I) \cap Matching[query] : within = Root \/ within \in Ancestors(I, n)}

\* Tree mode's visible rows in document order, each with its depth.
RECURSIVE Walk(_, _, _, _)
Walk(I, expanded, k, depth) ==
    LET one(n) == <<[node |-> n, depth |-> depth]>> \o
                  (IF IsBranch(I, n) /\ n \in expanded
                   THEN Walk(I, expanded, n, depth + 1) ELSE <<>>)
    IN  FoldLeft(LAMBDA rows, n : rows \o one(n), <<>>, I.kids[k])
FlattenTree(I, expanded) == Walk(I, expanded, Root, 0)

\* A query keeps the matches of the whole index and opens their ancestors.
TreeRows(I, expanded, query) ==
    LET keep == UNION {Range(PathTo(I, n)) : n \in Placed(I) \cap Matching[query]}
        kept(row) == row.node \in keep
    IN  IF query = "" THEN FlattenTree(I, expanded)
        ELSE SelectSeq(FlattenTree(I, expanded \cup keep), kept)

\* A trail of at most `max` shown nodes; the ellipsis carries the hidden ones.
CollapsePath(path, max, how) ==
    LET n == Len(path)
        tail == IF how = "start" THEN max ELSE max - 1
        head == IF how = "start" THEN 0 ELSE 1
    IN  IF how = "none" \/ max = 0 \/ n <= max \/ n - tail <= head
        THEN [head |-> path, hidden |-> <<>>, tail |-> <<>>]
        ELSE [head |-> SubSeq(path, 1, head), hidden |-> SubSeq(path, head + 1, n - tail),
              tail |-> SubSeq(path, n - tail + 1, n)]

-----------------------------------------------------------------------------
(* Cascading selection *)

\* The loaded nodes at and below n.
Subtree(I, n) == {m \in ByValue(I) : n \in Range(PathTo(I, m))}

\* Bug variant: one selected child is enough to select its parent.
CascadeSome(I, selected, n, select, mode) ==
    LET swept == {m \in Subtree(I, n) : m = n \/ Selectable(I, m, mode)} \cup {n}
        toggled == IF select THEN selected \cup swept ELSE selected \ swept
        some(s, k) == \E c \in Range(I.kids[k]) \cap s : Selectable(I, c, mode)
        settle(s, k) == IF some(s, k) /\ Selectable(I, k, mode) THEN s \cup {k} ELSE s \ {k}
        above == Reverse(Front(PathTo(I, n)))
    IN  IF PathTo(I, n) = <<>> THEN toggled ELSE FoldLeft(settle, toggled, above)

\* Toggles n with its loaded selectable subtree, then settles every ancestor,
\* nearest first: in the selection exactly when its selectable children are.
ApplyCascade(I, selected, n, select, mode) ==
    LET swept == {m \in Subtree(I, n) : m = n \/ Selectable(I, m, mode)} \cup {n}
        toggled == IF select THEN selected \cup swept ELSE selected \ swept
        full(s, k) == LET kids == {c \in Range(I.kids[k]) : Selectable(I, c, mode)}
                      IN  kids # {} /\ kids \subseteq s /\ Selectable(I, k, mode)
        settle(s, k) == IF full(s, k) THEN s \cup {k} ELSE s \ {k}
        above == Reverse(Front(PathTo(I, n)))
    IN  IF PathTo(I, n) = <<>> THEN toggled ELSE FoldLeft(settle, toggled, above)

\* Selected nodes below each node: the trailing count, and the dash.
SelectedBelow(I, selected, n) == Cardinality({m \in selected : n \in Ancestors(I, m)})
Indeterminate(I, selected) ==
    {n \in Nodes : n \notin selected /\ SelectedBelow(I, selected, n) > 0}

\* What the chips show of the stored closure.
CheckedValues(I, selected, strategy) ==
    CASE strategy = "all" -> selected
      [] strategy = "parent" -> {n \in selected : ParentOf(I, n) \notin selected}
      [] strategy = "child" -> {n \in selected : Range(I.kids[n]) \cap selected = {}}
=============================================================================
