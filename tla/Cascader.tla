------------------------------ MODULE Cascader ------------------------------
(* The cascader root, cascader.tsx, with its rows (cascader-item.tsx), header *)
(* (cascader-nav.tsx), columns, footer flyout and chips: where the panel is,  *)
(* what is selected, and the navigation that waits for a fetch.  One step is  *)
(* one event - a press, a key, a timer, an answer - with every effect React   *)
(* runs after it: the popup's close, the settling of a held navigation, the   *)
(* loader's own effects.  Wording, focus and layout are left out.             *)
EXTENDS CascaderLoader

CONSTANTS Configs,       \* the sets of props the instance is rendered with, and
                         \* how many requests and which queries each may make
          MaxFaults, MaxResets, MaxDepth,
          MaxCrumbs      \* maxSegments

VARIABLES props,    \* the consumer's props, fixed for the life of the cascader
          ui,       \* open, path, expanded, query, value, pending, flyout, hover
          ld,       \* the loader
          faults, resets,
          wanted    \* nodes asked for since the last move back or close

vars == <<props, ui, ld, faults, resets, wanted>>

None == [kind |-> "none", value |-> "", depth |-> 0]

Init ==
    /\ props \in Configs
    /\ ui = [open |-> FALSE, path |-> <<>>, expanded |-> {}, query |-> "", value |-> props.value,
             pending |-> None, flyout |-> FALSE, hover |-> ""]
    /\ ld = EmptyLoader
    /\ faults = 0 /\ resets = 0 /\ wanted = {}

-----------------------------------------------------------------------------
(* What the panel derives from its state *)

Live(u) == u.open \/ props.inline
Index(l) == MergeIndex(l.pages, l.detached)
CurrentLevel(u) == IF u.path = <<>> THEN Root ELSE Last(u.path)

\* The levels on screen, so the ones worth fetching.
LevelsShown(u) ==
    CASE props.mode = "tree" -> {Root} \cup u.expanded
      [] props.mode = "columns" -> {Root} \cup Range(u.path)
      [] OTHER -> {CurrentLevel(u)}

\* Whether pressing a branch has to fetch first; agrees with EnsureLevel.
NeedsChildren(l, n) ==
    /\ props.loader
    /\ IF l.states[n].has THEN l.states[n].loading \/ l.states[n].error ELSE Base.kids[n] = <<>>

\* A query searches the server, or the whole index, or only the level.
DeepSearching(u) == u.query # "" /\ props.mode # "tree" /\ (props.search \/ props.scope = "deep")
DeepResults(u, l) ==
    IF props.search THEN SearchResults(l, u.query)
    ELSE SearchDeep(Index(l), CurrentLevel(u), u.query)

\* The rows the listbox offers: the hits, the tree's rows, or the open level.
Rendered(u, l) ==
    IF props.mode = "tree" THEN {r.node : r \in Range(TreeRows(Index(l), u.expanded, u.query))}
    ELSE IF DeepSearching(u) THEN DeepResults(u, l)
    ELSE FilterLevel(Index(l), CurrentLevel(u), u.query)

\* Columns: the trail behind the deepest column, by the depth of its column.
TrailRows(u, l, depth) ==
    Range(Children(Index(l), IF depth = 0 THEN Root ELSE u.path[depth]))

\* The paging row, which is also where a level says it loads or has failed.
NeedsMoreRow(u, l, k) ==
    LET s == l.states[k]
    IN  IF Children(Index(l), k) # <<>> THEN s.more \/ s.loading \/ s.error
        ELSE props.mode = "tree" /\ (s.loading \/ s.error)

\* The crumbs the header shows of the path.
Crumbs(u, l) ==
    LET known(n) == n \in ByValue(Index(l))
        shown == CollapsePath(SelectSeq(u.path, known), MaxCrumbs, "middle")
    IN  Range(shown.head) \cup Range(shown.tail)

Committable(l, n) == Selectable(Index(l), n, props.selectable)

\* A branch can be opened; what may not be committed is vetoed only on a branch.
Opens(n) == IsBranch(Index(ld), n)
Commits(n) == Committable(ld, n) \/ ~Opens(n)

\* The marks of a row: its box, the dash in it, the count of what is below.
Row(u, l, n) ==
    [checked |-> n \in u.value, dash |-> n \in Indeterminate(Index(l), u.value),
     count |-> SelectedBelow(Index(l), u.value, n)]

-----------------------------------------------------------------------------
(* Moves *)

PushLevel(u, n) == [u EXCEPT !.path = Append(@, n), !.query = ""]

PopLevel(u) == [u EXCEPT !.path = IF @ = <<>> THEN @ ELSE Front(@), !.query = "", !.pending = None]
GoToDepth(u, d) == [u EXCEPT !.path = SubSeq(@, 1, d), !.query = "", !.pending = None]
GoToLevelAt(u, n, d) ==
    [u EXCEPT !.path = Append(SubSeq(@, 1, IF d <= Len(@) THEN d ELSE Len(@)), n), !.query = ""]
ToggleExpanded(u, n) ==
    [u EXCEPT !.expanded = IF n \in @ THEN @ \ {n} ELSE @ \cup {n}]

\* Asks for the children and parks the move until they are there.
RequestChildren(u, l, n, kind, depth) ==
    [u |-> [u EXCEPT !.pending = [kind |-> kind, value |-> n, depth |-> depth]],
     l |-> EnsureLevel(RetryLevel(l, n), n)]

Moved(u, l) == [u |-> u, l |-> l]

NavigateAt(u, l, n, depth) ==
    IF props.mode = "tree" THEN Moved(ToggleExpanded(u, n), l)
    ELSE IF NeedsChildren(l, n) THEN RequestChildren(u, l, n, "at", depth)
    ELSE Moved(GoToLevelAt(u, n, depth), l)

Navigate(u, l, n) ==
    LET chain == PathTo(Index(l), n)
        depth == IF chain = <<>> THEN 0 ELSE Len(chain) - 1
    IN  CASE props.mode = "tree" ->
               IF n \notin u.expanded /\ NeedsChildren(l, n)
               THEN RequestChildren(u, l, n, "expand", 0) ELSE Moved(ToggleExpanded(u, n), l)
          [] props.mode # "tree" /\ DeepSearching(u) ->
               IF NeedsChildren(l, n) THEN RequestChildren(u, l, n, "at", depth)
               ELSE Moved([u EXCEPT !.path = chain, !.query = ""], l)
          [] OTHER ->
               IF NeedsChildren(l, n) THEN RequestChildren(u, l, n, "push", 0)
               ELSE Moved(PushLevel(u, n), l)

\* The other half of RequestChildren: the fetch answered, so the move happens;
\* a failed fetch keeps the intent, no entry yet means wait.
SettlePending(u, l) ==
    LET p == u.pending
        s == l.states[p.value]
        v == [u EXCEPT !.pending = None]
    IN  CASE p = None -> u
          [] p # None /\ (~s.has \/ s.loading \/ s.error) -> u
          [] OTHER -> CASE p.kind = "expand" -> ToggleExpanded(v, p.value)
                        [] p.kind = "at" -> GoToLevelAt(v, p.value, p.depth)
                        [] p.kind = "push" -> PushLevel(v, p.value)

-----------------------------------------------------------------------------
(* Every step ends with React's effects, in the order they are declared *)

CloseDropsPending(u) == IF Live(u) THEN u ELSE [u EXCEPT !.pending = None]
LoaderQuery(u) == IF Live(u) /\ props.search /\ props.mode # "tree" THEN u.query ELSE ""

\* A row that left the deepest column loses its hover timer.
KeepHover(u, l) ==
    IF u.hover # "" /\ Live(u) /\ u.hover \in Rendered(u, l) THEN u ELSE [u EXCEPT !.hover = ""]

CloseEffect(u, l) == IF Live(ui) /\ ~Live(u) THEN CancelAll(l) ELSE l
LevelsEffect(u, l) == IF Live(u) /\ props.loader THEN LevelEffect(l, LevelsShown(u)) ELSE l
QueryEffect(u, l) == IF LoaderQuery(u) # LoaderQuery(ui) THEN SearchEffect(l, LoaderQuery(u)) ELSE l
ValueEffect(u, l) ==
    IF Live(u) /\ props.resolve /\ (~Live(ui) \/ u.value # ui.value) THEN ResolveEffect(l, u.value) ELSE l

\* (\E x \in {e} names a value and has TLC compute it once.)
Render(u, l) ==
    \E l1 \in {CloseEffect(u, l)} :
    \E u1 \in {SettlePending(CloseDropsPending(u), l1)} :
    \E l2 \in {LevelsEffect(u1, l1)} :
    \E l3 \in {QueryEffect(u1, l2)} :
    \E l4 \in {ValueEffect(u1, l3)} :
        /\ l4.sent <= props.requests
        /\ Len(u1.path) <= MaxDepth
        /\ ui' = KeepHover(u1, l4)
        /\ ld' = l4
        /\ UNCHANGED props

Does(move) == \E m \in {move} : Render(m.u, m.l)
Quietly == UNCHANGED <<faults, resets>>
Asks(n) == wanted' = wanted \cup {n}
MovesBack == wanted' = {}

-----------------------------------------------------------------------------
(* Opening and closing *)

\* Opening reveals the level of the first selected value.
OpenPopup ==
    /\ ~ui.open /\ ~props.inline
    /\ \E first \in IF ui.value = {} THEN {""} ELSE ui.value :
          LET path == IF first = "" \/ PathTo(Index(ld), first) = <<>> THEN <<>>
                      ELSE Front(PathTo(Index(ld), first))
              u == [ui EXCEPT !.open = TRUE]
          IN  IF props.reveal
              THEN Render([u EXCEPT !.query = "", !.path = path], ld) /\ wanted' = Range(path)
              ELSE Render(u, ld) /\ UNCHANGED wanted
    /\ Quietly

\* One Escape closes one popup: the flyout first.
ClosePopup ==
    /\ ui.open /\ ~ui.flyout
    /\ Render([ui EXCEPT !.open = FALSE, !.query = ""], ld)
    /\ MovesBack /\ Quietly

EscapeFlyout ==
    /\ ui.flyout
    /\ Render([ui EXCEPT !.flyout = FALSE], ld)
    /\ Quietly /\ UNCHANGED wanted

OpenFlyout ==
    /\ props.actions /\ Live(ui) /\ ~ui.flyout
    /\ Render([ui EXCEPT !.flyout = TRUE], ld)
    /\ Quietly /\ UNCHANGED wanted

-----------------------------------------------------------------------------
(* Moving around *)

Type(q) ==
    /\ Live(ui) /\ q # ui.query
    /\ Render([ui EXCEPT !.query = q], ld)
    /\ Quietly /\ UNCHANGED wanted

\* The back button, the back arrow, Backspace on an empty query.
Back ==
    /\ Live(ui) /\ ui.path # <<>> /\ props.mode # "tree"
    /\ Render(PopLevel(ui), ld)
    /\ MovesBack /\ Quietly

\* A crumb of the collapsed trail, other than the level on screen.
Crumb(n) ==
    /\ Live(ui) /\ props.mode = "drill" /\ ui.path # <<>>
    /\ n \in Crumbs(ui, ld) \ {Last(ui.path)}
    /\ Render(GoToDepth(ui, CHOOSE d \in DOMAIN ui.path :
                  ui.path[d] = n /\ \A e \in 1..(d - 1) : ui.path[e] # n), ld)
    /\ MovesBack /\ Quietly

\* A branch that cannot be committed navigates; so do the chevron, the tree's
\* expander and the arrow towards the children.
PressBranch(n) ==
    /\ Live(ui) /\ n \in Rendered(ui, ld) \ Disabled
    /\ Opens(n)
    /\ Does(Navigate(ui, ld, n))
    /\ Asks(n) /\ Quietly

\* A row of the trail replaces everything right of its column.
PressTrail(n, d) ==
    /\ Live(ui) /\ props.mode = "columns" /\ d < Len(ui.path)
    /\ n \in TrailRows(ui, ld, d) \ Disabled /\ Opens(n)
    /\ Does(NavigateAt(ui, ld, n, d))
    /\ Asks(n) /\ Quietly

\* expandTrigger="hover": resting on a branch of the deepest column.
HoverEnter(n) ==
    /\ Live(ui) /\ props.hover /\ props.mode = "columns" /\ ui.hover # n
    /\ n \in Rendered(ui, ld) \ Disabled /\ Opens(n)
    /\ Render([ui EXCEPT !.hover = n], ld)
    /\ Quietly /\ UNCHANGED wanted

HoverLeave ==
    /\ ui.hover # ""
    /\ Render([ui EXCEPT !.hover = ""], ld)
    /\ Quietly /\ UNCHANGED wanted

HoverFires ==
    /\ ui.hover # ""
    /\ Does(Navigate([ui EXCEPT !.hover = ""], ld, ui.hover))
    /\ Asks(ui.hover) /\ Quietly

-----------------------------------------------------------------------------
(* Selecting *)

\* What a press on n makes of the selection.
NextValue(u, l, n) ==
    CASE ~props.multiple -> {n}
      [] props.multiple /\ props.cascade ->
           ApplyCascade(Index(l), u.value, n, n \notin u.value, props.selectable)
      [] OTHER -> IF n \in u.value THEN u.value \ {n} ELSE u.value \cup {n}

\* max refuses a whole cascading gesture, and one more plain value.
Refused(u, l, n) ==
    /\ props.multiple /\ props.max > 0 /\ n \notin u.value
    /\ Cardinality(NextValue(u, l, n)) > props.max

CommitValue(u, l, n) ==
    IF Refused(u, l, n) THEN u
    ELSE [u EXCEPT !.value = NextValue(u, l, n), !.query = "",
                   !.open = @ /\ (props.multiple \/ ~props.closeOnSelect)]

\* The listbox reports a press; only a branch that may not be committed is vetoed.
PressRow(n) ==
    /\ Live(ui) /\ n \in Rendered(ui, ld) \ Disabled
    /\ Commits(n)
    /\ LET u == CommitValue(ui, ld, n)
       IN  Render(u, ld) /\ wanted' = IF Live(u) THEN wanted ELSE {}
    /\ Quietly

\* A trail row commits only what may be; its plain refusal still clears the query.
CommitTrail(n, d) ==
    /\ Live(ui) /\ props.mode = "columns" /\ d < Len(ui.path)
    /\ n \in TrailRows(ui, ld, d) \ Disabled /\ Committable(ld, n)
    /\ LET u == CommitValue(ui, ld, n)
           v == IF Refused(ui, ld, n) /\ ~props.cascade THEN [u EXCEPT !.query = ""] ELSE u
       IN  Render(v, ld) /\ wanted' = IF Live(v) THEN wanted ELSE {}
    /\ Quietly

\* A chip of a condensed selection takes its whole closure with it.
RemoveChip(n, strategy) ==
    /\ props.multiple /\ n \in CheckedValues(Index(ld), ui.value, strategy)
    /\ LET left == IF props.cascade \/ strategy # "all"
                   THEN ApplyCascade(Index(ld), ui.value, n, FALSE, props.selectable)
                   ELSE ui.value \ {n}
       IN  Render([ui EXCEPT !.value = left], ld)
    /\ Quietly /\ UNCHANGED wanted

-----------------------------------------------------------------------------
(* The loader's own events *)

\* The paging row: retry after a failure, otherwise the next page.
PressMore(k) ==
    /\ Live(ui) /\ k \in LevelsShown(ui) /\ NeedsMoreRow(ui, ld, k) /\ ~DeepSearching(ui)
    /\ ~ld.states[k].loading
    /\ Render(ui, IF ld.states[k].error THEN RetryLevel(ld, k) ELSE LoadMore(ld, k))
    /\ ld' # ld
    /\ Quietly /\ UNCHANGED wanted

\* The retry button of an empty level.
PressRetry(k) ==
    /\ Live(ui) /\ k \in LevelsShown(ui) /\ ld.states[k].error /\ Children(Index(ld), k) = <<>>
    /\ Render(ui, RetryLevel(ld, k))
    /\ Quietly /\ UNCHANGED wanted

Highlight(n) ==
    /\ props.prefetch /\ Live(ui) /\ n \in Rendered(ui, ld)
    /\ Render(ui, PrefetchNode(ld, n))
    /\ ld' # ld
    /\ Quietly /\ UNCHANGED wanted

PrefetchTimer ==
    /\ ld.prefetch # ""
    /\ Render(ui, PrefetchFires(ld))
    /\ Quietly /\ UNCHANGED wanted

SearchTimer ==
    /\ ld.debounce # ""
    /\ Render(ui, RunSearch(ld))
    /\ Quietly /\ UNCHANGED wanted

Answer(r) ==
    /\ r \in ld.reqs
    /\ Render(ui, CASE r.key[1] = "level" -> LevelAnswered(ld, r)
                    [] r.key[1] = "search" -> SearchAnswered(ld, r)
                    [] r.key[1] = "resolve" -> ResolveAnswered(ld, r))
    /\ Quietly /\ UNCHANGED wanted

\* An aborted request rejects when the consumer passes the signal on.
Fail(r) ==
    /\ r \in ld.reqs
    /\ r.aborted \/ faults < MaxFaults
    /\ faults' = IF r.aborted THEN faults ELSE faults + 1
    /\ Render(ui, CASE r.key[1] = "level" -> LevelFailed(ld, r)
                    [] r.key[1] = "search" -> SearchFailed(ld, r)
                    [] r.key[1] = "resolve" -> ResolveFailed(ld, r))
    /\ UNCHANGED <<resets, wanted>>

ChangeLoadKey ==
    /\ resets < MaxResets /\ props.loader
    /\ resets' = resets + 1
    /\ Render(ui, ResetLoader(ld))
    /\ UNCHANGED <<faults, wanted>>

Invalidate(k) ==
    /\ resets < MaxResets /\ props.loader /\ ld.states[k].has
    /\ resets' = resets + 1
    /\ Render(ui, InvalidateLevel(ld, k))
    /\ UNCHANGED <<faults, wanted>>

Answered == \E r \in ld.reqs : Answer(r) \/ Fail(r)

Next ==
    \/ OpenPopup \/ ClosePopup \/ EscapeFlyout \/ OpenFlyout \/ Back \/ HoverLeave \/ HoverFires
    \/ \E q \in props.queries \cup {""} : Type(q)
    \/ \E n \in Nodes : Crumb(n) \/ PressBranch(n) \/ HoverEnter(n) \/ PressRow(n) \/ Highlight(n)
    \/ \E n \in Nodes, d \in 0..MaxDepth : PressTrail(n, d) \/ CommitTrail(n, d)
    \/ \E n \in Nodes, s \in {"all", "parent", "child"} : RemoveChip(n, s)
    \/ \E k \in Levels : PressMore(k) \/ PressRetry(k) \/ Invalidate(k)
    \/ PrefetchTimer \/ SearchTimer \/ ChangeLoadKey \/ Answered

\* The server answers what it was asked, or the request fails; users may stop.
Fairness == WF_vars(Answered)

Spec == Init /\ [][Next]_vars /\ Fairness

-----------------------------------------------------------------------------
(* Properties *)

\* However requests are aborted, retried, invalidated and answered out of order,
\* the rows of a settled level are exactly the pages the server served so far,
\* each node once; a stub that resolveValue placed there is the one exception.
LevelIsPrefix ==
    \A k \in Levels :
        LET s == ld.states[k]
            served == UNION {Range(Server[k][i]) : i \in 1..ld.asked[k]}
        IN  (s.has /\ ~s.loading /\ ~s.error /\ ~props.resolve) =>
                /\ ld.asked[k] > 0
                /\ s.more <=> ld.asked[k] < Len(Server[k])
                /\ s.more => s.cursor = ld.asked[k]
                /\ Range(ld.pages[k]) = served
                /\ Len(ld.pages[k]) = Cardinality(served)

\* On the part of the tree that `items` fills, a branch is in a cascading
\* selection exactly when every selectable child of it is, and shows the dash
\* exactly when some of the selectable nodes below it are and some are not,
\* whatever was pressed, deselected, refused by max or removed as a chip.
CascadeClosed ==
    (props.multiple /\ props.cascade /\ props.value = {}) =>
        \A n \in {m \in BaseValues : Committable(ld, m)} :
            LET kids == {c \in Range(Base.kids[n]) : Committable(ld, c)}
                below == {c \in Subtree(Base, n) \ {n} : Committable(ld, c)}
            IN  kids # {} =>
                  /\ n \in ui.value <=> kids \subseteq ui.value
                  /\ Row(ui, ld, n).dash <=>
                        (Row(ui, ld, n).count > 0 /\ ~(below \subseteq ui.value))

\* An open panel does not show a spinner forever: every level on screen comes to
\* have rows, or an error that offers a retry.
PanelSettles ==
    (Live(ui) /\ props.loader) ~>
        (~Live(ui) \/ \A k \in LevelsShown(ui) : Base.kids[k] # <<>> \/ (ld.states[k].has /\ ~ld.states[k].loading))
=============================================================================
