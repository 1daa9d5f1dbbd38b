----------------------------- MODULE FilterOptions -----------------------------
(***************************************************************************)
(* The options a value editor offers, and the labels of values it did not  *)
(* load (filters-editors.tsx, filters-context.tsx).  The editor's list is   *)
(* searched by a server: each text is asked for after a pause, page by     *)
(* page, and a later question overtakes an earlier one.  What any list     *)
(* brought is kept for the whole bar, and a chip asks for the values it     *)
(* cannot name, each at most once at a time.  One option may exclude the   *)
(* others; the list may keep the chosen ones on top, and then carries the  *)
(* highlight along.                                                        *)
(***************************************************************************)
EXTENDS Integers, Sequences, FiniteSets, SequencesExt

CONSTANTS
  Pages,        \* each search text and the pages of options its server holds
  NoneOption,   \* the option that excludes the others
  Saved,        \* the values the rule may come with from a saved query
  Elsewhere,    \* the values another rule of the field shows
  MaxRequests   \* bound: how many list requests are sent

Texts == DOMAIN Pages
Listed(text) == FlattenSeq(Pages[text])
Values == UNION {ToSet(Listed(t)) : t \in Texts}

ASSUME PagesAssumption ==
  /\ \A t \in Texts : Len(Pages[t]) > 0 /\ IsInjective(Listed(t))
  /\ NoneOption \in Values /\ Elsewhere \subseteq Values /\ \A s \in Saved : ToSet(s) \subseteq Values

VARIABLES
  shown,     \* the editor is on the page, and its list enabled
  text,      \* what is typed
  timer,     \* the debounce is running
  asked,     \* requestId: the last list request sent
  wire,      \* list requests the server has not answered
  list,      \* the list: items, loading, error, hasMore, cursor
  selected,  \* the value of the rule, in the order it was ticked
  cache,     \* the options this editor has seen
  resolved,  \* the bar's own store: options by value
  claimed,   \* values some chip has asked the page to name
  resolves,  \* those questions, not answered yet
  light,     \* the highlighted row: its index, the value Base UI holds for it,
             \* and the value the user put it on
  pin        \* the highlight to carry along: its value and index, and whether
             \* the task that restores it is queued

optVars == <<shown, text, timer, asked, wire, list, selected, cache, resolved, claimed,
             resolves, light, pin>>

IDLE == [items |-> <<>>, loading |-> FALSE, error |-> FALSE, hasMore |-> FALSE, cursor |-> 0]
NoPin == [value |-> NoneOption, index |-> 0, queued |-> FALSE]
Dark  == [index |-> 0, value |-> NoneOption, mine |-> NoneOption]
NoText == CHOOSE t \in Texts : TRUE

OptInit ==
  /\ shown = FALSE /\ text = NoText /\ timer = FALSE
  /\ asked = 0 /\ wire = {} /\ list = IDLE
  /\ selected \in Saved
  /\ cache = {} /\ resolved = {} /\ claimed = {} /\ resolves = {}
  /\ light = Dark /\ pin = NoPin

\* Bug variant: only what the list shows now is known.
resolveListed(v) == v \in ToSet(list.items)

\* What the editor can tell of a value: from the bar's store, or from its own.
resolve(v) == v \in resolved \cup cache

\* The rows of the menu: the chosen options first, the excluding one last.
partitioned(items, chosen) ==
  SelectSeq(items, LAMBDA v : v # NoneOption /\ v \in ToSet(chosen))
  \o SelectSeq(items, LAMBDA v : v # NoneOption /\ v \notin ToSet(chosen))
  \o SelectSeq(items, LAMBDA v : v = NoneOption)

Order == partitioned(list.items, selected)

-------------------------------------------------------------------------------
(* The list. *)

\* New items are Base UI's to highlight, and end a carry that was under way.
NewList(new) ==
  /\ list' = new
  /\ cache' = cache \cup ToSet(new.items)
  /\ resolved' = resolved \cup ToSet(new.items)
  /\ IF new.items = list.items THEN UNCHANGED <<light, pin>> ELSE light' = Dark /\ pin' = NoPin

\* Sends a request; the one before it is aborted, and its answer ignored.
run(cursor, append) ==
  /\ asked < MaxRequests
  /\ asked' = asked + 1
  /\ wire' = wire \cup {[id |-> asked + 1, text |-> text, cursor |-> cursor, append |-> append]}
  /\ NewList([list EXCEPT !.loading = TRUE, !.error = FALSE,
                          !.items = IF append THEN @ ELSE <<>>])

Open ==
  /\ ~shown
  /\ shown' = TRUE /\ timer' = TRUE
  /\ UNCHANGED <<text, asked, wire, list, selected, cache, resolved, claimed, resolves, light, pin>>

\* The editor leaves the page: its state goes, its requests are aborted.
Close ==
  /\ shown
  /\ shown' = FALSE /\ timer' = FALSE /\ list' = IDLE /\ cache' = {} /\ wire' = {}
  /\ light' = Dark /\ pin' = NoPin
  /\ text' = NoText
  /\ UNCHANGED <<asked, selected, resolved, claimed, resolves>>

setQuery(t) ==
  /\ shown /\ t # text
  /\ text' = t /\ timer' = TRUE
  /\ UNCHANGED <<shown, asked, wire, list, selected, cache, resolved, claimed, resolves, light, pin>>

Debounced ==
  /\ timer /\ timer' = FALSE
  /\ run(0, FALSE)
  /\ UNCHANGED <<shown, text, selected, claimed, resolves>>

loadMore ==
  /\ shown /\ list.hasMore /\ ~list.loading /\ ~list.error
  /\ run(list.cursor, TRUE)
  /\ UNCHANGED <<shown, text, timer, selected, claimed, resolves>>

retry ==
  /\ shown /\ list.error
  /\ run(0, FALSE)
  /\ UNCHANGED <<shown, text, timer, selected, claimed, resolves>>

\* Bug variant: the answer of an overtaken request is taken too.
AnyAnswer(r) ==
  LET page == IF r.cursor < Len(Pages[r.text]) THEN Pages[r.text][r.cursor + 1] ELSE <<>> IN
  /\ wire' = wire \ {r}
  /\ NewList([items |-> IF r.append THEN list.items \o page ELSE page,
              loading |-> FALSE, error |-> FALSE, cursor |-> r.cursor + 1,
              hasMore |-> r.cursor + 1 < Len(Pages[r.text])])
  /\ UNCHANGED <<shown, text, timer, asked, selected, claimed, resolves>>

\* An answer: dropped when a later request was sent.
Answer(r) ==
  IF r.id # asked
  THEN /\ wire' = wire \ {r}
       /\ UNCHANGED <<shown, text, timer, asked, list, selected, cache, resolved, claimed,
                      resolves, light, pin>>
  ELSE AnyAnswer(r)

Fail(r) ==
  /\ wire' = wire \ {r}
  /\ list' = IF r.id = asked
             THEN [list EXCEPT !.loading = FALSE, !.error = TRUE, !.hasMore = FALSE]
             ELSE list
  /\ UNCHANGED <<shown, text, timer, asked, selected, cache, resolved, claimed, resolves, light, pin>>

-------------------------------------------------------------------------------
(* The menu. *)

\* The pointer or an arrow key moves the highlight; a carry is then spent.
Highlight(v) ==
  /\ shown /\ v \in ToSet(Order) /\ v # light.value
  /\ \A i \in 1 .. Len(Order) : Order[i] = v => light' = [index |-> i, value |-> v, mine |-> v]
  /\ pin' = NoPin
  /\ UNCHANGED <<shown, text, timer, asked, wire, list, selected, cache, resolved, claimed, resolves>>

\* The option that excludes the others clears them when it arrives, and goes
\* when another does.
applyFilterExclusiveSelection(next, previous) ==
  LET exclusive(v) == v = NoneOption /\ resolve(v)
      added == ToSet(next) \ ToSet(previous)
  IN IF added = {} THEN next
     ELSE IF \E v \in added : exclusive(v) THEN <<NoneOption>>
     ELSE SelectSeq(next, LAMBDA v : ~exclusive(v))

\* The rows moved and their data did not: the highlighted row is to be found again.
ArmPin(order) ==
  pin' = IF order = Order \/ light.index = 0 THEN pin
         ELSE [pin EXCEPT !.value = light.value, !.index = light.index]

\* Enter or a press on the highlighted row.  The rule takes the new value at
\* once, and the rows are ordered anew.  (No key is pressed in the one task
\* between Observe and Restore.)
Tick ==
  /\ shown /\ light.index # 0 /\ ~pin.queued
  /\ LET v   == light.value
         raw == IF Contains(selected, v) THEN SelectSeq(selected, LAMBDA x : x # v)
                ELSE Append(selected, v)
         values == applyFilterExclusiveSelection(raw, selected)
     IN /\ selected' = values
        /\ ArmPin(partitioned(list.items, values))
        /\ light' = [light EXCEPT !.mine = v]
  /\ UNCHANGED <<shown, text, timer, asked, wire, list, cache, resolved, claimed, resolves>>

\* Base UI notices the moved rows: the highlight keeps its index, and stands on
\* another row.  That is the sign the carry waits for.
Observe ==
  /\ light.index # 0 /\ Order[light.index] # light.value
  /\ light' = [light EXCEPT !.value = Order[light.index]]
  /\ pin' = IF pin = NoPin THEN pin
            ELSE IF Order[light.index] = pin.value \/ light.index # pin.index THEN NoPin
            ELSE [pin EXCEPT !.queued = TRUE]
  /\ UNCHANGED <<shown, text, timer, asked, wire, list, selected, cache, resolved, claimed, resolves>>

\* The task: a pointer move over the row, wherever it is now.  Attempts made
\* before Base UI has the new order do nothing, and another follows.
Restore ==
  /\ pin.queued /\ Order[light.index] = light.value
  /\ \A i \in 1 .. Len(Order) :
       Order[i] = pin.value => light' = [light EXCEPT !.index = i, !.value = pin.value]
  /\ pin' = NoPin
  /\ UNCHANGED <<shown, text, timer, asked, wire, list, selected, cache, resolved, claimed, resolves>>

-------------------------------------------------------------------------------
(* Values nobody listed. *)

claim(vs) == [fresh |-> vs \ (claimed \cup resolved), claimed |-> claimed \cup (vs \ resolved)]

\* A chip came up, or its values changed: this rule's, or another's of the field.
AskNames(vs) ==
  /\ claim(vs \ resolved).fresh # {}
  /\ resolves' = resolves \cup {[n |-> Cardinality(resolves), values |-> claim(vs \ resolved).fresh]}
  /\ claimed' = claim(vs \ resolved).claimed
  /\ UNCHANGED <<shown, text, timer, asked, wire, list, selected, cache, resolved, light, pin>>

\* The page names the values it knows; the ones it left out stay claimed.
Named(r, known) ==
  /\ resolves' = resolves \ {r}
  /\ resolved' = resolved \cup known
  /\ UNCHANGED <<shown, text, timer, asked, wire, list, selected, cache, claimed, light, pin>>

\* The page failed: the values may be asked for again.
release(r) ==
  /\ resolves' = resolves \ {r}
  /\ claimed' = claimed \ r.values
  /\ UNCHANGED <<shown, text, timer, asked, wire, list, selected, cache, resolved, light, pin>>

OptNext ==
  \/ Open \/ Close \/ Debounced \/ loadMore \/ retry \/ Tick \/ Observe \/ Restore
  \/ \E t \in Texts : setQuery(t)
  \/ \E r \in wire : Answer(r) \/ Fail(r)
  \/ \E v \in Values : Highlight(v)
  \/ AskNames(ToSet(selected)) \/ AskNames(Elsewhere)
  \/ \E r \in resolves : release(r) \/ \E known \in SUBSET r.values : Named(r, known)

OptSpec == OptInit /\ [][OptNext]_optVars

-------------------------------------------------------------------------------
(* A list at rest is what the server holds for the text in the field: the   *)
(* first pages of it, in order, with nothing of another text between them,   *)
(* and the offer to load more says whether any are left.                     *)
OptionsMatch ==
  (shown /\ ~timer /\ ~list.loading /\ ~list.error) =>
    /\ list.cursor \in 1 .. Len(Pages[text])
    /\ list.items = FlattenSeq(SubSeq(Pages[text], 1, list.cursor))
    /\ list.hasMore = (list.cursor < Len(Pages[text]))

(* A tick never leaves the excluding option beside another one, once the bar *)
(* has seen which option that is, whatever the list shows at the moment.     *)
NoneAlone ==
  [][(selected' # selected /\ ToSet(selected') \ ToSet(selected) # {} /\ NoneOption \in resolved) =>
       (NoneOption \in ToSet(selected') => Len(selected') = 1)]_optVars

(* Whatever answers overtake each other, the list at rest is the server's    *)
(* for the text in the field, and ticking in it respects the excluding one.  *)
OptionsHold == []OptionsMatch /\ NoneAlone
===============================================================================
