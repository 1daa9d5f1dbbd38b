------------------------------- MODULE FilterRow -------------------------------
(***************************************************************************)
(* How one condition of a filter bar comes to say something: the attribute *)
(* is picked, then the condition, then the value, each in a popover that   *)
(* hands the row to the next one.  The chip row starts from the draft      *)
(* machine (filters-draft.tsx, filters-builder.tsx), the advanced builder  *)
(* from a row that is pending until its attribute is chosen                *)
(* (filters-advanced.tsx); both share the condition and value popovers     *)
(* (filters-chip.tsx), the editors (filters-editors.tsx), the operator     *)
(* catalog (filters-operators.tsx) and the focus and row-state stores      *)
(* (filters-context.tsx).                                                  *)
(*                                                                         *)
(* Which step opens itself travels through the focus store: `auto` is      *)
(* raised for one segment of one row and lowered by the popover that       *)
(* answers it.  The page may veto any change, lock the bar, reset it or    *)
(* empty a value, at any point of that; a page that changes the operator   *)
(* under an open editor is left out.  Where a row sits is FilterTree's     *)
(* business.                                                               *)
(***************************************************************************)
EXTENDS Naturals, Sequences, FiniteSets

CONSTANTS
  FieldType,   \* the schema: each attribute and its value type
  Narrowed,    \* attributes with an operator list of their own
  Entries,     \* bound: what a user types or picks
  MaxRows      \* bound: how many ids the factory hands out

Nothing == [none |-> TRUE]
Nobody == 0

Fields == DOMAIN FieldType

(***************************************************************************)
(* The operator catalog: value, arity and inverse, per value type.         *)
(***************************************************************************)
Op(value, arity, inverse) == [value |-> value, arity |-> arity, inverse |-> inverse]
Emptiness == << Op("empty", "none", "not_empty"), Op("not_empty", "none", "empty") >>
Identity  == << Op("is", "one", "is_not"), Op("is_not", "one", "is") >>
Between   == << Op("between", "range", "not_between"), Op("not_between", "range", "between") >>

CATALOG ==
  [text |-> << Op("contains", "one", "not_contains"), Op("not_contains", "one", "contains"),
               Op("starts_with", "one", ""), Op("ends_with", "one", "") >>
            \o Identity \o Emptiness,
   number |-> << Op("eq", "one", "neq"), Op("neq", "one", "eq"), Op("gt", "one", "lte"),
                 Op("gte", "one", "lt"), Op("lt", "one", "gte"), Op("lte", "one", "gt") >>
              \o Between \o Emptiness,
   range |-> Between \o Emptiness,
   select |-> Identity \o << Op("is_any_of", "many", "is_none_of"),
                             Op("is_none_of", "many", "is_any_of") >> \o Emptiness,
   multiselect |-> << Op("has_any_of", "many", "has_none_of"), Op("has_all_of", "many", ""),
                      Op("has_none_of", "many", "has_any_of") >> \o Emptiness,
   boolean |-> Identity \o Emptiness]

\* A type names an operator once.  Negating swaps to the inverse and back, and an
\* inverse takes the same value.  Only the choices have operators over many
\* values, and ranges and multiple choices have none over one.
ASSUME CatalogAssumption ==
  \A type \in DOMAIN CATALOG : \A i \in 1 .. Len(CATALOG[type]) :
    LET own == CATALOG[type][i] IN
    /\ own.value # "" /\ own.arity \in {"none", "one", "many", "range"}
    /\ \A j \in 1 .. Len(CATALOG[type]) : CATALOG[type][j].value = own.value => j = i
    /\ own.inverse # "" =>
         \E j \in 1 .. Len(CATALOG[type]) : CATALOG[type][j] = Op(own.inverse, own.arity, own.value)
    /\ own.arity = "many" => type \in {"select", "multiselect"}
    /\ own.arity = "one" => type \notin {"range", "multiselect"}

resolveFilterOperators(f) ==
  LET all == CATALOG[FieldType[f]] IN
  {all[i] : i \in {n \in 1 .. Len(all) :
     f \notin DOMAIN Narrowed \/ all[n].value \in Narrowed[f]}}

\* A schema has attributes, each with a first operator to offer.
ASSUME SchemaAssumption ==
  /\ Fields # {}
  /\ \A f \in Fields :
       /\ FieldType[f] \in DOMAIN CATALOG
       /\ \E n \in 1 .. Len(CATALOG[FieldType[f]]) :
            /\ CATALOG[FieldType[f]][n] \in resolveFilterOperators(f)
            /\ \A m \in 1 .. (n - 1) : CATALOG[FieldType[f]][m] \notin resolveFilterOperators(f)

getFilterOperator(f, value) == {o \in resolveFilterOperators(f) : o.value = value}

\* A name the field does not offer, or none yet, reads as taking one value.
getFilterArity(f, value) ==
  IF getFilterOperator(f, value) = {} THEN "one"
  ELSE (CHOOSE o \in getFilterOperator(f, value) : TRUE).arity

operatorTakesValue(f, value) == getFilterArity(f, value) # "none"

\* The first operator the field offers.
getDefaultFilterOperator(f) ==
  LET all == CATALOG[FieldType[f]]
      ok  == {n \in 1 .. Len(all) : all[n] \in resolveFilterOperators(f)}
  IN all[CHOOSE n \in ok : \A m \in ok : n <= m].value

(***************************************************************************)
(* Values.  Undefined, a scalar, or a list; a range may hold a blank end.  *)
(***************************************************************************)
Blank     == "blank"
Undefined == [shape |-> "none", items |-> <<>>]
Scalar(x) == [shape |-> "one", items |-> <<x>>]
List(s)   == [shape |-> "list", items |-> s]

\* Bug variant: the value stays as it was when the condition changes.
KeptValue(value, from, to) == IF to = "none" THEN Undefined ELSE value

\* What a value becomes when the arity changes under it.
coerceFilterValue(value, from, to) ==
  IF to = "none" THEN Undefined
  ELSE IF value = Undefined \/ from = to THEN value
  ELSE LET item(i) == IF i \in 1 .. Len(value.items) THEN value.items[i] ELSE Blank IN
       CASE to = "many"  -> List(value.items)
         [] to = "one"   -> IF value.items = <<>> THEN Undefined ELSE Scalar(value.items[1])
         [] to = "range" -> List(<<item(1), item(2)>>)

NewRule(f) == [field |-> f, op |-> "", value |-> Undefined, negated |-> FALSE]

\* Negation goes to the inverse the field offers, or flips the flag.
negateFilterOperator(rule) ==
  LET own     == getFilterOperator(rule.field, rule.op)
      inverse == UNION {getFilterOperator(rule.field, o.inverse) : o \in own}
  IN IF inverse # {} THEN [rule EXCEPT !.op = (CHOOSE o \in inverse : TRUE).value]
     ELSE [rule EXCEPT !.negated = ~@]

\* Which editor draws the value, and whether the builder edits it in the cell.
resolveFilterEditor(f, op) ==
  LET arity == getFilterArity(f, op) IN
  CASE arity = "none"  -> "nothing"
    [] arity = "range" -> "range"
    [] arity = "many"  -> IF FieldType[f] \in {"select", "multiselect"} THEN "multiselect" ELSE "text"
    [] OTHER           -> FieldType[f]

usesInlineTextEditor(f, op) ==
  FieldType[f] \in {"text", "number"} /\ getFilterArity(f, op) = "one"

(***************************************************************************)
(* The bar.                                                                *)
(***************************************************************************)
VARIABLES
  variant,  \* which chrome draws the query
  rows,     \* the live conditions, by id
  lastId,   \* the last id the factory counted out
  draft,    \* the draft of the create and amend flow, or none
  focus,    \* the focus store: row, segment, and whether the segment opens itself
  pending,  \* rows of the builder whose attribute is not chosen yet
  panel,    \* the open popover or edited cell: row, kind, and what is typed
  leaving,  \* the row whose condition menu is on its way out and owes the next step
  readOnly,   \* the page made the bar read only or disabled
  ghost     \* an id the store named for a row the page then refused

rowVars == <<variant, rows, lastId, draft, focus, pending, panel, leaving, readOnly, ghost>>

NoFocus == [id |-> Nobody, seg |-> "none", auto |-> FALSE]
At(id, seg, auto) == [id |-> id, seg |-> seg, auto |-> auto]
Live == DOMAIN rows

RowInit ==
  /\ variant \in {"basic", "advanced"}
  /\ rows = <<>> /\ lastId = 0
  /\ draft = Nothing /\ focus = NoFocus
  /\ pending = {}
  /\ panel = Nothing /\ leaving = Nobody
  /\ readOnly = FALSE /\ ghost = Nobody

\* Bug variant: the store is left on the row that went away.
Unrepaired(f, after) == f

\* When the committed query no longer holds the row the store names, the store
\* is emptied, so that the first row takes the tab stop again.
Repaired(f, after) == IF f.id = Nobody \/ f.id \in DOMAIN after THEN f ELSE NoFocus

\* A committed query: the popover of a row that is gone goes with it, and an
\* editor that is open starts over when the value under it changed.
Synced(p, after) ==
  IF p = Nothing \/ p.id \notin DOMAIN after THEN Nothing
  ELSE IF p.id \in Live /\ rows[p.id].value # after[p.id].value
       THEN [p EXCEPT !.typed = after[p.id].value]
       ELSE p

Committed(after, f, p) ==
  /\ rows' = after
  /\ focus' = IF after = rows THEN f ELSE Repaired(f, after)
  /\ panel' = IF after = rows THEN p ELSE Synced(p, after)
  /\ leaving' = IF leaving \in DOMAIN after THEN leaving ELSE Nobody

\* A write the bar asks for: a locked bar drops it, and the page may veto it.
Written(after) == IF readOnly THEN {rows} ELSE {rows, after}

\* A change of one rule; a row that is gone is left alone.
updateRule(id, rule) == IF id \in Live THEN [rows EXCEPT ![id] = rule] ELSE rows

\* A row more, under an id the factory has just counted out.
Added(id, rule) == [x \in Live \cup {id} |-> IF x \in Live THEN rows[x] ELSE rule]

\* The segments a row draws; a pending row shows its attribute and no more.
Drawn(id) ==
  IF id \notin Live THEN {}
  ELSE (IF variant = "advanced" THEN {"field"} ELSE {})
       \cup (IF id \in pending THEN {}
             ELSE {"operator"} \cup
                  (IF rows[id].op # "" /\ operatorTakesValue(rows[id].field, rows[id].op)
                   THEN {"value"} ELSE {}))

-------------------------------------------------------------------------------
(* The draft machine. *)

createFilterDraft == [rule |-> Nobody, step |-> "field", status |-> "editing",
                      field |-> Nothing, op |-> "", value |-> Undefined]

openCreate ==
  /\ variant = "basic" /\ ~readOnly /\ panel = Nothing /\ draft = Nothing /\ lastId < MaxRows
  /\ draft' = createFilterDraft
  /\ UNCHANGED <<variant, rows, lastId, focus, pending, panel, leaving, readOnly, ghost>>

\* A page's own amend flow, on a bar with nothing else open (the shipped chrome
\* has no control for it): it opens a step the rule has.
openAmend(id, step) ==
  /\ variant = "basic" /\ ~readOnly /\ panel = Nothing /\ draft = Nothing /\ id \in Live
  /\ step \in Drawn(id) \cup {"field"} /\ leaving = Nobody
  /\ draft' = [rule |-> id, step |-> step, status |-> "editing",
               field |-> [name |-> rows[id].field], op |-> rows[id].op, value |-> rows[id].value]
  /\ UNCHANGED <<variant, rows, lastId, focus, pending, panel, leaving, readOnly, ghost>>

\* Choosing a field is the whole create flow, and starts an amended rule over.
selectField(f) ==
  /\ draft # Nothing /\ ~readOnly /\ draft.status = "editing" /\ draft.step = "field"
  /\ draft' = [draft EXCEPT !.field = [name |-> f], !.op = getDefaultFilterOperator(f),
                            !.status = "ready", !.value = Undefined, !.step = "operator"]
  /\ UNCHANGED <<variant, rows, lastId, focus, pending, panel, leaving, readOnly, ghost>>

\* A condition that takes no value is the end of it; any other asks for one.
selectOperator(o) ==
  /\ draft # Nothing /\ ~readOnly /\ draft.status = "editing" /\ draft.step = "operator"
  /\ draft.field # Nothing /\ o \in resolveFilterOperators(draft.field.name)
  /\ draft' = IF o.arity = "none"
              THEN [draft EXCEPT !.op = o.value, !.value = Undefined, !.status = "ready"]
              ELSE [draft EXCEPT !.op = o.value, !.step = "value",
                      !.value = coerceFilterValue(@, getFilterArity(draft.field.name, draft.op), o.arity)]
  /\ UNCHANGED <<variant, rows, lastId, focus, pending, panel, leaving, readOnly, ghost>>

\* What a multiple choice may hold: at most two of the entries.
MultiChoices == {List(<<>>)} \cup {List(<<a>>) : a \in Entries}
             \cup {List(s) : s \in {t \in Entries \X Entries : t[1] # t[2]}}

\* What an editor may leave in a value, by the shape it writes.
Typable(editor) ==
  CASE editor = "range" -> {List(<<a, b>>) : a, b \in Entries \cup {Blank}}
    [] editor = "multiselect" -> MultiChoices
    [] editor = "nothing" -> {Undefined}
    [] OTHER -> {Undefined} \cup {Scalar(a) : a \in Entries}

commitDraftValue(v) ==
  /\ draft # Nothing /\ ~readOnly /\ draft.status = "editing" /\ draft.step = "value"
  /\ v \in Typable(resolveFilterEditor(draft.field.name, draft.op))
  /\ draft' = [draft EXCEPT !.value = IF v = Undefined THEN @ ELSE v, !.status = "ready"]
  /\ UNCHANGED <<variant, rows, lastId, focus, pending, panel, leaving, readOnly, ghost>>

back ==
  /\ draft # Nothing /\ draft.status = "editing" /\ ~readOnly
  /\ draft' = CASE draft.step = "value"    -> [draft EXCEPT !.step = "operator"]
                [] draft.step = "operator" -> [draft EXCEPT !.step = "field"]
                [] OTHER                   -> Nothing
  /\ UNCHANGED <<variant, rows, lastId, focus, pending, panel, leaving, readOnly, ghost>>

closeDraft ==
  /\ draft # Nothing /\ draft.status = "editing"
  /\ draft' = Nothing
  /\ UNCHANGED <<variant, rows, lastId, focus, pending, panel, leaving, readOnly, ghost>>

\* The draft becomes a rule once, in the effect that follows "ready": the new
\* row says nothing yet and its condition menu is asked to open.
commitDraft ==
  /\ draft # Nothing /\ draft.status = "ready"
  /\ draft' = Nothing
  /\ UNCHANGED <<variant, pending, readOnly>>
  /\ IF draft.rule # Nobody
     THEN LET rule == [field |-> draft.field.name, op |-> draft.op, value |-> draft.value,
                       negated |-> draft.rule \in Live /\ rows[draft.rule].negated] IN
          /\ \E after \in Written(updateRule(draft.rule, rule)) : Committed(after, focus, panel)
          /\ UNCHANGED <<lastId, ghost>>
     ELSE IF readOnly
     THEN UNCHANGED <<rows, lastId, focus, panel, leaving, ghost>>
     ELSE /\ lastId < MaxRows
          /\ lastId' = lastId + 1
          /\ \E after \in {rows, Added(lastId + 1, NewRule(draft.field.name))} :
               /\ Committed(after, At(lastId', "operator", TRUE), panel)
               /\ ghost' = IF after = rows THEN lastId' ELSE ghost

-------------------------------------------------------------------------------
(* The advanced builder. *)

FirstField == CHOOSE f \in Fields : TRUE

\* The new row enters the query with a guessed attribute and asks for another.
addFilterRow ==
  /\ variant = "advanced" /\ ~readOnly /\ panel = Nothing
  /\ lastId < MaxRows
  /\ lastId' = lastId + 1
  /\ \E after \in {rows, Added(lastId + 1, NewRule(FirstField))} :
       /\ Committed(after, At(lastId', "field", TRUE), panel)
       /\ ghost' = IF after = rows THEN lastId' ELSE ghost
  /\ pending' = pending \cup {lastId'}
  /\ UNCHANGED <<variant, draft, readOnly>>

PanelOn(id, seg) ==
  [id |-> id,
   kind |-> IF seg = "value" /\ variant = "advanced"
               /\ usesInlineTextEditor(rows[id].field, rows[id].op) THEN "cell" ELSE seg,
   typed |-> rows[id].value]

\* The segment asked to open answers, and lowers the request whether or not
\* the bar is locked.
Spend ==
  /\ focus.auto /\ focus.seg \in Drawn(focus.id)
  /\ focus' = [focus EXCEPT !.auto = FALSE]
  /\ panel' = IF readOnly THEN panel ELSE PanelOn(focus.id, focus.seg)
  /\ UNCHANGED <<variant, rows, lastId, draft, pending, leaving, readOnly, ghost>>

\* The attribute of a builder row.  While the row is pending the condition is
\* left open and asked for next; later a new attribute brings its own default.
PickField(f) ==
  /\ panel # Nothing /\ panel.kind = "field"
  /\ LET id == panel.id
         fresh == id \in pending
         rule == [rows[id] EXCEPT !.field = f, !.value = Undefined,
                                  !.op = IF fresh THEN "" ELSE getDefaultFilterOperator(f)]
         next == At(id, IF fresh THEN "operator" ELSE "field", fresh)
     IN /\ pending' = pending \ {id}
        /\ IF rows[id].field = f
           THEN Committed(rows, next, Nothing)
           ELSE \E after \in Written(updateRule(id, rule)) : Committed(after, next, Nothing)
  /\ UNCHANGED <<variant, lastId, draft, readOnly, ghost>>

-------------------------------------------------------------------------------
(* The condition and value popovers. *)

\* The value moves with the condition.  A rule that had none is being built, and
\* its value editor is owed once this menu has left the page.
PickOperator(o) ==
  /\ panel # Nothing /\ panel.kind = "operator"
  /\ LET id == panel.id
         rule == rows[id]
         value == coerceFilterValue(rule.value, getFilterArity(rule.field, rule.op), o.arity)
         hands == rule.op = "" /\ o.arity # "none"
     IN /\ o \in resolveFilterOperators(rule.field)
        /\ IF o.value = rule.op
           THEN Committed(rows, At(id, "operator", FALSE), Nothing)
           ELSE /\ \E after \in Written(updateRule(id, [rule EXCEPT !.op = o.value, !.value = value])) :
                     /\ rows' = after
                     /\ panel' = Nothing
                     /\ focus' = IF hands THEN focus ELSE At(id, "operator", FALSE)
                     /\ leaving' = IF hands THEN id ELSE leaving
  /\ UNCHANGED <<variant, lastId, draft, pending, readOnly, ghost>>

\* The menu has left the page: the row is handed to its value segment.
Release ==
  /\ leaving # Nobody
  /\ leaving' = Nobody
  /\ focus' = At(leaving, "value", TRUE)
  /\ UNCHANGED <<variant, rows, lastId, draft, pending, panel, readOnly, ghost>>

EditorOf(p) == resolveFilterEditor(rows[p.id].field, rows[p.id].op)

Typed(v) ==
  /\ panel # Nothing /\ panel.kind \in {"value", "cell"}
  /\ EditorOf(panel) \notin {"select", "multiselect", "boolean"}
  /\ v \in Typable(EditorOf(panel)) /\ v # panel.typed
  /\ panel' = [panel EXCEPT !.typed = v]
  /\ UNCHANGED <<variant, rows, lastId, draft, focus, pending, leaving, readOnly, ghost>>

WriteValue(id, v, f, p) ==
  /\ \E after \in Written(updateRule(id, [rows[id] EXCEPT !.value = v])) : Committed(after, f, p)
  /\ UNCHANGED <<variant, lastId, draft, pending, readOnly, ghost>>

\* Apply, Enter, and for a cell of the builder also leaving it.
CommitValue ==
  /\ panel # Nothing /\ panel.kind \in {"value", "cell"}
  /\ EditorOf(panel) \notin {"select", "multiselect", "boolean"}
  /\ IF panel.kind = "cell" /\ panel.typed = rows[panel.id].value
     THEN /\ panel' = Nothing
          /\ UNCHANGED <<variant, rows, lastId, draft, focus, pending, leaving, readOnly, ghost>>
     ELSE WriteValue(panel.id, panel.typed,
                     IF panel.kind = "value" THEN At(panel.id, "value", FALSE) ELSE focus, Nothing)

\* A pick closes a single choice; a multiple one commits tick by tick.
PickOption(v) ==
  /\ panel # Nothing /\ panel.kind = "value"
  /\ EditorOf(panel) \in {"select", "multiselect", "boolean"}
  /\ v \in Typable(EditorOf(panel)) \ {Undefined, panel.typed}
  /\ IF EditorOf(panel) = "multiselect"
     THEN WriteValue(panel.id, v, focus, [panel EXCEPT !.typed = v])
     ELSE WriteValue(panel.id, v, At(panel.id, "value", FALSE), Nothing)

\* Escape, an outside press, Discard: nothing is written.
Dismiss ==
  /\ panel # Nothing
  /\ panel' = Nothing
  /\ UNCHANGED <<variant, rows, lastId, draft, focus, pending, leaving, readOnly, ghost>>

\* A press on a segment, or the key that opens it.
Press(id, seg) ==
  /\ panel = Nothing /\ draft = Nothing /\ ~readOnly
  /\ seg \in Drawn(id)
  /\ focus' = At(id, seg, FALSE)
  /\ panel' = PanelOn(id, seg)
  /\ UNCHANGED <<variant, rows, lastId, draft, pending, leaving, readOnly, ghost>>

\* Enter on a chip resumes whichever step it has not reached.
EnterKey(id) ==
  /\ variant = "basic" /\ panel = Nothing /\ draft = Nothing /\ ~readOnly /\ id \in Live
  /\ focus' = At(id, IF "value" \in Drawn(id) THEN "value" ELSE "operator", TRUE)
  /\ UNCHANGED <<variant, rows, lastId, draft, pending, panel, leaving, readOnly, ghost>>

\* The arrows, Home and End step from chip to chip, and a removed chip hands on
\* to its neighbour.
FocusRow(id) ==
  /\ variant = "basic" /\ panel = Nothing /\ id \in Live /\ focus.id # id
  /\ focus' = At(id, "none", FALSE)
  /\ UNCHANGED <<variant, rows, lastId, draft, pending, panel, leaving, readOnly, ghost>>

\* The builder steps from cell to cell.
FocusCell(id, seg) ==
  /\ variant = "advanced" /\ panel = Nothing /\ seg \in Drawn(id)
  /\ focus' = At(id, seg, FALSE)
  /\ UNCHANGED <<variant, rows, lastId, draft, pending, panel, leaving, readOnly, ghost>>

-------------------------------------------------------------------------------
(* The row menu, and the page around the bar. *)

Without(id) == [x \in Live \ {id} |-> rows[x]]

Rewrite(after) ==
  /\ panel = Nothing /\ draft = Nothing
  /\ \E done \in Written(after) : Committed(done, focus, panel)
  /\ UNCHANGED <<variant, draft, pending, readOnly, ghost>>

removeRow(id) == id \in Live /\ Rewrite(Without(id)) /\ UNCHANGED lastId
negateRule(id) == id \in Live /\ Rewrite([rows EXCEPT ![id] = negateFilterOperator(@)]) /\ UNCHANGED lastId
duplicateRow(id) ==
  /\ id \in Live /\ lastId < MaxRows
  /\ lastId' = lastId + 1
  /\ Rewrite(Added(lastId + 1, rows[id]))

LockBar ==
  /\ readOnly' = ~readOnly
  /\ UNCHANGED <<variant, rows, lastId, draft, focus, pending, panel, leaving, ghost>>

\* The page resets the bar, or takes the value out of one of its rows.
Emptied(id) == updateRule(id, [rows[id] EXCEPT !.value = Undefined])
PageRewrites(after) ==
  /\ after \in {<<>>} \cup {Emptied(id) : id \in Live}
  /\ after # rows
  /\ Committed(after, focus, panel)
  /\ UNCHANGED <<variant, lastId, draft, pending, readOnly, ghost>>

\* React runs the effects of a commit before it hands over the next input.
Settled ==
  /\ (draft # Nothing => draft.status = "editing")
  /\ ~(focus.auto /\ focus.seg \in Drawn(focus.id))

Input ==
  \/ openCreate \/ closeDraft \/ back \/ addFilterRow \/ CommitValue \/ Dismiss
  \/ \E f \in Fields : selectField(f) \/ PickField(f)
  \/ \E f \in Fields : \E o \in resolveFilterOperators(f) : selectOperator(o) \/ PickOperator(o)
  \/ \E e \in {"text", "range", "multiselect"} : \E v \in Typable(e) :
       commitDraftValue(v) \/ Typed(v) \/ PickOption(v)
  \/ \E id \in Live :
       \/ EnterKey(id) \/ FocusRow(id) \/ removeRow(id) \/ negateRule(id) \/ duplicateRow(id)
       \/ \E seg \in {"field", "operator", "value"} :
            Press(id, seg) \/ openAmend(id, seg) \/ FocusCell(id, seg)

RowNext ==
  \/ Settled /\ Input
  \/ commitDraft \/ Spend \/ Release \/ LockBar
  \/ PageRewrites(<<>>)
  \/ \E id \in Live : PageRewrites(Emptied(id))

RowSpec == RowInit /\ [][RowNext]_rowVars

-------------------------------------------------------------------------------
(* Every condition that says something holds a value of the shape its       *)
(* operator takes, whichever way it came there: a changed condition, a      *)
(* changed attribute, a negation, a copy, an editor that stayed open.       *)
Fits(arity, value) ==
  CASE arity = "none"  -> value = Undefined
    [] arity = "one"   -> value.shape \in {"none", "one"}
    [] arity = "many"  -> value.shape \in {"none", "list"}
    [] arity = "range" -> value = Undefined \/ (value.shape = "list" /\ Len(value.items) = 2)

ValueFits ==
  \A id \in Live : rows[id].op # "" => Fits(getFilterArity(rows[id].field, rows[id].op), rows[id].value)

(* The tab stop is never left on a row that is gone, or the whole bar would  *)
(* drop out of the tab order.  (A row the page vetoed is the one exception:  *)
(* the store was pointed at it before the page was asked.)                   *)
StopLives == focus.id \in Live \cup {Nobody, ghost}

(* What the bar draws of a row stays usable, whatever was picked, removed,   *)
(* copied or rewritten under it: its value has its operator's shape and the  *)
(* keyboard can reach it.                                                    *)
RowsHold == ValueFits /\ StopLives
===============================================================================
