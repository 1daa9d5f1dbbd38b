--------------------------- MODULE ListPageProofs ---------------------------
(***************************************************************************)
(* Proofs about the three things a list page is made of, each for every    *)
(* value of its constants: the rows of its filter bar, the date selector   *)
(* they open, and the site library the filters narrow.                     *)
(*                                                                         *)
(* RowsHold is not inductive: that a condition fits its row depends on the *)
(* drafts, editors and segments that may still write to it.  RowInv says   *)
(* what each of these holds and that only one of them is open over a row.  *)
(*                                                                         *)
(* PicksAreKept is not inductive either: that a pick survives its round    *)
(* trip through the page depends on which side moved last.  OneWay, Kept   *)
(* and Underway say where the value is.                                    *)
(*                                                                         *)
(* Nor is BarIsTheQuery: a text typed back to the one that settled last    *)
(* says nothing of what the page was handed meanwhile.  Handed says it:    *)
(* unless a chip ran ahead of the box, the page holds the text the box     *)
(* settled on, whatever stands in the box now.                             *)
(***************************************************************************)
EXTENDS FilterRow, DateSelector, SitesPage, TLAPS

-----------------------------------------------------------------------------
(* The rows of the filter bar                                               *)

\* A name the attribute offers.
Offered(f, op) == \E o \in resolveFilterOperators(f) : o.value = op

\* A condition of an attribute and its value: none yet, or one that fits.
Says(f, op, given) ==
  IF op = "" THEN given = Undefined ELSE Offered(f, op) /\ Fits(getFilterArity(f, op), given)

RuleFits(r) ==
  /\ r = [field |-> r.field, op |-> r.op, value |-> r.value, negated |-> r.negated]
  /\ r.field \in Fields /\ Says(r.field, r.op, r.value)

RowsFit(after, n) == DOMAIN after \subseteq 1..n /\ \A id \in DOMAIN after : RuleFits(after[id])

\* An open editor is over a row and holds a text of the shape it writes.
PanelFits(p, after) ==
  p = Nothing \/
    /\ p = [id |-> p.id, kind |-> p.kind, typed |-> p.typed]
    /\ p.id \in DOMAIN after
    /\ p.kind \in {"value", "cell"} =>
         /\ after[p.id].op # ""
         /\ Fits(getFilterArity(after[p.id].field, after[p.id].op), p.typed)

RowsSay == lastId \in Nat /\ RowsFit(rows, lastId) /\ PanelFits(panel, rows)

FocusLives ==
  /\ focus = [id |-> focus.id, seg |-> focus.seg, auto |-> focus.auto]
  /\ StopLives /\ leaving \in Live \cup {Nobody}

\* The segment that is asked to open is there to answer.
Answered == focus.auto = TRUE /\ focus.seg \in Drawn(focus.id)

\* The draft says what a row may say, and nothing else is open over a row that
\* is being amended.
DraftFits ==
  draft = Nothing \/
    /\ draft = [rule |-> draft.rule, step |-> draft.step, status |-> draft.status,
                field |-> draft.field, op |-> draft.op, value |-> draft.value]
    /\ \/ draft.field = Nothing /\ draft.rule = Nobody /\ draft.step = "field"
          /\ draft.status = "editing"
       \/ /\ draft.field # Nothing /\ draft.field.name \in Fields
          /\ Says(draft.field.name, draft.op, draft.value)
          /\ (draft.status = "ready" \/ draft.step = "value") => draft.op # ""

AmendAlone ==
  draft # Nothing /\ draft.rule # Nobody =>
    panel = Nothing /\ leaving = Nobody /\ variant = "basic" /\ ~Answered

RowInv == RowsSay /\ FocusLives /\ DraftFits /\ AmendAlone

---------------------------------------------------------------------------
(* What the catalog of operators holds, one operator at a time.             *)
LEMMA CatalogFacts ==
  \A t \in DOMAIN CATALOG : \A k \in 1..Len(CATALOG[t]) :
    /\ CATALOG[t][k].value # "" /\ CATALOG[t][k].arity \in {"none", "one", "many", "range"}
    /\ \A j \in 1..Len(CATALOG[t]) : CATALOG[t][j].value = CATALOG[t][k].value => j = k
    /\ CATALOG[t][k].inverse # "" =>
         \E j \in 1..Len(CATALOG[t]) : /\ CATALOG[t][j].value = CATALOG[t][k].inverse
                                       /\ CATALOG[t][j].arity = CATALOG[t][k].arity
    /\ CATALOG[t][k].arity = "many" => t \in {"select", "multiselect"}
    /\ CATALOG[t][k].arity = "one" => t \notin {"range", "multiselect"}
  <1> SUFFICES ASSUME NEW t \in DOMAIN CATALOG, NEW k \in 1..Len(CATALOG[t])
      PROVE  /\ CATALOG[t][k].value # "" /\ CATALOG[t][k].arity \in {"none", "one", "many", "range"}
             /\ \A j \in 1..Len(CATALOG[t]) : CATALOG[t][j].value = CATALOG[t][k].value => j = k
             /\ CATALOG[t][k].inverse # "" =>
                  \E j \in 1..Len(CATALOG[t]) : /\ CATALOG[t][j].value = CATALOG[t][k].inverse
                                                /\ CATALOG[t][j].arity = CATALOG[t][k].arity
             /\ CATALOG[t][k].arity = "many" => t \in {"select", "multiselect"}
             /\ CATALOG[t][k].arity = "one" => t \notin {"range", "multiselect"}
    OBVIOUS
  <1> DEFINE own == CATALOG[t][k]
  <1>1. /\ own.value # "" /\ own.arity \in {"none", "one", "many", "range"}
        /\ own.arity = "many" => t \in {"select", "multiselect"}
        /\ own.arity = "one" => t \notin {"range", "multiselect"}
    BY CatalogAssumption
  <1>2. \A j \in 1..Len(CATALOG[t]) : CATALOG[t][j].value = own.value => j = k
    BY CatalogAssumption
  <1>3. own.inverse # "" =>
          \E j \in 1..Len(CATALOG[t]) : CATALOG[t][j] = Op(own.inverse, own.arity, own.value)
    BY CatalogAssumption
  <1> HIDE DEF own
  <1>4. own.inverse # "" =>
          \E j \in 1..Len(CATALOG[t]) : /\ CATALOG[t][j].value = own.inverse
                                        /\ CATALOG[t][j].arity = own.arity
    <2>1. ASSUME own.inverse # "" PROVE \E j \in 1..Len(CATALOG[t]) :
            CATALOG[t][j].value = own.inverse /\ CATALOG[t][j].arity = own.arity
      <3>1. PICK j \in 1..Len(CATALOG[t]) : CATALOG[t][j] = Op(own.inverse, own.arity, own.value)
        BY <1>3, <2>1
      <3>2. CATALOG[t][j].value = own.inverse /\ CATALOG[t][j].arity = own.arity
        BY <3>1 DEF Op
      <3> QED BY <3>2
    <2> QED BY <2>1
  <1> QED BY <1>1, <1>2, <1>4 DEF own

(* An operator is found again by its name.                                  *)
LEMMA OperatorFacts ==
  ASSUME NEW f \in Fields, NEW o \in resolveFilterOperators(f)
  PROVE  /\ getFilterOperator(f, o.value) = {o}
         /\ getFilterArity(f, o.value) = o.arity
         /\ o.value # "" /\ o.arity \in {"none", "one", "many", "range"}
         /\ o.arity = "many" => FieldType[f] \in {"select", "multiselect"}
         /\ o.arity = "one" => FieldType[f] \notin {"range", "multiselect"}
         /\ Offered(f, o.value)
  <1> DEFINE type == FieldType[f]
             all == CATALOG[type]
  <1>1. type \in DOMAIN CATALOG
    BY SchemaAssumption
  <1>2. PICK i \in 1..Len(all) : o = all[i]
    BY DEF resolveFilterOperators
  <1>3. \A p \in resolveFilterOperators(f) : \E j \in 1..Len(all) : p = all[j]
    BY DEF resolveFilterOperators
  <1> HIDE DEF type, all
  <1>5. /\ o.value # "" /\ o.arity \in {"none", "one", "many", "range"}
        /\ \A j \in 1..Len(all) : all[j].value = o.value => all[j] = o
        /\ o.arity = "many" => type \in {"select", "multiselect"}
        /\ o.arity = "one" => type \notin {"range", "multiselect"}
    BY <1>1, <1>2, CatalogFacts DEF all
  <1>6. getFilterOperator(f, o.value) = {o}
    BY <1>3, <1>5 DEF getFilterOperator
  <1>7. getFilterArity(f, o.value) = o.arity
    BY <1>6 DEF getFilterArity
  <1> QED BY <1>5, <1>6, <1>7 DEF Offered, type

(* A row without a condition reads as taking one value.                     *)
LEMMA NoOperator ==
  ASSUME NEW f \in Fields
  PROVE  getFilterOperator(f, "") = {} /\ getFilterArity(f, "") = "one"
  <1>1. \A o \in resolveFilterOperators(f) : o.value # ""
    BY OperatorFacts
  <1>2. getFilterOperator(f, "") = {}
    BY <1>1 DEF getFilterOperator
  <1> QED BY <1>2 DEF getFilterArity

(* The default operator is offered.                                         *)
LEMMA DefaultOffered ==
  ASSUME NEW f \in Fields
  PROVE  Offered(f, getDefaultFilterOperator(f)) /\ getDefaultFilterOperator(f) # ""
  <1> DEFINE all == CATALOG[FieldType[f]]
             ok == {n \in 1..Len(all) : all[n] \in resolveFilterOperators(f)}
             first == CHOOSE n \in ok : \A m \in ok : n <= m
  <1>1. PICK n \in 1..Len(all) : /\ all[n] \in resolveFilterOperators(f)
                                 /\ \A m \in 1..(n - 1) : all[m] \notin resolveFilterOperators(f)
    BY SchemaAssumption
  <1>2. n \in ok /\ \A m \in ok : n <= m
    <2>1. ASSUME NEW m \in ok, m < n PROVE FALSE
      <3>1. m \in 1..(n - 1)
        BY <2>1
      <3> QED BY <1>1, <2>1, <3>1
    <2> QED BY <1>1, <2>1
  <1>3. first \in ok
    BY <1>2
  <1>4. getDefaultFilterOperator(f) = all[first].value
    BY DEF getDefaultFilterOperator
  <1>5. PICK o \in resolveFilterOperators(f) : o = all[first]
    BY <1>3
  <1> HIDE DEF all, first
  <1>6. Offered(f, o.value) /\ o.value # ""
    BY OperatorFacts
  <1> QED BY <1>4, <1>5, <1>6

(* A value that moves to another condition takes its shape.                 *)
LEMMA CoerceFits ==
  ASSUME NEW given, NEW from, NEW to \in {"none", "one", "many", "range"}, Fits(from, given)
  PROVE  Fits(to, coerceFilterValue(given, from, to))
  <1>1. Fits(to, Undefined)
    BY DEF Fits, Undefined
  <1>2. CASE to = "none"
    BY <1>1, <1>2 DEF coerceFilterValue
  <1>3. CASE to # "none" /\ (given = Undefined \/ from = to)
    BY <1>1, <1>3 DEF coerceFilterValue
  <1>4. CASE to # "none" /\ ~(given = Undefined \/ from = to)
    <2>1. CASE to = "many"
      BY <1>4, <2>1 DEF coerceFilterValue, Fits, List
    <2>2. CASE to = "one"
      BY <1>1, <1>4, <2>2 DEF coerceFilterValue, Fits, Scalar
    <2>3. CASE to = "range"
      <3>1. \E a, b : coerceFilterValue(given, from, to) = List(<<a, b>>)
        BY <1>4, <2>3 DEF coerceFilterValue
      <3> QED BY <2>3, <3>1 DEF Fits, List
    <2> QED BY <1>4, <2>1, <2>2, <2>3
  <1> QED BY <1>2, <1>3, <1>4

(* What an editor writes has the shape its condition takes.                 *)
LEMMA TypableFits ==
  ASSUME NEW f \in Fields, NEW op, Offered(f, op), NEW v \in Typable(resolveFilterEditor(f, op))
  PROVE  Fits(getFilterArity(f, op), v)
  <1>1. PICK o \in resolveFilterOperators(f) : o.value = op
    BY DEF Offered
  <1> DEFINE arity == getFilterArity(f, op)
             editor == resolveFilterEditor(f, op)
  <1>2. /\ arity = o.arity /\ arity \in {"none", "one", "many", "range"}
        /\ arity = "many" => FieldType[f] \in {"select", "multiselect"}
        /\ arity = "one" => FieldType[f] \notin {"range", "multiselect"}
    BY <1>1, OperatorFacts
  <1>3. Fits(arity, Undefined)
    BY <1>2 DEF Fits, Undefined
  <1>4. FieldType[f] # "nothing"
    <2>1. "nothing" \notin DOMAIN CATALOG
      BY DEF CATALOG
    <2> QED BY <2>1, SchemaAssumption
  <1> HIDE DEF arity
  <1>5. CASE arity = "none"
    <2>1. editor = "nothing"
      BY <1>5 DEF resolveFilterEditor, arity
    <2>2. v = Undefined
      BY <2>1 DEF Typable
    <2> QED BY <1>3, <2>2 DEF arity
  <1>6. CASE arity = "range"
    <2>1. editor = "range"
      BY <1>6 DEF resolveFilterEditor, arity
    <2>2. v \in {List(<<a, b>>) : a, b \in Entries \cup {Blank}}
      BY <2>1 DEF Typable
    <2>3. PICK a \in Entries \cup {Blank}, b \in Entries \cup {Blank} : v = List(<<a, b>>)
      BY <2>2
    <2> QED BY <1>6, <2>3 DEF Fits, List, arity
  <1>7. CASE arity = "many"
    <2>1. editor = "multiselect"
      BY <1>2, <1>7 DEF resolveFilterEditor, arity
    <2>2. v \in MultiChoices
      BY <2>1 DEF Typable
    <2>3. \E s : v = List(s)
      <3>1. CASE v \in {List(<<a>>) : a \in Entries}
        BY <3>1
      <3>2. CASE v \in {List(s) : s \in {t \in Entries \X Entries : t[1] # t[2]}}
        BY <3>2
      <3> QED BY <2>2, <3>1, <3>2 DEF MultiChoices
    <2> QED BY <1>7, <2>3 DEF Fits, List, arity
  <1>8. CASE arity = "one"
    <2>1. editor = FieldType[f] /\ editor \notin {"range", "multiselect", "nothing"}
      BY <1>2, <1>4, <1>8 DEF resolveFilterEditor, arity
    <2> HIDE DEF editor
    <2>2. v \in Typable(editor)
      BY DEF editor
    <2>3. v = Undefined \/ \E a : v = Scalar(a)
      BY <2>1, <2>2 DEF Typable
    <2> QED BY <1>3, <1>8, <2>3 DEF Fits, Scalar, arity
  <1> QED BY <1>2, <1>5, <1>6, <1>7, <1>8

(* A negated condition takes the same value.                                *)
LEMMA NegateFits ==
  ASSUME NEW r, RuleFits(r)
  PROVE  RuleFits(negateFilterOperator(r))
  <1> DEFINE own == getFilterOperator(r.field, r.op)
             inverse == UNION {getFilterOperator(r.field, o.inverse) : o \in own}
  <1>1. /\ r = [field |-> r.field, op |-> r.op, value |-> r.value, negated |-> r.negated]
        /\ r.field \in Fields /\ Says(r.field, r.op, r.value)
    BY DEF RuleFits
  <1>2. CASE inverse = {}
    <2>1. negateFilterOperator(r) = [r EXCEPT !.negated = ~@]
      BY <1>2 DEF negateFilterOperator
    <2>2. negateFilterOperator(r) = [field |-> r.field, op |-> r.op, value |-> r.value,
                                     negated |-> ~r.negated]
      BY <1>1, <2>1
    <2> QED BY <1>1, <2>2 DEF RuleFits
  <1>3. CASE inverse # {}
    <2> DEFINE c == CHOOSE o \in inverse : TRUE
    <2>1. c \in inverse
      BY <1>3
    <2>2. negateFilterOperator(r) = [r EXCEPT !.op = c.value]
      BY <1>3 DEF negateFilterOperator
    <2> HIDE DEF c
    <2>3. PICK o \in own : c \in getFilterOperator(r.field, o.inverse)
      BY <2>1
    <2>4. /\ o \in resolveFilterOperators(r.field) /\ o.value = r.op
          /\ c \in resolveFilterOperators(r.field) /\ c.value = o.inverse
      BY <2>3 DEF getFilterOperator
    <2>5. o.arity = c.arity
      <3> DEFINE all == CATALOG[FieldType[r.field]]
      <3>1. PICK i \in 1..Len(all), k \in 1..Len(all) : o = all[i] /\ c = all[k]
        BY <2>4 DEF resolveFilterOperators
      <3>2. FieldType[r.field] \in DOMAIN CATALOG
        BY <1>1, SchemaAssumption
      <3>3. c.value # ""
        BY <1>1, <2>4, OperatorFacts
      <3> HIDE DEF all
      <3>4. PICK j \in 1..Len(all) : all[j].value = all[i].inverse /\ all[j].arity = all[i].arity
        BY <2>4, <3>1, <3>2, <3>3, CatalogFacts DEF all
      <3>5. \A a, b \in 1..Len(all) : all[a].value = all[b].value => a = b
        BY <3>2, CatalogFacts DEF all
      <3>6. all[j].value = all[k].value
        BY <2>4, <3>1, <3>4
      <3>7. j = k
        BY <3>5, <3>6
      <3> QED BY <3>1, <3>4, <3>7
    <2>6. r.op # "" /\ c.value # "" /\ Offered(r.field, c.value)
          /\ getFilterArity(r.field, c.value) = getFilterArity(r.field, r.op)
      BY <1>1, <2>4, <2>5, OperatorFacts
    <2>7. negateFilterOperator(r) = [field |-> r.field, op |-> c.value, value |-> r.value,
                                     negated |-> r.negated]
      BY <1>1, <2>2
    <2> DEFINE n == negateFilterOperator(r)
    <2>8. n.field = r.field /\ n.op = c.value /\ n.value = r.value /\ n.negated = r.negated
      BY <2>7
    <2>9. Says(r.field, c.value, r.value)
      BY <1>1, <2>6 DEF Says
    <2> QED BY <1>1, <2>7, <2>8, <2>9 DEF RuleFits
  <1> QED BY <1>2, <1>3

---------------------------------------------------------------------------
(* A committed query leaves the focus store on a row that is there, and an  *)
(* open editor over a row with a text that fits it.                         *)
LEMMA CommittedKeeps ==
  ASSUME RowsSay, FocusLives, NEW after, NEW f, NEW p, Committed(after, f, p),
         lastId' \in Nat, RowsFit(after, lastId'),
         f = [id |-> f.id, seg |-> f.seg, auto |-> f.auto],
         after = rows => f.id \in Live \cup {Nobody, ghost'},
         PanelFits(p, rows),
         \A id \in Live : p # Nothing /\ p.id = id /\ id \in DOMAIN after =>
            after[id].field = rows[id].field /\ after[id].op = rows[id].op
  PROVE  RowsSay' /\ FocusLives'
  <1>1. /\ rows' = after
        /\ focus' = IF after = rows THEN f ELSE Repaired(f, after)
        /\ panel' = IF after = rows THEN p ELSE Synced(p, after)
        /\ leaving' = IF leaving \in DOMAIN after THEN leaving ELSE Nobody
    BY DEF Committed
  <1>2. Live' = DOMAIN after
    BY <1>1 DEF Live
  <1>3. FocusLives'
    <2>1. CASE after = rows
      <3>1. focus' = f /\ f.id \in Live' \cup {Nobody, ghost'}
        BY <1>1, <1>2, <2>1 DEF Live
      <3> QED BY <1>1, <1>2, <3>1 DEF FocusLives, StopLives
    <2>2. CASE after # rows
      <3>1. focus' = Repaired(f, after)
        BY <1>1, <2>2
      <3>2. focus' = NoFocus \/ (focus' = f /\ (f.id = Nobody \/ f.id \in DOMAIN after))
        BY <3>1 DEF Repaired
      <3>3. NoFocus = [id |-> NoFocus.id, seg |-> NoFocus.seg, auto |-> NoFocus.auto] /\ NoFocus.id = Nobody
        BY DEF NoFocus
      <3> QED BY <1>1, <1>2, <3>2, <3>3 DEF FocusLives, StopLives
    <2> QED BY <2>1, <2>2
  <1>4. PanelFits(panel', after)
    <2>1. CASE after = rows
      BY <1>1, <2>1
    <2>2. CASE after # rows /\ (p = Nothing \/ p.id \notin DOMAIN after)
      BY <1>1, <2>2 DEF Synced, PanelFits
    <2>3. CASE after # rows /\ p # Nothing /\ p.id \in DOMAIN after
      <3>1. /\ p = [id |-> p.id, kind |-> p.kind, typed |-> p.typed] /\ p.id \in Live
            /\ after[p.id].field = rows[p.id].field /\ after[p.id].op = rows[p.id].op
            /\ p.kind \in {"value", "cell"} =>
                 /\ rows[p.id].op # ""
                 /\ Fits(getFilterArity(rows[p.id].field, rows[p.id].op), p.typed)
        BY <2>3 DEF PanelFits, Live
      <3>2. CASE rows[p.id].value = after[p.id].value
        <4>1. panel' = p
          BY <1>1, <2>3, <3>2 DEF Synced
        <4> QED BY <2>3, <3>1, <4>1 DEF PanelFits
      <3>3. CASE rows[p.id].value # after[p.id].value
        <4>1. panel' = [p EXCEPT !.typed = after[p.id].value]
          BY <1>1, <2>3, <3>1, <3>3 DEF Synced
        <4>2. panel' = [id |-> p.id, kind |-> p.kind, typed |-> after[p.id].value]
          BY <3>1, <4>1
        <4>3. /\ panel'.id = p.id /\ panel'.kind = p.kind /\ panel'.typed = after[p.id].value
              /\ panel' = [id |-> panel'.id, kind |-> panel'.kind, typed |-> panel'.typed]
          BY <4>2
        <4>4. Says(after[p.id].field, after[p.id].op, after[p.id].value)
          BY <2>3 DEF RowsFit, RuleFits
        <4> QED BY <2>3, <3>1, <4>3, <4>4 DEF PanelFits, Says
      <3> QED BY <3>2, <3>3
    <2> QED BY <2>1, <2>2, <2>3
  <1>5. RowsSay'
    BY <1>1, <1>4 DEF RowsSay
  <1> QED BY <1>3, <1>5

(* Steps of the draft leave the rows and the focus alone.                   *)
LEMMA Untouched ==
  ASSUME RowsSay, FocusLives, UNCHANGED <<rows, lastId, focus, panel, leaving, ghost>>
  PROVE  RowsSay' /\ FocusLives' /\ (UNCHANGED <<variant, pending>> => Answered' = Answered)
  <1>1. RowsSay'
    BY DEF RowsSay
  <1>2. FocusLives'
    BY DEF FocusLives, StopLives, Live
  <1>3. UNCHANGED <<variant, pending>> => Answered' = Answered
    BY DEF Answered, Drawn, Live
  <1> QED BY <1>1, <1>2, <1>3

(* A rule with one part changed.                                            *)
LEMMA RowsChanged ==
  ASSUME RowsFit(rows, lastId), NEW id \in Live, NEW rule, RuleFits(rule)
  PROVE  RowsFit([rows EXCEPT ![id] = rule], lastId)
  BY DEF RowsFit, Live

(* The value of a row replaced by one that fits.                            *)
LEMMA ValueChanged ==
  ASSUME RowsFit(rows, lastId), NEW id \in Live, NEW v, Says(rows[id].field, rows[id].op, v)
  PROVE  /\ RowsFit([rows EXCEPT ![id] = [rows[id] EXCEPT !.value = v]], lastId)
         /\ [rows[id] EXCEPT !.value = v].field = rows[id].field
         /\ [rows[id] EXCEPT !.value = v].op = rows[id].op
         /\ RuleFits([rows[id] EXCEPT !.value = v])
  <1> DEFINE r == rows[id]
             n == [r EXCEPT !.value = v]
  <1>1. r = [field |-> r.field, op |-> r.op, value |-> r.value, negated |-> r.negated]
        /\ r.field \in Fields /\ Says(r.field, r.op, v)
    BY DEF RowsFit, RuleFits, Live
  <1> HIDE DEF r
  <1>2. n = [field |-> r.field, op |-> r.op, value |-> v, negated |-> r.negated]
    BY <1>1
  <1> HIDE DEF n
  <1>3. n.field = r.field /\ n.op = r.op /\ n.value = v /\ n.negated = r.negated
    BY <1>2
  <1>4. n = [field |-> n.field, op |-> n.op, value |-> n.value, negated |-> n.negated]
    BY <1>2, <1>3
  <1>5. RuleFits(n)
    BY <1>1, <1>3, <1>4 DEF RuleFits
  <1> QED BY <1>3, <1>5, RowsChanged DEF r, n

(* A row more.                                                              *)
LEMMA RowAdded ==
  ASSUME RowsFit(rows, lastId), lastId \in Nat, NEW rule, RuleFits(rule)
  PROVE  /\ RowsFit(Added(lastId + 1, rule), lastId + 1)
         /\ lastId + 1 \notin Live /\ lastId + 1 \in DOMAIN Added(lastId + 1, rule)
         /\ \A id \in Live : Added(lastId + 1, rule)[id] = rows[id]
  <1>1. Live \subseteq 1..lastId
    BY DEF RowsFit, Live
  <1>2. DOMAIN Added(lastId + 1, rule) = Live \cup {lastId + 1} /\ lastId + 1 \notin Live
    BY <1>1 DEF Added
  <1>3. DOMAIN Added(lastId + 1, rule) \subseteq 1..(lastId + 1)
    <2>1. \A x \in 1..lastId : x \in 1..(lastId + 1)
      OBVIOUS
    <2>2. lastId + 1 \in 1..(lastId + 1)
      OBVIOUS
    <2> QED BY <1>1, <1>2, <2>1, <2>2
  <1>4. \A id \in Live \cup {lastId + 1} : RuleFits(Added(lastId + 1, rule)[id])
    BY <1>2 DEF Added, RowsFit, Live
  <1> QED BY <1>2, <1>3, <1>4 DEF RowsFit, Added

---------------------------------------------------------------------------
(* The steps of the draft machine keep what the draft says.                 *)
LEMMA DraftStepKeeps ==
  ASSUME RowInv, Settled,
         \/ openCreate \/ closeDraft \/ back
         \/ \E f \in Fields : selectField(f)
         \/ \E f \in Fields : \E o \in resolveFilterOperators(f) : selectOperator(o)
         \/ \E v : commitDraftValue(v)
         \/ \E id \in Live, seg \in {"field", "operator", "value"} : openAmend(id, seg)
  PROVE  RowInv'
  <1>0. UNCHANGED <<variant, rows, lastId, focus, pending, panel, leaving, ghost>>
    BY DEF openCreate, closeDraft, back, selectField, selectOperator, commitDraftValue, openAmend
  <1>1. RowsSay' /\ FocusLives' /\ Answered' = Answered
    BY <1>0, Untouched DEF RowInv
  <1>2. ~Answered
    BY DEF Settled, Answered
  <1>3. ASSUME draft # Nothing, draft' # Nothing => draft'.rule = draft.rule PROVE AmendAlone'
    BY <1>0, <1>1, <1>3 DEF RowInv, AmendAlone
  <1>4. CASE closeDraft
    <2>1. DraftFits'
      BY <1>4 DEF closeDraft, DraftFits
    <2>2. AmendAlone'
      BY <1>4 DEF closeDraft, AmendAlone
    <2> QED BY <1>1, <2>1, <2>2 DEF RowInv
  <1>5. CASE openCreate
    <2>1. draft' = createFilterDraft
      BY <1>5 DEF openCreate
    <2>2. /\ draft'.rule = Nobody /\ draft'.step = "field" /\ draft'.status = "editing"
          /\ draft'.field = Nothing
          /\ draft' = [rule |-> draft'.rule, step |-> draft'.step, status |-> draft'.status,
                       field |-> draft'.field, op |-> draft'.op, value |-> draft'.value]
      BY <2>1 DEF createFilterDraft
    <2> QED BY <1>1, <2>2 DEF RowInv, DraftFits, AmendAlone
  <1>6. ASSUME NEW id \in Live, NEW seg, openAmend(id, seg) PROVE RowInv'
    <2>1. /\ draft' = [rule |-> id, step |-> seg, status |-> "editing",
                       field |-> [name |-> rows[id].field], op |-> rows[id].op,
                       value |-> rows[id].value]
          /\ seg \in Drawn(id) \cup {"field"} /\ panel = Nothing /\ leaving = Nobody
          /\ variant = "basic"
      BY <1>6 DEF openAmend
    <2>2. rows[id].field \in Fields /\ Says(rows[id].field, rows[id].op, rows[id].value)
      BY DEF RowInv, RowsSay, RowsFit, RuleFits, Live
    <2>3. seg = "value" => rows[id].op # ""
      BY <2>1 DEF Drawn
    <2>4. [name |-> rows[id].field] # Nothing
      BY DEF Nothing
    <2>5. DraftFits'
      BY <2>1, <2>2, <2>3, <2>4 DEF DraftFits
    <2>6. AmendAlone'
      BY <1>0, <1>1, <1>2, <2>1 DEF AmendAlone
    <2> QED BY <1>1, <2>5, <2>6 DEF RowInv
  <1> DEFINE d(a, b, c, e, g) == [rule |-> draft.rule, step |-> a, status |-> b,
                                  field |-> c, op |-> e, value |-> g]
  <1>7. ASSUME NEW a, NEW b, NEW c, NEW e, NEW g, draft # Nothing, draft' = d(a, b, c, e, g),
               c # Nothing, c.name \in Fields, Says(c.name, e, g),
               (b = "ready" \/ a = "value") => e # ""
        PROVE  RowInv'
    <2>1. /\ draft'.rule = draft.rule /\ draft'.step = a /\ draft'.status = b /\ draft'.field = c
          /\ draft'.op = e /\ draft'.value = g
          /\ draft' = [rule |-> draft'.rule, step |-> draft'.step, status |-> draft'.status,
                       field |-> draft'.field, op |-> draft'.op, value |-> draft'.value]
      BY <1>7
    <2>2. DraftFits'
      BY <1>7, <2>1 DEF DraftFits
    <2>3. AmendAlone'
      BY <1>3, <1>7, <2>1
    <2> QED BY <1>1, <2>2, <2>3 DEF RowInv
  <1> HIDE DEF d
  <1>8. draft # Nothing =>
          /\ draft = [rule |-> draft.rule, step |-> draft.step, status |-> draft.status,
                      field |-> draft.field, op |-> draft.op, value |-> draft.value]
          /\ \/ draft.field = Nothing /\ draft.step = "field" /\ draft.status = "editing"
             \/ /\ draft.field # Nothing /\ draft.field.name \in Fields
                /\ Says(draft.field.name, draft.op, draft.value)
                /\ (draft.status = "ready" \/ draft.step = "value") => draft.op # ""
    BY DEF RowInv, DraftFits
  <1>9. ASSUME NEW f \in Fields, selectField(f) PROVE RowInv'
    <2>1. /\ draft # Nothing
          /\ draft' = [draft EXCEPT !.field = [name |-> f], !.op = getDefaultFilterOperator(f),
                                    !.status = "ready", !.value = Undefined, !.step = "operator"]
      BY <1>9 DEF selectField
    <2>2. draft' = d("operator", "ready", [name |-> f], getDefaultFilterOperator(f), Undefined)
      BY <1>8, <2>1 DEF d
    <2>3. Offered(f, getDefaultFilterOperator(f)) /\ getDefaultFilterOperator(f) # ""
      BY DefaultOffered
    <2>4. Says(f, getDefaultFilterOperator(f), Undefined)
      <3>1. PICK o \in resolveFilterOperators(f) : o.value = getDefaultFilterOperator(f)
        BY <2>3 DEF Offered
      <3>2. getFilterArity(f, o.value) \in {"none", "one", "many", "range"}
        BY OperatorFacts
      <3>3. Fits(getFilterArity(f, o.value), Undefined)
        BY <3>2 DEF Fits, Undefined
      <3> QED BY <2>3, <3>1, <3>3 DEF Says
    <2>5. [name |-> f] # Nothing /\ [name |-> f].name = f
      BY DEF Nothing
    <2> QED BY <1>7, <2>1, <2>2, <2>3, <2>4, <2>5
  <1>10. ASSUME NEW o, selectOperator(o) PROVE RowInv'
    <2> DEFINE f == draft.field.name
               v == coerceFilterValue(draft.value, getFilterArity(f, draft.op), o.arity)
    <2>1. /\ draft # Nothing /\ draft.status = "editing" /\ draft.field # Nothing
          /\ o \in resolveFilterOperators(f)
          /\ draft' = IF o.arity = "none"
                      THEN [draft EXCEPT !.op = o.value, !.value = Undefined, !.status = "ready"]
                      ELSE [draft EXCEPT !.op = o.value, !.step = "value", !.value = v]
      BY <1>10 DEF selectOperator
    <2>2. f \in Fields /\ Says(f, draft.op, draft.value)
      BY <1>8, <2>1
    <2>3. /\ getFilterArity(f, o.value) = o.arity /\ o.value # "" /\ Offered(f, o.value)
          /\ o.arity \in {"none", "one", "many", "range"}
      BY <2>1, <2>2, OperatorFacts
    <2>4. Fits(getFilterArity(f, draft.op), draft.value)
      <3>1. CASE draft.op = ""
        <4>1. getFilterArity(f, draft.op) = "one" /\ draft.value = Undefined
          BY <2>2, <3>1, NoOperator DEF Says
        <4> QED BY <4>1 DEF Fits, Undefined
      <3>2. CASE draft.op # ""
        BY <2>2, <3>2 DEF Says
      <3> QED BY <3>1, <3>2
    <2>5. Fits(o.arity, v)
      BY <2>3, <2>4, CoerceFits
    <2>6. Fits("none", Undefined)
      BY DEF Fits
    <2> HIDE DEF f, v
    <2>7. CASE o.arity = "none"
      <3>1. draft' = d(draft.step, "ready", draft.field, o.value, Undefined)
        BY <1>8, <2>1, <2>7 DEF d
      <3>2. draft.field.name \in Fields /\ Says(draft.field.name, o.value, Undefined)
        BY <2>2, <2>3, <2>6, <2>7 DEF Says, f
      <3>3. draft # Nothing /\ draft.field # Nothing /\ o.value # ""
        BY <2>1, <2>3
      <3> QED BY ONLY <1>7, <3>1, <3>2, <3>3, Zenon
    <2>8. CASE o.arity # "none"
      <3>1. draft' = d("value", "editing", draft.field, o.value, v)
        BY <1>8, <2>1, <2>8 DEF d
      <3>2. Says(f, o.value, v)
        BY <2>3, <2>5 DEF Says
      <3>3. draft.field.name \in Fields /\ Says(draft.field.name, o.value, v)
        BY <2>2, <3>2 DEF f
      <3>4. draft # Nothing /\ draft.field # Nothing /\ o.value # ""
        BY <2>1, <2>3
      <3> QED BY ONLY <1>7, <3>1, <3>3, <3>4, Zenon
    <2> QED BY <2>7, <2>8
  <1>11. ASSUME NEW v, commitDraftValue(v) PROVE RowInv'
    <2> DEFINE f == draft.field.name
               u == IF v = Undefined THEN draft.value ELSE v
    <2>1. /\ draft # Nothing /\ draft.step = "value"
          /\ v \in Typable(resolveFilterEditor(f, draft.op))
          /\ draft' = [draft EXCEPT !.value = u, !.status = "ready"]
      BY <1>11 DEF commitDraftValue
    <2>2. draft.field # Nothing /\ f \in Fields /\ draft.op # "" /\ Says(f, draft.op, draft.value)
      BY <1>8, <2>1
    <2>3. Fits(getFilterArity(f, draft.op), v) /\ Offered(f, draft.op)
      BY <2>1, <2>2, TypableFits DEF Says
    <2>4. Says(f, draft.op, u)
      BY <2>2, <2>3 DEF Says
    <2> HIDE DEF u
    <2>5. draft' = d(draft.step, "ready", draft.field, draft.op, u)
      BY <1>8, <2>1 DEF d
    <2> QED BY <1>7, <2>1, <2>2, <2>4, <2>5
  <1>12. CASE back
    <2>1. draft # Nothing /\ draft.status = "editing"
      BY <1>12 DEF back
    <2>2. CASE draft' = Nothing
      BY <1>1, <2>2 DEF RowInv, DraftFits, AmendAlone
    <2>3. CASE draft.step \in {"value", "operator"}
      <3>1. PICK a \in {"operator", "field"} : draft' = [draft EXCEPT !.step = a]
        BY <1>12, <2>3 DEF back
      <3>2. draft' = d(a, draft.status, draft.field, draft.op, draft.value)
        BY <1>8, <2>1, <3>1 DEF d
      <3> QED BY <1>7, <1>8, <2>1, <2>3, <3>2
    <2>4. draft.step \notin {"value", "operator"} => draft' = Nothing
      BY <1>12 DEF back
    <2> QED BY <2>2, <2>3, <2>4
  <1> QED BY <1>4, <1>5, <1>6, <1>9, <1>10, <1>11, <1>12

---------------------------------------------------------------------------
(* The draft is left alone.                                                 *)
LEMMA DraftKept ==
  ASSUME DraftFits, UNCHANGED draft
  PROVE  DraftFits'
  BY DEF DraftFits

(* With a popover open, a menu on its way out, the builder drawn or a       *)
(* segment asked to open, no row is being amended.                          *)
LEMMA NotAmending ==
  ASSUME AmendAlone, UNCHANGED draft,
         draft = Nothing \/ panel # Nothing \/ leaving # Nobody \/ variant = "advanced" \/ Answered
  PROVE  AmendAlone'
  BY DEF AmendAlone

(* Only the store moves.                                                    *)
LEMMA FocusMoved ==
  ASSUME FocusLives, NEW id \in Live, NEW seg, NEW auto, focus' = At(id, seg, auto),
         UNCHANGED <<rows, ghost>>, leaving' \in {leaving, Nobody}
  PROVE  FocusLives'
  <1>1. /\ focus'.id = id
        /\ focus' = [id |-> focus'.id, seg |-> focus'.seg, auto |-> focus'.auto]
    BY DEF At
  <1> QED BY <1>1 DEF FocusLives, StopLives, Live

(* The rows and their editor stay, or the editor closes.                    *)
LEMMA PanelClosed ==
  ASSUME RowsSay, UNCHANGED <<rows, lastId>>, panel' \in {panel, Nothing}
  PROVE  RowsSay'
  BY DEF RowsSay, PanelFits

(* What a row is known to say.                                              *)
LEMMA LiveRule ==
  ASSUME RowsFit(rows, lastId), NEW id \in Live
  PROVE  /\ rows[id] = [field |-> rows[id].field, op |-> rows[id].op,
                        value |-> rows[id].value, negated |-> rows[id].negated]
         /\ rows[id].field \in Fields /\ Says(rows[id].field, rows[id].op, rows[id].value)
         /\ RuleFits(rows[id])
  BY DEF RowsFit, RuleFits, Live

(* A segment that is drawn opens with what its row holds.                   *)
LEMMA PanelOpened ==
  ASSUME RowsSay, NEW id, NEW seg \in Drawn(id), UNCHANGED <<rows, lastId>>,
         panel' = PanelOn(id, seg)
  PROVE  RowsSay'
  <1>1. id \in Live /\ seg \in {"field", "operator", "value"}
        /\ (seg = "value" => rows[id].op # "")
    BY DEF Drawn
  <1>2. Says(rows[id].field, rows[id].op, rows[id].value)
    BY <1>1, LiveRule DEF RowsSay
  <1>3. PICK kind : /\ panel' = [id |-> id, kind |-> kind, typed |-> rows[id].value]
                    /\ kind = seg \/ (kind = "cell" /\ seg = "value")
    BY DEF PanelOn
  <1>4. /\ panel'.id = id /\ panel'.kind = kind /\ panel'.typed = rows[id].value
        /\ panel' = [id |-> panel'.id, kind |-> panel'.kind, typed |-> panel'.typed]
    BY <1>3
  <1>5. kind \in {"value", "cell"} => rows[id].op # ""
    BY <1>1, <1>3
  <1>6. PanelFits(panel', rows)
    BY <1>1, <1>2, <1>4, <1>5 DEF PanelFits, Says, Live
  <1> QED BY <1>6 DEF RowsSay

(* A new row, under the id just counted out, with the store pointed at it:  *)
(* a row the page refuses is the one the store may name.                    *)
LEMMA RowCounted ==
  ASSUME RowsSay, FocusLives, NEW rule, RuleFits(rule), NEW seg, lastId' = lastId + 1,
         NEW after \in {rows, Added(lastId + 1, rule)},
         Committed(after, At(lastId', seg, TRUE), panel),
         ghost' = IF after = rows THEN lastId' ELSE ghost
  PROVE  RowsSay' /\ FocusLives'
  <1> DEFINE f == At(lastId', seg, TRUE)
  <1>1. f.id = lastId' /\ f = [id |-> f.id, seg |-> f.seg, auto |-> f.auto]
    BY DEF At
  <1>2. lastId \in Nat /\ RowsFit(rows, lastId) /\ PanelFits(panel, rows)
    BY DEF RowsSay
  <1>3. lastId' \in Nat
    BY <1>2
  <1>4. RowsFit(rows, lastId + 1)
    <2>1. \A x \in 1..lastId : x \in 1..(lastId + 1)
      BY <1>2
    <2> QED BY <1>2, <2>1 DEF RowsFit
  <1>5. /\ RowsFit(Added(lastId + 1, rule), lastId + 1)
        /\ \A id \in Live : Added(lastId + 1, rule)[id] = rows[id]
    BY <1>2, RowAdded
  <1>6. RowsFit(after, lastId')
    BY <1>4, <1>5
  <1>7. after = rows => f.id \in Live \cup {Nobody, ghost'}
    BY <1>1
  <1>8. \A id \in Live : after[id] = rows[id]
    BY <1>5
  <1> HIDE DEF f
  <1>9. Committed(after, f, panel)
    BY DEF f
  <1> QED BY <1>1, <1>2, <1>3, <1>6, <1>7, <1>8, <1>9, CommittedKeeps

(* A write of the bar over rows that fit, with no editor left over a row    *)
(* whose attribute or condition changes.                                    *)
LEMMA WrittenKeeps ==
  ASSUME RowsSay, FocusLives, UNCHANGED <<lastId, ghost>>,
         NEW proposed, RowsFit(proposed, lastId), NEW after \in {rows, proposed},
         NEW f, f = [id |-> f.id, seg |-> f.seg, auto |-> f.auto],
         f.id \in Live \cup {Nobody, ghost},
         NEW p, PanelFits(p, rows), Committed(after, f, p),
         p = Nothing \/ \A id \in Live : id \in DOMAIN proposed =>
                           proposed[id].field = rows[id].field /\ proposed[id].op = rows[id].op
  PROVE  RowsSay' /\ FocusLives'
  <1>1. lastId' \in Nat /\ RowsFit(after, lastId')
    BY DEF RowsSay
  <1>2. after = rows => f.id \in Live \cup {Nobody, ghost'}
    OBVIOUS
  <1>3. \A id \in Live : p # Nothing /\ p.id = id /\ id \in DOMAIN after =>
          after[id].field = rows[id].field /\ after[id].op = rows[id].op
    OBVIOUS
  <1> QED BY <1>1, <1>2, <1>3, CommittedKeeps

(* A draft that is ready becomes a rule that fits, or a row that says       *)
(* nothing yet.                                                             *)
LEMMA CommitDraftKeeps ==
  ASSUME RowInv, commitDraft
  PROVE  RowInv'
  <1>1. draft # Nothing /\ draft.status = "ready" /\ draft' = Nothing
    BY DEF commitDraft
  <1>2. DraftFits' /\ AmendAlone'
    BY <1>1 DEF DraftFits, AmendAlone
  <1>3. /\ draft.field.name \in Fields /\ draft.op # ""
        /\ Says(draft.field.name, draft.op, draft.value)
    BY <1>1 DEF RowInv, DraftFits
  <1>4. RowsSay /\ FocusLives /\ RowsFit(rows, lastId) /\ PanelFits(panel, rows)
    BY DEF RowInv, RowsSay
  <1>5. CASE draft.rule # Nobody
    <2> DEFINE rule == [field |-> draft.field.name, op |-> draft.op, value |-> draft.value,
                        negated |-> draft.rule \in Live /\ rows[draft.rule].negated]
               proposed == updateRule(draft.rule, rule)
    <2>1. PICK after \in Written(proposed) : Committed(after, focus, panel)
      BY <1>1, <1>5 DEF commitDraft
    <2>2. UNCHANGED <<lastId, ghost>>
      BY <1>1, <1>5 DEF commitDraft
    <2>3. RuleFits(rule)
      BY <1>3 DEF RuleFits
    <2> HIDE DEF rule
    <2>4. RowsFit(proposed, lastId)
      BY <1>4, <2>3, RowsChanged DEF updateRule
    <2>5. after \in {rows, proposed}
      BY DEF Written
    <2>6. panel = Nothing
      BY <1>1, <1>5 DEF RowInv, AmendAlone
    <2>7. /\ focus = [id |-> focus.id, seg |-> focus.seg, auto |-> focus.auto]
          /\ focus.id \in Live \cup {Nobody, ghost}
      BY <1>4 DEF FocusLives, StopLives
    <2> HIDE DEF proposed
    <2>8. RowsSay' /\ FocusLives'
      BY <1>4, <2>1, <2>2, <2>4, <2>5, <2>6, <2>7, WrittenKeeps
    <2> QED BY <1>2, <2>8 DEF RowInv
  <1>6. CASE draft.rule = Nobody /\ readOnly
    <2>1. UNCHANGED <<rows, lastId, focus, panel, leaving, ghost>>
      BY <1>1, <1>6 DEF commitDraft
    <2> QED BY <1>2, <1>4, <2>1, Untouched DEF RowInv
  <1>7. CASE draft.rule = Nobody /\ ~readOnly
    <2> DEFINE rule == NewRule(draft.field.name)
    <2>1. lastId' = lastId + 1
      BY <1>1, <1>7 DEF commitDraft
    <2>2. PICK after \in {rows, Added(lastId + 1, rule)} :
               /\ Committed(after, At(lastId', "operator", TRUE), panel)
               /\ ghost' = IF after = rows THEN lastId' ELSE ghost
      BY <1>1, <1>7 DEF commitDraft
    <2>3. RuleFits(rule)
      BY <1>3 DEF RuleFits, NewRule, Says
    <2> HIDE DEF rule
    <2>4. RowsSay' /\ FocusLives'
      BY <1>4, <2>1, <2>2, <2>3, RowCounted
    <2> QED BY <1>2, <2>4 DEF RowInv
  <1> QED BY <1>5, <1>6, <1>7

(* A row the builder adds.                                                  *)
LEMMA AddRowKeeps ==
  ASSUME RowInv, addFilterRow
  PROVE  RowInv'
  <1> DEFINE rule == NewRule(FirstField)
  <1>1. lastId' = lastId + 1 /\ variant = "advanced" /\ UNCHANGED draft
    BY DEF addFilterRow
  <1>2. PICK after \in {rows, Added(lastId + 1, rule)} :
               /\ Committed(after, At(lastId', "field", TRUE), panel)
               /\ ghost' = IF after = rows THEN lastId' ELSE ghost
    BY DEF addFilterRow
  <1>3. FirstField \in Fields
    BY SchemaAssumption DEF FirstField
  <1>4. RuleFits(rule)
    BY <1>3 DEF RuleFits, NewRule, Says
  <1> HIDE DEF rule
  <1>5. RowsSay' /\ FocusLives'
    BY <1>1, <1>2, <1>4, RowCounted DEF RowInv
  <1>6. DraftFits' /\ AmendAlone'
    BY <1>1, DraftKept, NotAmending DEF RowInv
  <1> QED BY <1>5, <1>6 DEF RowInv

(* A segment that opens itself lowers the request.                          *)
LEMMA SpendKeeps ==
  ASSUME RowInv, Spend
  PROVE  RowInv'
  <1>1. /\ focus.auto /\ focus.seg \in Drawn(focus.id)
        /\ focus' = [focus EXCEPT !.auto = FALSE]
        /\ panel' = IF readOnly THEN panel ELSE PanelOn(focus.id, focus.seg)
        /\ UNCHANGED <<rows, lastId, draft, leaving, ghost>>
    BY DEF Spend
  <1>2. RowsSay'
    BY <1>1, PanelOpened, PanelClosed DEF RowInv
  <1>3. focus.id \in Live /\ focus = [id |-> focus.id, seg |-> focus.seg, auto |-> focus.auto]
    BY <1>1 DEF Drawn, RowInv, FocusLives
  <1>4. focus' = At(focus.id, focus.seg, FALSE)
    BY <1>1, <1>3 DEF At
  <1>5. FocusLives'
    BY <1>1, <1>3, <1>4, FocusMoved DEF RowInv
  <1>6. DraftFits' /\ AmendAlone'
    BY <1>1, DraftKept, NotAmending DEF RowInv, Answered
  <1> QED BY <1>2, <1>5, <1>6 DEF RowInv

(* The menu that has left hands its row to the value segment.               *)
LEMMA ReleaseKeeps ==
  ASSUME RowInv, Release
  PROVE  RowInv'
  <1>1. /\ leaving # Nobody /\ leaving' = Nobody /\ focus' = At(leaving, "value", TRUE)
        /\ UNCHANGED <<rows, lastId, draft, panel, ghost>>
    BY DEF Release
  <1>2. RowsSay'
    BY <1>1, PanelClosed DEF RowInv
  <1>3. leaving \in Live
    BY <1>1 DEF RowInv, FocusLives
  <1>4. FocusLives'
    BY <1>1, <1>3, FocusMoved DEF RowInv
  <1>5. DraftFits' /\ AmendAlone'
    BY <1>1, DraftKept, NotAmending DEF RowInv
  <1> QED BY <1>2, <1>4, <1>5 DEF RowInv

(* A rule taken to another attribute or condition, with a value that fits.  *)
LEMMA RuleReplaced ==
  ASSUME NEW r, NEW g \in Fields, NEW op, NEW v, Says(g, op, v),
         r = [field |-> r.field, op |-> r.op, value |-> r.value, negated |-> r.negated]
  PROVE  /\ RuleFits([r EXCEPT !.field = g, !.value = v, !.op = op])
         /\ r.field = g => RuleFits([r EXCEPT !.op = op, !.value = v])
  <1>1. ASSUME NEW n, n = [field |-> g, op |-> op, value |-> v, negated |-> r.negated]
        PROVE  RuleFits(n)
    <2>1. n.field = g /\ n.op = op /\ n.value = v /\ n.negated = r.negated
      BY <1>1
    <2> QED BY <1>1, <2>1 DEF RuleFits
  <1>2. ASSUME NEW n, n = [r EXCEPT !.field = g, !.value = v, !.op = op]
        PROVE  RuleFits(n)
    <2>1. n = [field |-> g, op |-> op, value |-> v, negated |-> r.negated]
      BY <1>2
    <2> QED BY <1>1, <2>1
  <1>3. ASSUME NEW n, n = [r EXCEPT !.op = op, !.value = v], r.field = g
        PROVE  RuleFits(n)
    <2>1. n = [field |-> r.field, op |-> op, value |-> v, negated |-> r.negated]
      BY <1>3
    <2> QED BY <1>1, <1>3, <2>1
  <1> QED BY <1>2, <1>3

(* A new attribute brings its default condition or leaves the row to be     *)
(* asked for one, and never a value.                                        *)
LEMMA PickFieldKeeps ==
  ASSUME RowInv, NEW g \in Fields, PickField(g)
  PROVE  RowInv'
  <1> DEFINE id == panel.id
             op == IF id \in pending THEN "" ELSE getDefaultFilterOperator(g)
             rule == [rows[id] EXCEPT !.field = g, !.value = Undefined, !.op = op]
             proposed == updateRule(id, rule)
             seg == IF id \in pending THEN "operator" ELSE "field"
             f == At(id, seg, id \in pending)
  <1>1. panel # Nothing /\ UNCHANGED <<lastId, draft, ghost>>
    BY DEF PickField
  <1>2. id \in Live /\ RowsSay /\ FocusLives /\ RowsFit(rows, lastId)
    BY <1>1 DEF RowInv, RowsSay, PanelFits, Live
  <1>3. PICK after \in {rows, proposed} : Committed(after, f, Nothing)
    BY DEF PickField, Written
  <1>4. f.id = id /\ f = [id |-> f.id, seg |-> f.seg, auto |-> f.auto]
    BY DEF At
  <1>5. Says(g, op, Undefined)
    <2>1. CASE id \in pending
      BY <2>1 DEF Says
    <2>2. CASE id \notin pending
      <3>1. Offered(g, op) /\ op # ""
        BY <2>2, DefaultOffered
      <3>2. PICK o \in resolveFilterOperators(g) : o.value = op
        BY <3>1 DEF Offered
      <3>3. getFilterArity(g, op) \in {"none", "one", "many", "range"}
        BY <3>2, OperatorFacts
      <3>4. Fits(getFilterArity(g, op), Undefined)
        BY <3>3 DEF Fits, Undefined
      <3> QED BY <3>1, <3>4 DEF Says
    <2> QED BY <2>1, <2>2
  <1> HIDE DEF op, f
  <1>6. RuleFits(rule)
    <2>1. rows[id] = [field |-> rows[id].field, op |-> rows[id].op,
                      value |-> rows[id].value, negated |-> rows[id].negated]
      BY <1>2, LiveRule
    <2> QED BY <1>5, <2>1, RuleReplaced
  <1> HIDE DEF rule
  <1>7. RowsFit(proposed, lastId)
    BY <1>2, <1>6, RowsChanged DEF updateRule
  <1>8. PanelFits(Nothing, rows)
    BY DEF PanelFits
  <1> HIDE DEF id, proposed
  <1>9. f.id \in Live \cup {Nobody, ghost}
    BY <1>2, <1>4
  <1>10. RowsSay' /\ FocusLives'
    BY <1>1, <1>2, <1>3, <1>4, <1>7, <1>8, <1>9, WrittenKeeps
  <1>11. DraftFits' /\ AmendAlone'
    BY <1>1, DraftKept, NotAmending DEF RowInv
  <1> QED BY <1>10, <1>11 DEF RowInv

(* The value moves with the condition.                                      *)
LEMMA PickOperatorKeeps ==
  ASSUME RowInv, NEW o, PickOperator(o)
  PROVE  RowInv'
  <1> DEFINE id == panel.id
             r == rows[id]
             given == coerceFilterValue(r.value, getFilterArity(r.field, r.op), o.arity)
             rule == [r EXCEPT !.op = o.value, !.value = given]
             proposed == updateRule(id, rule)
             hands == r.op = "" /\ o.arity # "none"
  <1>1. /\ panel # Nothing /\ UNCHANGED <<lastId, draft, ghost>>
        /\ o \in resolveFilterOperators(r.field)
    BY DEF PickOperator
  <1>2. id \in Live /\ RowsSay /\ FocusLives /\ RowsFit(rows, lastId)
    BY <1>1 DEF RowInv, RowsSay, PanelFits, Live
  <1>3. /\ r = [field |-> r.field, op |-> r.op, value |-> r.value, negated |-> r.negated]
        /\ r.field \in Fields /\ Says(r.field, r.op, r.value)
    BY <1>2, LiveRule
  <1>4. DraftFits' /\ AmendAlone'
    BY <1>1, DraftKept, NotAmending DEF RowInv
  <1>5. CASE o.value = r.op
    <2> DEFINE f == At(id, "operator", FALSE)
    <2>1. Committed(rows, f, Nothing)
      BY <1>5 DEF PickOperator
    <2>2. f.id = id /\ f = [id |-> f.id, seg |-> f.seg, auto |-> f.auto]
      BY DEF At
    <2>3. PanelFits(Nothing, rows)
      BY DEF PanelFits
    <2> HIDE DEF f, id
    <2>4. RowsSay' /\ FocusLives'
      BY <1>1, <1>2, <2>1, <2>2, <2>3, WrittenKeeps
    <2> QED BY <1>4, <2>4 DEF RowInv
  <1>6. CASE o.value # r.op
    <2>1. PICK after \in Written(proposed) :
            /\ rows' = after /\ panel' = Nothing
            /\ focus' = IF hands THEN focus ELSE At(id, "operator", FALSE)
            /\ leaving' = IF hands THEN id ELSE leaving
      BY <1>6 DEF PickOperator
    <2>2. /\ getFilterArity(r.field, o.value) = o.arity /\ o.value # "" /\ Offered(r.field, o.value)
          /\ o.arity \in {"none", "one", "many", "range"}
      BY <1>1, <1>3, OperatorFacts
    <2>3. Fits(getFilterArity(r.field, r.op), r.value)
      <3>1. CASE r.op = ""
        <4>1. getFilterArity(r.field, r.op) = "one" /\ r.value = Undefined
          BY <1>3, <3>1, NoOperator DEF Says
        <4> QED BY <4>1 DEF Fits, Undefined
      <3>2. CASE r.op # ""
        BY <1>3, <3>2 DEF Says
      <3> QED BY <3>1, <3>2
    <2>4. Fits(o.arity, given)
      BY <2>2, <2>3, CoerceFits
    <2> HIDE DEF given
    <2>5. Says(r.field, o.value, given)
      BY <2>2, <2>4 DEF Says
    <2> HIDE DEF r
    <2>7. RuleFits(rule)
      BY <1>3, <2>5, RuleReplaced
    <2> HIDE DEF rule
    <2>8. RowsFit(proposed, lastId)
      BY <1>2, <2>7, RowsChanged DEF updateRule
    <2>9. DOMAIN proposed = Live
      BY DEF updateRule, Live
    <2> HIDE DEF proposed
    <2>10. after \in {rows, proposed}
      BY DEF Written
    <2>11. RowsFit(after, lastId) /\ DOMAIN after = Live
      BY <1>2, <2>8, <2>9, <2>10 DEF Live
    <2>12. RowsSay'
      BY <1>1, <1>2, <2>1, <2>11 DEF RowsSay, PanelFits
    <2>13. Live' = Live
      BY <2>1, <2>11 DEF Live
    <2>14. /\ focus' = [id |-> focus'.id, seg |-> focus'.seg, auto |-> focus'.auto]
           /\ focus'.id \in Live \cup {Nobody, ghost}
      <3>1. CASE hands
        <4>1. focus' = focus
          BY <2>1, <3>1
        <4> QED BY <1>2, <4>1 DEF FocusLives, StopLives
      <3>2. CASE ~hands
        <4>1. focus' = At(id, "operator", FALSE)
          BY <2>1, <3>2
        <4> QED BY <1>2, <4>1 DEF At
      <3> QED BY <3>1, <3>2
    <2>15. leaving' \in Live \cup {Nobody}
      BY <1>2, <2>1 DEF FocusLives
    <2>16. FocusLives'
      BY <1>1, <2>13, <2>14, <2>15 DEF FocusLives, StopLives
    <2> QED BY <1>4, <2>12, <2>16 DEF RowInv
  <1> QED BY <1>5, <1>6

(* A value that fits is written into its row.                               *)
LEMMA WriteValueKeeps ==
  ASSUME RowInv, NEW id \in Live, NEW v, Says(rows[id].field, rows[id].op, v), panel # Nothing,
         NEW f, f = [id |-> f.id, seg |-> f.seg, auto |-> f.auto],
         f.id \in Live \cup {Nobody, ghost},
         NEW p, PanelFits(p, rows), WriteValue(id, v, f, p)
  PROVE  RowInv'
  <1> DEFINE rule == [rows[id] EXCEPT !.value = v]
             proposed == updateRule(id, rule)
  <1>1. UNCHANGED <<lastId, draft, ghost>> /\ RowsSay /\ FocusLives /\ RowsFit(rows, lastId)
    BY DEF WriteValue, RowInv, RowsSay
  <1>2. PICK after \in {rows, proposed} : Committed(after, f, p)
    BY DEF WriteValue, Written
  <1>3. /\ RowsFit([rows EXCEPT ![id] = rule], lastId)
        /\ rule.field = rows[id].field /\ rule.op = rows[id].op
    BY <1>1, ValueChanged
  <1> HIDE DEF rule
  <1>4. proposed = [rows EXCEPT ![id] = rule]
    BY DEF updateRule
  <1>5. \A x \in Live : x \in DOMAIN proposed =>
           proposed[x].field = rows[x].field /\ proposed[x].op = rows[x].op
    BY <1>3, <1>4 DEF Live
  <1>6. RowsFit(proposed, lastId)
    BY <1>3, <1>4
  <1> HIDE DEF proposed
  <1>7. RowsSay' /\ FocusLives'
    BY <1>1, <1>2, <1>5, <1>6, WrittenKeeps
  <1>8. DraftFits' /\ AmendAlone'
    BY <1>1, DraftKept, NotAmending DEF RowInv
  <1> QED BY <1>7, <1>8 DEF RowInv

(* What an open value editor is over.                                       *)
LEMMA EditorFacts ==
  ASSUME RowInv, panel # Nothing
  PROVE  /\ panel = [id |-> panel.id, kind |-> panel.kind, typed |-> panel.typed]
         /\ panel.id \in Live
         /\ panel.kind \in {"value", "cell"} =>
              /\ Offered(rows[panel.id].field, rows[panel.id].op)
              /\ rows[panel.id].op # "" /\ rows[panel.id].field \in Fields
              /\ Says(rows[panel.id].field, rows[panel.id].op, panel.typed)
              /\ \A v \in Typable(EditorOf(panel)) :
                   Says(rows[panel.id].field, rows[panel.id].op, v)
  <1>1. /\ panel = [id |-> panel.id, kind |-> panel.kind, typed |-> panel.typed]
        /\ panel.id \in Live /\ RowsFit(rows, lastId)
        /\ panel.kind \in {"value", "cell"} =>
             /\ rows[panel.id].op # ""
             /\ Fits(getFilterArity(rows[panel.id].field, rows[panel.id].op), panel.typed)
    BY DEF RowInv, RowsSay, PanelFits, Live
  <1>2. PICK r : r = rows[panel.id]
    OBVIOUS
  <1>3. r.field \in Fields /\ Says(r.field, r.op, r.value)
    BY <1>1, <1>2, LiveRule
  <1>4. ASSUME r.op # "" PROVE /\ Offered(r.field, r.op)
          /\ \A v \in Typable(resolveFilterEditor(r.field, r.op)) : Says(r.field, r.op, v)
    <2>1. Offered(r.field, r.op)
      BY <1>3, <1>4 DEF Says
    <2>2. \A v \in Typable(resolveFilterEditor(r.field, r.op)) : Fits(getFilterArity(r.field, r.op), v)
      BY <1>3, <2>1, TypableFits
    <2> QED BY <1>4, <2>1, <2>2 DEF Says
  <1>5. EditorOf(panel) = resolveFilterEditor(r.field, r.op)
    BY <1>2 DEF EditorOf
  <1>6. ASSUME panel.kind \in {"value", "cell"}
        PROVE  /\ Offered(r.field, r.op) /\ r.op # "" /\ r.field \in Fields
               /\ Says(r.field, r.op, panel.typed)
               /\ \A v \in Typable(EditorOf(panel)) : Says(r.field, r.op, v)
    <2>1. r.op # "" /\ Fits(getFilterArity(r.field, r.op), panel.typed)
      BY <1>1, <1>2, <1>6
    <2>2. Offered(r.field, r.op) /\ Says(r.field, r.op, panel.typed)
      BY <1>4, <2>1 DEF Says
    <2> QED BY <1>3, <1>4, <1>5, <2>1, <2>2
  <1> QED BY <1>1, <1>2, <1>6

(* An editor with another text in it.                                       *)
LEMMA Retyped ==
  ASSUME RowInv, panel # Nothing, panel.kind \in {"value", "cell"},
         NEW v \in Typable(EditorOf(panel)), NEW p, p = [panel EXCEPT !.typed = v]
  PROVE  PanelFits(p, rows)
  <1>1. /\ panel = [id |-> panel.id, kind |-> panel.kind, typed |-> panel.typed]
        /\ panel.id \in Live /\ rows[panel.id].op # ""
        /\ Says(rows[panel.id].field, rows[panel.id].op, v)
    BY EditorFacts
  <1>2. p = [id |-> panel.id, kind |-> panel.kind, typed |-> v]
    BY <1>1
  <1>3. p.id = panel.id /\ p.kind = panel.kind /\ p.typed = v
        /\ p = [id |-> p.id, kind |-> p.kind, typed |-> p.typed]
    BY <1>2
  <1> QED BY <1>1, <1>3 DEF PanelFits, Says, Live

(* Typing into an editor.                                                   *)
LEMMA TypedKeeps ==
  ASSUME RowInv, NEW v, Typed(v)
  PROVE  RowInv'
  <1>1. /\ panel # Nothing /\ panel.kind \in {"value", "cell"} /\ v \in Typable(EditorOf(panel))
        /\ panel' = [panel EXCEPT !.typed = v]
        /\ UNCHANGED <<rows, lastId, draft, focus, leaving, ghost>>
    BY DEF Typed
  <1>2. PanelFits(panel', rows)
    BY <1>1, Retyped
  <1>3. RowsSay'
    BY <1>1, <1>2 DEF RowInv, RowsSay
  <1>4. FocusLives'
    BY <1>1 DEF RowInv, FocusLives, StopLives, Live
  <1>5. DraftFits' /\ AmendAlone'
    BY <1>1, DraftKept, NotAmending DEF RowInv
  <1> QED BY <1>3, <1>4, <1>5 DEF RowInv

(* Committing what was typed, or closing a cell that changed nothing.       *)
LEMMA CommitValueKeeps ==
  ASSUME RowInv, CommitValue
  PROVE  RowInv'
  <1>1. panel # Nothing /\ panel.kind \in {"value", "cell"}
    BY DEF CommitValue
  <1>2. panel.id \in Live /\ Says(rows[panel.id].field, rows[panel.id].op, panel.typed)
    BY <1>1, EditorFacts
  <1>3. CASE panel.kind = "cell" /\ panel.typed = rows[panel.id].value
    <2>1. panel' = Nothing /\ UNCHANGED <<rows, lastId, draft, focus, leaving, ghost>>
      BY <1>3 DEF CommitValue
    <2>2. RowsSay'
      BY <2>1, PanelClosed DEF RowInv
    <2>3. FocusLives'
      BY <2>1 DEF RowInv, FocusLives, StopLives, Live
    <2>4. DraftFits' /\ AmendAlone'
      BY <1>1, <2>1, DraftKept, NotAmending DEF RowInv
    <2> QED BY <2>2, <2>3, <2>4 DEF RowInv
  <1>4. CASE ~(panel.kind = "cell" /\ panel.typed = rows[panel.id].value)
    <2> DEFINE f == IF panel.kind = "value" THEN At(panel.id, "value", FALSE) ELSE focus
    <2>1. WriteValue(panel.id, panel.typed, f, Nothing)
      BY <1>4 DEF CommitValue
    <2>2. f = [id |-> f.id, seg |-> f.seg, auto |-> f.auto] /\ f.id \in Live \cup {Nobody, ghost}
      <3>1. CASE panel.kind = "value"
        BY <1>2, <3>1 DEF At
      <3>2. CASE panel.kind # "value"
        BY <3>2 DEF RowInv, FocusLives, StopLives
      <3> QED BY <3>1, <3>2
    <2>3. PanelFits(Nothing, rows)
      BY DEF PanelFits
    <2> HIDE DEF f
    <2> QED BY <1>1, <1>2, <2>1, <2>2, <2>3, WriteValueKeeps
  <1> QED BY <1>3, <1>4

(* Picking from a list.                                                     *)
LEMMA PickOptionKeeps ==
  ASSUME RowInv, NEW v, PickOption(v)
  PROVE  RowInv'
  <1>1. panel # Nothing /\ panel.kind \in {"value", "cell"} /\ v \in Typable(EditorOf(panel))
    BY DEF PickOption
  <1>2. panel.id \in Live /\ Says(rows[panel.id].field, rows[panel.id].op, v)
    BY <1>1, EditorFacts
  <1>3. CASE EditorOf(panel) = "multiselect"
    <2> DEFINE p == [panel EXCEPT !.typed = v]
    <2>1. WriteValue(panel.id, v, focus, p)
      BY <1>3 DEF PickOption
    <2>2. PanelFits(p, rows)
      BY <1>1, Retyped
    <2>3. /\ focus = [id |-> focus.id, seg |-> focus.seg, auto |-> focus.auto]
          /\ focus.id \in Live \cup {Nobody, ghost}
      BY DEF RowInv, FocusLives, StopLives
    <2> HIDE DEF p
    <2> QED BY <1>1, <1>2, <2>1, <2>2, <2>3, WriteValueKeeps
  <1>4. CASE EditorOf(panel) # "multiselect"
    <2> DEFINE f == At(panel.id, "value", FALSE)
    <2>1. WriteValue(panel.id, v, f, Nothing)
      BY <1>4 DEF PickOption
    <2>2. f = [id |-> f.id, seg |-> f.seg, auto |-> f.auto] /\ f.id = panel.id
      BY DEF At
    <2>3. PanelFits(Nothing, rows)
      BY DEF PanelFits
    <2> HIDE DEF f
    <2>4. f.id \in Live \cup {Nobody, ghost}
      BY <1>2, <2>2
    <2> QED BY <1>1, <1>2, <2>1, <2>2, <2>3, <2>4, WriteValueKeeps
  <1> QED BY <1>3, <1>4

(* Steps of the focus and the popover alone.                                *)
LEMMA FocusStepKeeps ==
  ASSUME RowInv,
         \/ Dismiss
         \/ \E id \in Live : EnterKey(id) \/ FocusRow(id)
         \/ \E id \in Live, seg \in {"field", "operator", "value"} : Press(id, seg) \/ FocusCell(id, seg)
  PROVE  RowInv'
  <1>1. RowsSay /\ FocusLives /\ DraftFits /\ AmendAlone
    BY DEF RowInv
  <1>2. UNCHANGED draft
    BY DEF Dismiss, EnterKey, FocusRow, Press, FocusCell
  <1>3. DraftFits'
    BY <1>1, <1>2, DraftKept
  <1>4. CASE Dismiss
    <2>1. /\ panel # Nothing /\ panel' = Nothing
          /\ UNCHANGED <<rows, lastId, draft, focus, leaving, ghost>>
      BY <1>4 DEF Dismiss
    <2>2. RowsSay'
      BY <1>1, <2>1, PanelClosed
    <2>3. FocusLives'
      BY <1>1, <2>1 DEF FocusLives, StopLives, Live
    <2>4. AmendAlone'
      BY <1>1, <2>1, NotAmending
    <2> QED BY <1>3, <2>2, <2>3, <2>4 DEF RowInv
  <1>5. ASSUME NEW id \in Live, EnterKey(id) PROVE RowInv'
    <2>1. PICK seg : focus' = At(id, seg, TRUE)
      BY <1>5 DEF EnterKey
    <2>2. draft = Nothing /\ UNCHANGED <<rows, lastId, panel, leaving, ghost>>
      BY <1>5 DEF EnterKey
    <2>3. RowsSay' /\ FocusLives'
      BY <1>1, <2>1, <2>2, PanelClosed, FocusMoved
    <2>4. AmendAlone'
      BY <1>1, <1>2, <2>2, NotAmending
    <2> QED BY <1>3, <2>3, <2>4 DEF RowInv
  <1>6. ASSUME NEW id \in Live, FocusRow(id) PROVE RowInv'
    <2>1. /\ focus' = At(id, "none", FALSE)
          /\ UNCHANGED <<variant, rows, lastId, draft, panel, leaving, ghost>>
      BY <1>6 DEF FocusRow
    <2>2. RowsSay' /\ FocusLives'
      BY <1>1, <2>1, PanelClosed, FocusMoved
    <2>3. focus'.auto = FALSE
      BY <2>1 DEF At
    <2>4. ~Answered'
      BY <2>3 DEF Answered
    <2>5. AmendAlone'
      BY <1>1, <2>1, <2>4 DEF AmendAlone
    <2> QED BY <1>3, <2>2, <2>5 DEF RowInv
  <1>7. ASSUME NEW id \in Live, NEW seg, Press(id, seg) PROVE RowInv'
    <2>1. /\ draft = Nothing /\ seg \in Drawn(id) /\ focus' = At(id, seg, FALSE)
          /\ panel' = PanelOn(id, seg) /\ UNCHANGED <<rows, lastId, leaving, ghost>>
      BY <1>7 DEF Press
    <2>2. RowsSay' /\ FocusLives'
      BY <1>1, <2>1, PanelOpened, FocusMoved
    <2>3. AmendAlone'
      BY <1>1, <1>2, <2>1, NotAmending
    <2> QED BY <1>3, <2>2, <2>3 DEF RowInv
  <1>8. ASSUME NEW id \in Live, NEW seg, FocusCell(id, seg) PROVE RowInv'
    <2>1. /\ variant = "advanced" /\ focus' = At(id, seg, FALSE)
          /\ UNCHANGED <<rows, lastId, panel, leaving, ghost>>
      BY <1>8 DEF FocusCell
    <2>2. RowsSay' /\ FocusLives'
      BY <1>1, <2>1, PanelClosed, FocusMoved
    <2>3. AmendAlone'
      BY <1>1, <1>2, <2>1, NotAmending
    <2> QED BY <1>3, <2>2, <2>3 DEF RowInv
  <1> QED BY <1>4, <1>5, <1>6, <1>7, <1>8

(* A rewrite of the rows from a row's menu.                                 *)
LEMMA RewriteKeeps ==
  ASSUME RowInv, NEW proposed, Rewrite(proposed), lastId' \in Nat,
         RowsFit(rows, lastId'), RowsFit(proposed, lastId')
  PROVE  RowInv'
  <1>1. panel = Nothing /\ draft = Nothing /\ UNCHANGED <<draft, ghost>>
    BY DEF Rewrite
  <1>2. PICK after \in {rows, proposed} : Committed(after, focus, panel)
    BY DEF Rewrite, Written
  <1>3. /\ focus = [id |-> focus.id, seg |-> focus.seg, auto |-> focus.auto]
        /\ focus.id \in Live \cup {Nobody, ghost'}
    BY <1>1 DEF RowInv, FocusLives, StopLives
  <1>4. RowsFit(after, lastId') /\ RowsSay /\ FocusLives /\ PanelFits(panel, rows)
    BY DEF RowInv, RowsSay
  <1>5. RowsSay' /\ FocusLives'
    BY <1>1, <1>2, <1>3, <1>4, CommittedKeeps
  <1>6. DraftFits' /\ AmendAlone'
    BY <1>1, DraftKept, NotAmending DEF RowInv
  <1> QED BY <1>5, <1>6 DEF RowInv

(* Remove, negate, duplicate.                                               *)
LEMMA MenuKeeps ==
  ASSUME RowInv, NEW id \in Live, removeRow(id) \/ negateRule(id) \/ duplicateRow(id)
  PROVE  RowInv'
  <1>1. RowsFit(rows, lastId) /\ lastId \in Nat
    BY DEF RowInv, RowsSay
  <1>2. CASE removeRow(id)
    <2>1. Rewrite(Without(id)) /\ lastId' = lastId
      BY <1>2 DEF removeRow
    <2>2. RowsFit(Without(id), lastId)
      BY <1>1 DEF RowsFit, Without, Live
    <2> QED BY <1>1, <2>1, <2>2, RewriteKeeps
  <1>3. CASE negateRule(id)
    <2> DEFINE rule == negateFilterOperator(rows[id])
               proposed == [rows EXCEPT ![id] = rule]
    <2>1. Rewrite(proposed) /\ lastId' = lastId
      BY <1>3 DEF negateRule
    <2>2. RuleFits(rule)
      BY <1>1, LiveRule, NegateFits
    <2> HIDE DEF rule
    <2>3. RowsFit(proposed, lastId)
      BY <1>1, <2>2, RowsChanged
    <2> HIDE DEF proposed
    <2> QED BY <1>1, <2>1, <2>3, RewriteKeeps
  <1>4. CASE duplicateRow(id)
    <2> DEFINE proposed == Added(lastId + 1, rows[id])
    <2>1. Rewrite(proposed) /\ lastId' = lastId + 1
      BY <1>4 DEF duplicateRow
    <2>2. RowsFit(proposed, lastId + 1)
      BY <1>1, LiveRule, RowAdded
    <2>3. RowsFit(rows, lastId + 1)
      <3>1. \A x \in 1..lastId : x \in 1..(lastId + 1)
        BY <1>1
      <3> QED BY <1>1, <3>1 DEF RowsFit
    <2> HIDE DEF proposed
    <2>4. lastId' \in Nat
      BY <1>1, <2>1
    <2> QED BY <2>1, <2>2, <2>3, <2>4, RewriteKeeps
  <1> QED BY <1>2, <1>3, <1>4

(* The page rewrites the rows under whatever is open: it takes a value out  *)
(* or every row, and never changes what a row is asked.                     *)
LEMMA PageKeeps ==
  ASSUME RowInv, NEW after, PageRewrites(after), RowsFit(after, lastId), DOMAIN after \subseteq Live,
         \A id \in DOMAIN after : after[id].field = rows[id].field /\ after[id].op = rows[id].op
  PROVE  RowInv'
  <1>1. /\ after # rows /\ Committed(after, focus, panel)
        /\ UNCHANGED <<variant, lastId, draft, pending, ghost>>
    BY DEF PageRewrites
  <1>2. /\ RowsSay /\ FocusLives /\ PanelFits(panel, rows) /\ lastId \in Nat
        /\ focus = [id |-> focus.id, seg |-> focus.seg, auto |-> focus.auto]
        /\ focus.id \in Live \cup {Nobody, ghost}
    BY DEF RowInv, RowsSay, FocusLives, StopLives
  <1>3. RowsSay' /\ FocusLives'
    BY <1>1, <1>2, WrittenKeeps
  <1>4. DraftFits'
    BY <1>1, DraftKept DEF RowInv
  <1>5. AmendAlone'
    <2>1. SUFFICES ASSUME draft # Nothing, draft.rule # Nobody
          PROVE panel' = Nothing /\ leaving' = Nobody /\ variant' = "basic" /\ ~Answered'
      BY <1>1 DEF AmendAlone
    <2>2. panel = Nothing /\ leaving = Nobody /\ variant = "basic" /\ ~Answered
      BY <2>1 DEF RowInv, AmendAlone
    <2>3. panel' = Nothing /\ leaving' = Nobody
      BY <1>1, <2>2 DEF Committed, Synced
    <2>4. rows' = after /\ Live' = DOMAIN after
      BY <1>1 DEF Committed, Live
    <2>5. ASSUME NEW x PROVE Drawn(x)' \subseteq Drawn(x)
      <3>1. x \in Live' => x \in Live /\ rows'[x].field = rows[x].field /\ rows'[x].op = rows[x].op
        BY <2>4
      <3> QED BY <1>1, <3>1 DEF Drawn
    <2>6. focus' = NoFocus \/ focus' = focus
      BY <1>1 DEF Committed, Repaired
    <2>7. CASE focus' = NoFocus
      <3>1. focus'.auto = FALSE
        BY <2>7 DEF NoFocus
      <3> QED BY <1>1, <2>2, <2>3, <3>1 DEF Answered
    <2>8. CASE focus' = focus
      <3>1. PICK x : x = focus.id
        OBVIOUS
      <3>2. focus'.id = x /\ focus'.seg = focus.seg /\ focus'.auto = focus.auto
        BY <2>8, <3>1
      <3>3. Answered' => focus.auto = TRUE /\ focus.seg \in Drawn(x)'
        BY <2>8, <3>1, <3>2 DEF Answered, Drawn, Live
      <3>4. Answered' => Answered
        BY <2>5, <3>1, <3>3 DEF Answered
      <3> QED BY <1>1, <2>2, <2>3, <3>4
    <2> QED BY <2>6, <2>7, <2>8
  <1> QED BY <1>3, <1>4, <1>5 DEF RowInv

(* Both rewrites of the page are such rewrites.                             *)
LEMMA PageRewritesKeeps ==
  ASSUME RowInv, PageRewrites(<<>>) \/ \E id \in Live : PageRewrites(Emptied(id))
  PROVE  RowInv'
  <1>1. RowsFit(rows, lastId)
    BY DEF RowInv, RowsSay
  <1>2. CASE PageRewrites(<<>>)
    <2>1. RowsFit(<<>>, lastId) /\ DOMAIN <<>> = {}
      BY DEF RowsFit
    <2> QED BY <1>2, <2>1, PageKeeps
  <1>3. ASSUME NEW id \in Live, PageRewrites(Emptied(id)) PROVE RowInv'
    <2> DEFINE rule == [rows[id] EXCEPT !.value = Undefined]
    <2>1. Says(rows[id].field, rows[id].op, Undefined)
      <3>1. PICK r : r = rows[id]
        OBVIOUS
      <3>2. r.field \in Fields /\ Says(r.field, r.op, r.value)
        BY <1>1, <3>1, LiveRule
      <3>3. CASE r.op = ""
        BY <3>1, <3>3 DEF Says
      <3>4. CASE r.op # ""
        <4>1. Offered(r.field, r.op)
          BY <3>2, <3>4 DEF Says
        <4>2. PICK o \in resolveFilterOperators(r.field) : o.value = r.op
          BY <4>1 DEF Offered
        <4>3. getFilterArity(r.field, r.op) \in {"none", "one", "many", "range"}
          BY <3>2, <4>2, OperatorFacts
        <4>4. Fits(getFilterArity(r.field, r.op), Undefined)
          BY <4>3 DEF Fits, Undefined
        <4> QED BY <3>1, <3>4, <4>1, <4>4 DEF Says
      <3> QED BY <3>3, <3>4
    <2>2. /\ RowsFit([rows EXCEPT ![id] = rule], lastId)
          /\ rule.field = rows[id].field /\ rule.op = rows[id].op
      BY <1>1, <2>1, ValueChanged
    <2> HIDE DEF rule
    <2>3. Emptied(id) = [rows EXCEPT ![id] = rule]
      BY DEF Emptied, updateRule, rule
    <2>4. /\ DOMAIN Emptied(id) \subseteq Live
          /\ \A x \in DOMAIN Emptied(id) :
               Emptied(id)[x].field = rows[x].field /\ Emptied(id)[x].op = rows[x].op
      BY <2>2, <2>3 DEF Live
    <2> QED BY <1>3, <2>2, <2>3, <2>4, PageKeeps
  <1> QED BY <1>2, <1>3

(* Locking the bar changes nothing that is drawn.                           *)
LEMMA RowStutters ==
  ASSUME RowInv, LockBar \/ UNCHANGED rowVars
  PROVE  RowInv'
  <1>1. UNCHANGED <<variant, rows, lastId, draft, focus, pending, panel, leaving, ghost>>
    BY DEF LockBar, rowVars
  <1>2. RowsSay' /\ FocusLives' /\ Answered' = Answered
    BY <1>1, Untouched DEF RowInv
  <1>3. DraftFits' /\ AmendAlone'
    BY <1>1, <1>2, DraftKept DEF RowInv, AmendAlone
  <1> QED BY <1>2, <1>3 DEF RowInv

(* The inductive invariant holds at the start and is kept by every step.    *)
LEMMA RowInitially ==
  RowInit => RowInv
  <1>1. SUFFICES ASSUME RowInit PROVE RowInv
    OBVIOUS
  <1>2. RowsSay
    BY <1>1 DEF RowInit, RowsSay, RowsFit, PanelFits
  <1>3. FocusLives
    BY <1>1 DEF RowInit, FocusLives, StopLives, NoFocus, Live
  <1> QED BY <1>1, <1>2, <1>3 DEF RowInit, RowInv, DraftFits, AmendAlone

(* Every step of the rows keeps what they say.                              *)
LEMMA RowStep ==
  ASSUME RowInv, [RowNext]_rowVars
  PROVE  RowInv'
  <1>1. CASE Settled /\ Input
    <2>1. CASE \/ openCreate \/ closeDraft \/ back
               \/ \E f \in Fields : selectField(f)
               \/ \E f \in Fields : \E o \in resolveFilterOperators(f) : selectOperator(o)
               \/ \E v : commitDraftValue(v)
               \/ \E id \in Live, seg \in {"field", "operator", "value"} : openAmend(id, seg)
      BY <1>1, <2>1, DraftStepKeeps
    <2>2. CASE \/ Dismiss
               \/ \E id \in Live : EnterKey(id) \/ FocusRow(id)
               \/ \E id \in Live, seg \in {"field", "operator", "value"} :
                    Press(id, seg) \/ FocusCell(id, seg)
      BY <2>2, FocusStepKeeps
    <2>3. CASE addFilterRow
      BY <2>3, AddRowKeeps
    <2>4. CASE CommitValue
      BY <2>4, CommitValueKeeps
    <2>5. CASE \E f \in Fields : PickField(f)
      BY <2>5, PickFieldKeeps
    <2>6. CASE \E o : PickOperator(o)
      BY <2>6, PickOperatorKeeps
    <2>7. CASE \E v : Typed(v) \/ PickOption(v)
      BY <2>7, TypedKeeps, PickOptionKeeps
    <2>8. CASE \E id \in Live : removeRow(id) \/ negateRule(id) \/ duplicateRow(id)
      BY <2>8, MenuKeeps
    <2> QED BY <1>1, <2>1, <2>2, <2>3, <2>4, <2>5, <2>6, <2>7, <2>8 DEF Input
  <1>2. CASE commitDraft
    BY <1>2, CommitDraftKeeps
  <1>3. CASE Spend
    BY <1>3, SpendKeeps
  <1>4. CASE Release
    BY <1>4, ReleaseKeeps
  <1>5. CASE PageRewrites(<<>>) \/ \E id \in Live : PageRewrites(Emptied(id))
    BY <1>5, PageRewritesKeeps
  <1>6. CASE LockBar \/ UNCHANGED rowVars
    BY <1>6, RowStutters
  <1> QED BY <1>1, <1>2, <1>3, <1>4, <1>5, <1>6 DEF RowNext

(* Whatever is picked, typed, removed, copied, vetoed, locked or rewritten  *)
(* under a row of the filter bar, its value has the shape its operator      *)
(* takes and the tab stop names a row that is there.                        *)
THEOREM FilterRowsHold == RowSpec => []RowsHold
  <1>1. RowInv => RowsHold
    <2>1. ASSUME RowInv PROVE ValueFits
      BY <2>1 DEF RowInv, RowsSay, RowsFit, RuleFits, Says, ValueFits, Live
    <2> QED BY <2>1 DEF RowInv, FocusLives, RowsHold
  <1> QED BY <1>1, RowInitially, RowStep, PTL DEF RowSpec

-----------------------------------------------------------------------------
(* The date selector                                                        *)

\* The values a selector reports and a page holds.
DateValues ==
  [period : PeriodTypes \cup {"year", "quarter", "day"}, operator : Operators,
   start : Nat, end : Nat, pick : Nat, from : Nat, to : Nat]

\* A range reads from its start to its end, and a range begun in a grid began
\* at the pick beside it.
Reads(v) ==
  /\ v.end > 0 => v.start > 0 /\ v.start <= v.end
  /\ v.to > 0 => v.from > 0 /\ v.from <= v.to /\ v.pick \in {v.from, v.to}
  /\ v.from > 0 /\ v.to = 0 => v.pick = v.from

DateTypeOK ==
  /\ sel \in DateValues /\ Reads(sel)
  /\ value = NoValue \/ (value \in DateValues /\ Reads(value))
  /\ emitted = NoValue \/ (emitted \in DateValues /\ value # NoValue)
  /\ fresh \in BOOLEAN /\ focused \in BOOLEAN
  /\ preset \in Presets \cup {NoPreset}
  /\ fresh => value # NoValue
  /\ wanted = NoValue \/ wanted \in DateValues
  /\ rounds \in Nat /\ crossed \in BOOLEAN

\* What a render whose effects are still to run closed over: the picks and the
\* operator have not changed since, the page's value may have.
RenderOK ==
  render # NoRender =>
    /\ render.fresh \in BOOLEAN /\ render.current = Current
    /\ render.fresh => render.value \in DateValues /\ Reads(render.value)
    /\ ~fresh => value = render.value
    /\ ~render.fresh /\ Current = emitted => Taken(render.value) = Current
    /\ ~crossed => ~fresh

\* A value or a preset whose effect has not run yet.
Pending == IF render = NoRender THEN fresh ELSE render.fresh

\* The operator the page imposes has reached the selector, unless its effect
\* is still to run.
Imposed == preset # NoPreset /\ ~Pending => sel.operator = preset

\* Unless a value crossed a report, the page and the selector never disagree both
\* ways: either what the selector shows was reported, or the page's new value is
\* what it shows.
OneWay == ~crossed /\ Pending => (Current = emitted \/ Taken(value) = Current)

Kept == ~fresh /\ render = NoRender /\ Current = emitted => Taken(value) = Current

\* Where the value typed or set last is on its way.
Underway ==
  wanted # NoValue =>
    ~crossed /\
    IF Pending THEN Taken(value) = wanted /\ (Current = emitted \/ Current = wanted)
    ELSE Current = wanted

\* The renders still to come.
Remaining ==
  IF Pending THEN (IF Current # emitted THEN 2 ELSE IF Taken(value) # Current THEN 3 ELSE 1)
  ELSE (IF Current # emitted THEN 2 ELSE IF AtRest THEN 0 ELSE 1)

DateInv ==
  /\ DateTypeOK /\ RenderOK /\ Imposed /\ OneWay /\ Kept /\ Underway
  /\ IF crossed THEN rounds = 0 ELSE rounds + Remaining <= 3

---------------------------------------------------------------------------
(* What the selector takes and what it reports are both a value under the   *)
(* imposed operator.                                                        *)
LEMMA UnderIsBoth == Current = Under(preset, sel) /\ \A v : Taken(v) = Under(preset, v)
  BY DEF Current, Taken

(* The same after a step.                                                   *)
LEMMA UnderIsBothNext == Current' = Under(preset', sel') /\ (Taken(value))' = Under(preset', value')
  BY DEF Current, Taken

(* Imposing an operator changes nothing else of a value, and twice is once. *)
LEMMA UnderFacts ==
  ASSUME NEW op \in Presets \cup {NoPreset}, NEW v \in DateValues
  PROVE  /\ Under(op, v) \in DateValues
         /\ Reads(v) => Reads(Under(op, v))
         /\ op # NoPreset => Under(op, v).operator = op
         /\ op = NoPreset \/ v.operator = op => Under(op, v) = v
         /\ Under(op, Under(op, v)) = Under(op, v)
  <1> DEFINE o == IF op = NoPreset THEN v.operator ELSE op
  <1>1. o \in Operators
    BY SelectorAssumption DEF DateValues
  <1>2. Under(op, v) = [v EXCEPT !.operator = o]
    BY DEF Under
  <1> HIDE DEF o
  <1>3. /\ Under(op, v) \in DateValues
        /\ Reads(v) => Reads(Under(op, v))
        /\ Under(op, v).operator = o
    BY <1>1, <1>2 DEF DateValues, Reads
  <1>4. op # NoPreset => o = op
    BY DEF o
  <1>5. op = NoPreset \/ v.operator = op => o = v.operator
    BY DEF o
  <1>6. o = v.operator => Under(op, v) = v
    BY <1>2 DEF DateValues
  <1>7. Under(op, Under(op, v)) = Under(op, v)
    <2> DEFINE u == Under(op, v)
    <2>1. u \in DateValues /\ u.operator = o
      BY <1>3
    <2>2. Under(op, u) = [u EXCEPT !.operator = IF op = NoPreset THEN u.operator ELSE op]
      BY DEF Under
    <2>3. (IF op = NoPreset THEN u.operator ELSE op) = u.operator
      BY <2>1 DEF o
    <2> HIDE DEF u
    <2>4. [u EXCEPT !.operator = u.operator] = u
      BY <2>1 DEF DateValues
    <2> QED BY <2>2, <2>3, <2>4 DEF u
  <1> QED BY <1>3, <1>4, <1>5, <1>6, <1>7

(* Values that agree under one operator agree under any other imposed.      *)
LEMMA UnderAnother ==
  ASSUME NEW op, NEW other, other # NoPreset,
         NEW v \in DateValues, NEW w \in DateValues, Under(op, v) = Under(op, w)
  PROVE  Under(other, v) = Under(other, w)
  <1> DEFINE a == IF op = NoPreset THEN v.operator ELSE op
             b == IF op = NoPreset THEN w.operator ELSE op
  <1>1. [v EXCEPT !.operator = a] = [w EXCEPT !.operator = b]
    BY DEF Under
  <1> HIDE DEF a, b
  <1>2. /\ v.period = w.period /\ v.start = w.start /\ v.end = w.end
        /\ v.pick = w.pick /\ v.from = w.from /\ v.to = w.to
    BY <1>1 DEF DateValues
  <1>3. [v EXCEPT !.operator = other] = [w EXCEPT !.operator = other]
    BY <1>2 DEF DateValues
  <1> QED BY <1>3 DEF Under

\* What every input keeps: the renders to come are counted anew after it.
DateCore == DateTypeOK /\ RenderOK /\ Imposed /\ OneWay /\ Kept /\ Underway

---------------------------------------------------------------------------
(* A page that holds nothing has been told nothing.                         *)
LEMMA ReportedIsHeld ==
  ASSUME DateTypeOK, Current = emitted
  PROVE  /\ emitted \in DateValues /\ value \in DateValues /\ Reads(value)
         /\ Current \in DateValues
  <1>1. Current \in DateValues
    BY UnderIsBoth, UnderFacts DEF DateTypeOK
  <1>2. NoValue \notin DateValues
    BY DEF NoValue, DateValues
  <1> QED BY <1>1, <1>2 DEF DateTypeOK

(* A pick of the user, in any of the calendars and grids, keeps the          *)
(* selector, the page and the imposed operator in step.                      *)
LEMMA PickKeeps ==
  ASSUME NEW s, DateCore, Picked(s), s \in DateValues, Reads(s),
         s.operator = sel.operator \/ preset = NoPreset, rounds' \in Nat, crossed' = FALSE
  PROVE  DateCore'
  <1>1. /\ sel' = s /\ wanted' = NoValue /\ preset' = preset /\ value' = value
        /\ fresh' = fresh /\ render' = render /\ emitted' = emitted /\ focused' = focused
    BY DEF Picked
  <1>2. ~fresh /\ Current = emitted /\ render = NoRender
    BY DEF Picked, AtRest, Reported
  <1>3. DateTypeOK' /\ RenderOK'
    BY <1>1, <1>2 DEF DateCore, DateTypeOK, RenderOK
  <1>4. Imposed'
    BY <1>1, <1>2 DEF DateCore, Imposed, Pending
  <1>5. OneWay' /\ Underway'
    BY <1>1, <1>2 DEF OneWay, Underway, Pending
  <1>6. Kept'
    <2>1. Taken(value) = emitted
      BY <1>2 DEF DateCore, Kept
    <2>2. (Taken(value))' = emitted'
      BY <1>1, <2>1, UnderIsBoth, UnderIsBothNext
    <2> QED BY <2>2 DEF Kept
  <1> QED BY <1>3, <1>4, <1>5, <1>6 DEF DateCore

(* Completing a range in either direction.                                  *)
LEMMA ExtendedReads ==
  ASSUME NEW first \in Nat, NEW last \in Nat, NEW x \in Nat \ {0}
  PROVE  /\ Extended(first, last, x)[1] \in Nat \ {0} /\ Extended(first, last, x)[2] \in Nat
         /\ Extended(first, last, x)[2] > 0 =>
              /\ first > 0 /\ last = 0
              /\ Extended(first, last, x)[1] <= Extended(first, last, x)[2]
              /\ first \in {Extended(first, last, x)[1], Extended(first, last, x)[2]}
         /\ Extended(first, last, x)[2] = 0 =>
              Extended(first, last, x)[1] = x /\ (first = 0 \/ last > 0)
  BY DEF Extended

(* A click on a day.                                                        *)
LEMMA DayClickKeeps ==
  ASSUME NEW d \in Days, NEW h \in {0} \cup Days, DateCore, handleDayClick(d, h), rounds' \in Nat,
         crossed' = FALSE
  PROVE  DateCore'
  <1>1. sel \in DateValues /\ Reads(sel)
    BY DEF DateCore, DateTypeOK
  <1>2. HandedOn(d, h) \in Nat \ {0}
    <2>1. sel.start \in Nat /\ sel.end \in Nat /\ d \in Nat /\ h \in Nat
      BY <1>1, SelectorAssumption DEF DateValues
    <2>2. HandedOn(d, h) \in Nat
      BY <2>1 DEF HandedOn
    <2>3. HandedOn(d, h) > 0
      BY DEF handleDayClick
    <2> QED BY <2>2, <2>3
  <1>3. PICK r \in {IF PicksRange THEN Extended(sel.start, sel.end, HandedOn(d, h)) ELSE <<HandedOn(d, h), 0>>} :
          Picked([sel EXCEPT !.start = r[1], !.end = r[2]])
    BY DEF handleDayClick
  <1> DEFINE s == [sel EXCEPT !.start = r[1], !.end = r[2]]
  <1>4. /\ r[1] \in Nat \ {0} /\ r[2] \in Nat
        /\ r[2] > 0 => r[1] <= r[2]
    <2>1. CASE PicksRange
      <3>1. r = Extended(sel.start, sel.end, HandedOn(d, h))
        BY <1>3, <2>1
      <3>2. sel.start \in Nat /\ sel.end \in Nat
        BY <1>1 DEF DateValues
      <3> QED BY <3>1, <3>2, <1>2, ExtendedReads
    <2>2. CASE ~PicksRange
      <3>1. r = <<HandedOn(d, h), 0>>
        BY <1>3, <2>2
      <3> QED BY <3>1, <1>2
    <2> QED BY <2>1, <2>2
  <1>5. PICK a \in Nat \ {0}, b \in Nat : a = r[1] /\ b = r[2]
    BY <1>4
  <1>6. s = [sel EXCEPT !.start = a, !.end = b] /\ (b > 0 => a <= b)
    BY <1>4, <1>5
  <1>7. Picked(s)
    BY <1>3
  <1> HIDE DEF s
  <1>8. s \in DateValues /\ s.operator = sel.operator
    BY <1>1, <1>6 DEF DateValues
  <1>9. /\ s.start = a /\ s.end = b
        /\ s.from = sel.from /\ s.to = sel.to /\ s.pick = sel.pick
    BY <1>1, <1>6 DEF DateValues
  <1>10. Reads(s)
    BY <1>1, <1>6, <1>9 DEF Reads
  <1> QED BY <1>7, <1>8, <1>10, PickKeeps

(* A press in the grid of months, quarters, half-years or years.            *)
LEMMA PeriodSelectKeeps ==
  ASSUME NEW cell \in Nat \ {0}, DateCore, handlePeriodSelect(cell), rounds' \in Nat,
         crossed' = FALSE
  PROVE  DateCore'
  <1>1. sel \in DateValues /\ Reads(sel)
    BY DEF DateCore, DateTypeOK
  <1> DEFINE begins == ~PicksRange \/ sel.from = 0 \/ sel.to > 0
             r == IF PicksRange THEN Extended(sel.from, sel.to, cell) ELSE <<0, 0>>
             p == IF begins THEN cell ELSE sel.pick
             s == [sel EXCEPT !.from = r[1], !.to = r[2], !.pick = p]
  <1>2. Picked(s)
    BY DEF handlePeriodSelect
  <1>3. sel.from \in Nat /\ sel.to \in Nat /\ sel.pick \in Nat
    BY <1>1 DEF DateValues
  <1>4. /\ r[1] \in Nat /\ r[2] \in Nat /\ p \in Nat
        /\ r[2] > 0 => r[1] > 0 /\ r[1] <= r[2] /\ p \in {r[1], r[2]}
        /\ r[1] > 0 /\ r[2] = 0 => p = r[1]
    <2>1. CASE PicksRange
      <3> DEFINE e == Extended(sel.from, sel.to, cell)
      <3>1. /\ e[1] \in Nat \ {0} /\ e[2] \in Nat
            /\ e[2] > 0 => /\ sel.from > 0 /\ sel.to = 0 /\ e[1] <= e[2]
                           /\ sel.from \in {e[1], e[2]}
            /\ e[2] = 0 => e[1] = cell /\ (sel.from = 0 \/ sel.to > 0)
        BY <1>3 DEF Extended
      <3>2. r = e
        BY <2>1
      <3>3. sel.from > 0 /\ sel.to = 0 => sel.pick = sel.from
        BY <1>1 DEF Reads
      <3> HIDE DEF e, r
      <3>4. e[2] > 0 => ~begins
        BY <3>1, <2>1, <1>3
      <3>5. e[2] = 0 => begins
        BY <3>1, <2>1
      <3> QED BY <1>3, <3>1, <3>2, <3>3, <3>4, <3>5
    <2>2. CASE ~PicksRange
      BY <2>2, <1>3
    <2> QED BY <2>1, <2>2
  <1> HIDE DEF r, p
  <1>5. s \in DateValues /\ s.operator = sel.operator /\ Reads(s)
    BY <1>1, <1>4 DEF DateValues, Reads
  <1> QED BY <1>2, <1>5, PickKeeps

(* A selector with nothing picked.                                          *)
LEMMA UnpickedReads ==
  ASSUME NEW p \in PeriodTypes \cup {"year", "quarter", "day"}, NEW op \in Operators
  PROVE  /\ Unpicked(p, op) \in DateValues /\ Reads(Unpicked(p, op))
         /\ Unpicked(p, op).operator = op
  BY DEF Unpicked, DateValues, Reads

(* The presses that empty the picks.                                        *)
LEMMA ResetKeeps ==
  ASSUME DateCore, rounds' \in Nat, crossed' = FALSE,
         \/ \E p \in PeriodTypes : handlePeriodTypeChange(p)
         \/ \E op \in Operators : handleFilterTypeChange(op)
         \/ clearPicks
  PROVE  DateCore'
  <1>1. sel.operator \in Operators /\ sel.period \in PeriodTypes \cup {"year", "quarter", "day"}
    BY DEF DateCore, DateTypeOK, DateValues
  <1>2. ASSUME NEW p \in PeriodTypes, handlePeriodTypeChange(p) PROVE DateCore'
    BY <1>1, <1>2, UnpickedReads, PickKeeps DEF handlePeriodTypeChange
  <1>3. ASSUME NEW op \in Operators, handleFilterTypeChange(op) PROVE DateCore'
    BY <1>1, <1>3, UnpickedReads, PickKeeps DEF handleFilterTypeChange
  <1>4. CASE clearPicks
    BY <1>1, <1>4, UnpickedReads, PickKeeps DEF clearPicks
  <1> QED BY <1>2, <1>3, <1>4

(* Steps that touch neither the value nor what was reported of it.          *)
LEMMA QuietKeeps ==
  ASSUME DateCore, UNCHANGED <<sel, preset, value, fresh, render, emitted, wanted>>,
         focused' \in BOOLEAN, rounds' \in Nat,
         crossed' = crossed \/ (crossed' = FALSE /\ AtRest)
  PROVE  DateCore'
  <1>1. Current' = Current /\ (Taken(value))' = Taken(value)
    BY DEF Current, Taken
  <1>2. crossed' = FALSE /\ AtRest => ~Pending /\ render = NoRender
    BY DEF AtRest, Reported, Pending
  <1>3. Pending' = Pending
    BY DEF Pending
  <1>4. DateTypeOK' /\ Imposed' /\ Kept'
    BY <1>1, <1>2, <1>3 DEF DateCore, DateTypeOK, Imposed, Kept
  <1>6. RenderOK'
    <2>1. Taken(render.value)' = Taken(render.value)
      BY DEF Taken
    <2> QED BY <1>1, <1>2, <2>1 DEF DateCore, RenderOK
  <1>5. OneWay' /\ Underway'
    BY <1>1, <1>2, <1>3 DEF DateCore, DateTypeOK, OneWay, Underway
  <1> QED BY <1>4, <1>5, <1>6 DEF DateCore

(* A new value of the page, typed or its own, that the selector has not     *)
(* seen yet.                                                                *)
LEMMA NewValueKeeps ==
  ASSUME NEW v \in DateValues, DateCore, Reads(v), Reported,
         value' = v, fresh' = TRUE, wanted' = Under(preset, v), crossed' = FALSE,
         UNCHANGED <<sel, preset, render, emitted, focused>>, rounds' \in Nat
  PROVE  DateCore'
  <1>1. preset \in Presets \cup {NoPreset}
    BY DEF DateCore, DateTypeOK
  <1>2. Current' = emitted' /\ render' = NoRender
    BY UnderIsBoth, UnderIsBothNext DEF Reported
  <1>3. (Taken(value))' = wanted' /\ wanted' \in DateValues
    BY <1>1, UnderFacts, UnderIsBothNext
  <1>4. NoValue \notin DateValues
    BY DEF NoValue, DateValues
  <1>5. DateTypeOK'
    BY <1>3, <1>4 DEF DateCore, DateTypeOK
  <1> QED BY <1>2, <1>3, <1>5 DEF DateCore, RenderOK, Imposed, OneWay, Kept, Underway, Pending

(* A new value of the page that crosses a report of the selector's own.     *)
LEMMA CrossingKeeps ==
  ASSUME NEW v \in DateValues, DateCore, Reads(v),
         value' = v, fresh' = TRUE, wanted' = NoValue, crossed' = TRUE,
         UNCHANGED <<sel, preset, render, emitted, focused>>, rounds' \in Nat
  PROVE  DateCore'
  <1>1. Current' = Current /\ \A w : Taken(w)' = Taken(w)
    BY DEF Current, Taken
  <1>2. NoValue \notin DateValues
    BY DEF NoValue, DateValues
  <1>3. DateTypeOK'
    BY <1>2 DEF DateCore, DateTypeOK
  <1>4. RenderOK'
    BY <1>1 DEF DateCore, RenderOK, Taken
  <1> QED BY <1>1, <1>3, <1>4 DEF DateCore, Imposed, OneWay, Kept, Underway, Pending

(* What the field is read as.                                               *)
LEMMA ParsedReads ==
  ASSUME NEW t \in TypedDates, DateCore, Readable(t)
  PROVE  /\ Parsed(t) \in DateValues /\ Reads(Parsed(t))
         /\ Under(preset, Parsed(t)) = Parsed(t)
  <1> DEFINE op == Current.operator
  <1>1. preset \in Presets \cup {NoPreset} /\ sel \in DateValues
    BY DEF DateCore, DateTypeOK
  <1>2. op \in Operators /\ (preset # NoPreset => op = preset)
    BY <1>1, UnderIsBoth, UnderFacts DEF DateValues
  <1>3. t.form \in {"year", "quarter", "day"} /\ t.a \in Nat
    <2>1. t.form \in {"year", "quarter", "day"}
      BY DEF Readable
    <2>2. \A y \in Years : y * 100 \in Nat
      BY SelectorAssumption
    <2>3. \A d \in Days : d \in Nat
      BY SelectorAssumption
    <2>4. CASE t = BlankText \/ t = [form |-> "junk", a |-> 0, b |-> 0]
      BY <2>1, <2>4 DEF BlankText
    <2>5. CASE t \in {[form |-> f, a |-> y * 100, b |-> 0] : f \in {"quarter", "year"}, y \in Years}
      BY <2>1, <2>2, <2>5
    <2>6. CASE t \in {[form |-> "day", a |-> d, b |-> 0] : d \in Days}
      BY <2>1, <2>3, <2>6
    <2> QED BY <2>4, <2>5, <2>6 DEF TypedDates
  <1> HIDE DEF op
  <1>4. PICK f \in {"year", "quarter", "day"}, a \in Nat : f = t.form /\ a = t.a
    BY <1>3
  <1> DEFINE b == IF f = "day" THEN a ELSE 0
             c == IF f = "day" THEN 0 ELSE a
  <1>5. Parsed(t) = [Unpicked(f, op) EXCEPT !.start = b, !.pick = c]
    BY <1>4 DEF Parsed, op
  <1>6. b \in Nat /\ c \in Nat
    OBVIOUS
  <1> HIDE DEF b, c
  <1>7. Parsed(t) = [period |-> f, operator |-> op, start |-> b, end |-> 0, pick |-> c,
                     from |-> 0, to |-> 0]
    BY <1>5 DEF Unpicked
  <1>8. Parsed(t) \in DateValues /\ Parsed(t).operator = op /\ Reads(Parsed(t))
    BY <1>2, <1>6, <1>7 DEF DateValues, Reads
  <1> QED BY <1>1, <1>2, <1>8, UnderFacts

(* The values a page keeps read like any other.                             *)
LEMMA PageValuesRead ==
  ASSUME NEW v \in Stored
  PROVE  v \in DateValues /\ Reads(v)
  <1>1. /\ v.from <= v.to /\ (v.end > 0 => v.operator = "between" /\ v.start <= v.end)
        /\ v.period \in PeriodTypes
        /\ v \in {DayValue(op, d, e) : op \in {"is", "between"}, d \in Days, e \in {0} \cup Days}
                  \cup {RangeValue(p, y * 100, z * 100) :
                          p \in PeriodTypes \ {"day"}, y \in Years, z \in Years}
    BY SelectorAssumption DEF PageValues
  <1>2. CASE v \in {DayValue(op, d, e) : op \in {"is", "between"}, d \in Days, e \in {0} \cup Days}
    <2>1. PICK op \in {"is", "between"}, d \in Days, e \in {0} \cup Days : v = DayValue(op, d, e)
      BY <1>2
    <2>2. d \in Nat \ {0} /\ e \in Nat
      BY SelectorAssumption
    <2>3. v = [period |-> "day", operator |-> op, start |-> d, end |-> e, pick |-> 0,
               from |-> 0, to |-> 0]
      BY <2>1 DEF DayValue, Unpicked
    <2> QED BY <1>1, <2>2, <2>3 DEF DateValues, Reads, Operators
  <1>3. CASE v \in {RangeValue(p, y * 100, z * 100) :
                      p \in PeriodTypes \ {"day"}, y \in Years, z \in Years}
    <2>1. PICK p \in PeriodTypes \ {"day"}, y \in Years, z \in Years :
            v = RangeValue(p, y * 100, z * 100)
      BY <1>3
    <2>2. PICK k \in Nat \ {0}, l \in Nat \ {0} : k = y * 100 /\ l = z * 100
      BY SelectorAssumption
    <2>3. v = [period |-> p, operator |-> "between", start |-> 0, end |-> 0, pick |-> k,
               from |-> k, to |-> l]
      <3>1. v = RangeValue(p, k, l)
        BY <2>1, <2>2
      <3> QED BY <3>1, Zenon DEF RangeValue, Unpicked
    <2> QED BY <1>1, <2>2, <2>3 DEF DateValues, Reads, Operators
  <1> QED BY <1>1, <1>2, <1>3

(* Every input of the user and of the page keeps the selector, the page and *)
(* the imposed operator in step.                                            *)
LEMMA InputKeeps ==
  ASSUME DateCore, DateInput, rounds' = 0, crossed' = ~Reported
  PROVE  DateCore'
  <1>1. /\ sel \in DateValues /\ focused \in BOOLEAN /\ rounds' \in Nat
        /\ preset \in Presets \cup {NoPreset} /\ (AtRest => crossed' = FALSE /\ Reported)
    BY DEF DateCore, DateTypeOK, AtRest
  <1>2. CASE clearPicks \/ (\E p \in PeriodTypes : handlePeriodTypeChange(p))
             \/ (\E op \in Operators : handleFilterTypeChange(op))
    <2>1. AtRest
      BY <1>2 DEF clearPicks, handlePeriodTypeChange, handleFilterTypeChange, Picked
    <2> QED BY <1>1, <1>2, <2>1, ResetKeeps
  <1>3. CASE Focus \/ handleInputBlur \/ \E m \in Days : ShowMonth(m)
    BY <1>1, <1>3, QuietKeeps DEF Focus, handleInputBlur, ShowMonth
  <1>4. CASE \E d \in Days, h \in {0} \cup Days : handleDayClick(d, h)
    <2>1. PICK d \in Days, h \in {0} \cup Days : handleDayClick(d, h)
      BY <1>4
    <2>2. AtRest
      BY <2>1 DEF handleDayClick, Picked
    <2> QED BY <1>1, <2>1, <2>2, DayClickKeeps
  <1>5. ASSUME NEW y \in Years, handleYearSelect(y) \/ \E i \in Indexes : PickPeriod(y, i)
        PROVE  DateCore'
    <2>1. y * 100 \in Nat \ {0} /\ \A i \in Indexes : y * 100 + i \in Nat \ {0}
      BY SelectorAssumption
    <2>2. AtRest
      <3>1. ASSUME NEW n, handlePeriodSelect(n) PROVE AtRest
        BY <3>1 DEF handlePeriodSelect, Picked
      <3> QED BY <1>5, <3>1 DEF handleYearSelect, PickPeriod
    <2> QED BY <1>1, <1>5, <2>1, <2>2, PeriodSelectKeeps DEF handleYearSelect, PickPeriod
  <1>6. ASSUME NEW t \in TypedDates, handleInputChange(t) PROVE DateCore'
    <2>1. CASE Readable(t)
      <3>1. /\ AtRest /\ value' = Parsed(t) /\ fresh' = TRUE /\ wanted' = Parsed(t)
            /\ UNCHANGED <<sel, preset, render, emitted, focused>>
        BY <1>6, <2>1 DEF handleInputChange
      <3>2. Parsed(t) \in DateValues /\ Reads(Parsed(t)) /\ Under(preset, Parsed(t)) = Parsed(t)
        BY <2>1, ParsedReads
      <3>3. PICK v \in DateValues : v = Parsed(t)
        BY <3>2
      <3> QED BY <1>1, <3>1, <3>2, <3>3, NewValueKeeps
    <2>2. CASE ~Readable(t)
      BY <1>1, <1>6, <2>2, QuietKeeps DEF handleInputChange
    <2> QED BY <2>1, <2>2
  <1>7. ASSUME NEW v \in Stored, SetValue(v) PROVE DateCore'
    <2>1. /\ value' = v /\ fresh' = TRUE /\ UNCHANGED <<sel, preset, render, emitted, focused>>
          /\ wanted' = IF Reported THEN Under(preset, v) ELSE NoValue
      BY <1>7 DEF SetValue, Taken
    <2>2. CASE Reported
      BY <1>1, <2>1, <2>2, PageValuesRead, NewValueKeeps
    <2>3. CASE ~Reported
      BY <1>1, <2>1, <2>3, PageValuesRead, CrossingKeeps
    <2> QED BY <2>2, <2>3
  <1>8. ASSUME NEW op \in Presets \cup {NoPreset}, SetPreset(op) PROVE DateCore'
    <2>1. /\ ~fresh /\ render = NoRender /\ Current = emitted /\ op # preset /\ preset' = op
          /\ fresh' = TRUE /\ wanted' = NoValue /\ crossed' = FALSE
          /\ UNCHANGED <<sel, value, render, emitted, focused>>
      BY <1>1, <1>8 DEF SetPreset, AtRest, Reported
    <2>2. value \in DateValues /\ Under(preset, value) = Under(preset, sel)
      BY <2>1, ReportedIsHeld, UnderIsBoth DEF DateCore, Kept
    <2>3. NoValue \notin DateValues
      BY DEF NoValue, DateValues
    <2>4. DateTypeOK' /\ RenderOK' /\ Imposed' /\ Kept' /\ Underway'
      BY <2>1, <2>2, <2>3, <1>1 DEF DateCore, DateTypeOK, RenderOK, Imposed, Kept, Underway, Pending
    <2>5. CASE op = NoPreset
      <3>1. sel.operator = preset
        BY <2>1, <2>5 DEF DateCore, Imposed, Pending
      <3>2. Under(op, sel) = sel /\ Under(preset, sel) = sel
        BY <1>1, <2>5, <3>1, UnderFacts
      <3>3. Current' = emitted'
        BY <2>1, <3>2, UnderIsBoth, UnderIsBothNext
      <3> QED BY <3>3, <2>4 DEF DateCore, OneWay
    <2>6. CASE op # NoPreset
      <3>1. Under(op, value) = Under(op, sel)
        BY <1>1, <2>2, <2>6, UnderAnother
      <3>2. (Taken(value))' = Current'
        BY <2>1, <3>1, UnderIsBothNext
      <3> QED BY <3>2, <2>4 DEF DateCore, OneWay
    <2> QED BY <2>5, <2>6
  <1> QED BY <1>2, <1>3, <1>4, <1>5, <1>6, <1>7, <1>8 DEF DateInput

(* A render only closes over what is there.                                 *)
LEMMA RenderKeeps ==
  ASSUME DateCore, Render, UNCHANGED <<rounds, crossed>>
  PROVE  DateCore' /\ Remaining' = Remaining
  <1>1. /\ render = NoRender /\ ~AtRest /\ render' = Snapshot(fresh) /\ fresh' = FALSE
        /\ UNCHANGED <<sel, preset, value, emitted, focused, wanted>>
    BY DEF Render
  <1>2. Current' = Current /\ \A w : Taken(w)' = Taken(w)
    BY <1>1 DEF Current, Taken
  <1>3. /\ render' # NoRender /\ (render.value)' = value /\ (render.fresh)' = fresh
        /\ (render.current)' = Current
    BY <1>1 DEF Snapshot, NoRender
  <1>4. Pending' = Pending
    BY <1>1, <1>3 DEF Pending
  <1>5. DateTypeOK' /\ RenderOK'
    BY <1>1, <1>2, <1>3 DEF DateCore, DateTypeOK, RenderOK, Kept, Taken
  <1>6. Imposed' /\ OneWay' /\ Kept' /\ Underway'
    BY <1>1, <1>2, <1>3, <1>4 DEF DateCore, Imposed, OneWay, Kept, Underway, Taken
  <1>7. ~AtRest'
    BY <1>3 DEF AtRest, Reported
  <1>8. Remaining' = Remaining
    BY <1>1, <1>2, <1>4, <1>7 DEF Remaining, Taken
  <1> QED BY <1>5, <1>6, <1>8 DEF DateCore

(* The effects of a render keep them in step too, and, unless a value       *)
(* crossed a report, leave fewer renders to come.                           *)
LEMMA EffectsSettle ==
  ASSUME DateCore, Effects, rounds' \in Nat, crossed' = crossed
  PROVE  DateCore' /\ (~crossed => Remaining' < Remaining)
  <1> DEFINE v == render.value
             f == render.fresh
  <1>1. /\ sel \in DateValues /\ Reads(sel) /\ focused \in BOOLEAN /\ fresh \in BOOLEAN
        /\ preset \in Presets \cup {NoPreset} /\ (fresh => value # NoValue)
        /\ (value = NoValue \/ (value \in DateValues /\ Reads(value)))
        /\ (wanted = NoValue \/ wanted \in DateValues) /\ crossed \in BOOLEAN
    BY DEF DateCore, DateTypeOK
  <1>2. /\ Current \in DateValues /\ Reads(Current) /\ Current = Under(preset, sel)
        /\ Under(preset, Current) = Current
    BY <1>1, UnderIsBoth, UnderFacts
  <1>3. NoValue \notin DateValues
    BY DEF NoValue, DateValues
  <1>4. /\ emitted' = Current /\ preset' = preset /\ focused' = focused /\ wanted' = wanted
        /\ (focused \/ field' = Format(Current))
        /\ sel' = IF f THEN Under(preset, v) ELSE sel
        /\ IF Current # emitted THEN value' = Current /\ fresh' = TRUE
                                ELSE fresh' = fresh /\ value' = value
        /\ render' = NoRender /\ ~AtRest
        /\ f \in BOOLEAN /\ (f => v \in DateValues /\ Reads(v)) /\ (~fresh => value = v)
        /\ (~f /\ Current = emitted => Under(preset, v) = Current)
        /\ Pending = f /\ Pending' = fresh'
    BY UnderIsBoth DEF Effects, Reports, DateCore, RenderOK, AtRest, Reported, Pending
  <1> HIDE DEF v, f
  <1>5. /\ sel' \in DateValues /\ Reads(sel') /\ Current' = sel'
        /\ (preset # NoPreset => sel'.operator = preset)
    <2>1. CASE f
      BY <1>1, <1>4, <2>1, UnderIsBothNext, UnderFacts
    <2>2. CASE ~f
      <3>1. preset # NoPreset => sel.operator = preset
        BY <1>4, <2>2 DEF DateCore, Imposed
      <3> QED BY <1>1, <1>4, <2>2, <3>1, UnderIsBothNext, UnderFacts
    <2> QED BY <1>4, <2>1, <2>2
  <1>6. DateTypeOK' /\ RenderOK' /\ Imposed'
    <2>1. value' \in DateValues /\ Reads(value')
      BY <1>1, <1>2, <1>3, <1>4 DEF DateCore, DateTypeOK
    <2> QED BY <1>1, <1>2, <1>3, <1>4, <1>5, <2>1 DEF DateTypeOK, RenderOK, Imposed
  <1>7. (Taken(value))' = Under(preset, value')
    BY <1>4, UnderIsBothNext
  <1>8. Kept'
    <2> SUFFICES ASSUME ~fresh', Current' = emitted' PROVE Under(preset, value') = Current'
      BY <1>7 DEF Kept
    <2>1. Current = emitted /\ ~fresh /\ value' = v
      BY <1>4
    <2> QED BY <1>4, <1>5, <2>1
  <1>9. CASE crossed
    <2>1. OneWay' /\ Underway'
      BY <1>4, <1>9 DEF DateCore, OneWay, Underway
    <2> QED BY <1>6, <1>8, <1>9, <2>1 DEF DateCore
  <1>10. CASE ~crossed
    <2>1. ~fresh /\ value = v
      BY <1>4, <1>10 DEF DateCore, RenderOK, Effects
    <2>2. CASE Current # emitted
      <3>1. value' = Current /\ fresh' = TRUE /\ (Taken(value))' = Current
        BY <1>2, <1>4, <1>7, <2>2
      <3>2. Current' = Current
        <4>1. CASE f
          BY <1>4, <1>5, <1>10, <2>1, <2>2, <4>1, UnderIsBoth DEF DateCore, OneWay
        <4>2. CASE ~f
          BY <1>2, <1>4, <4>2, UnderIsBothNext
        <4> QED BY <1>4, <4>1, <4>2
      <3>3. OneWay'
        BY <3>1, <3>2 DEF OneWay
      <3>4. Underway'
        BY <1>4, <1>10, <2>1, <2>2, <3>1, <3>2 DEF DateCore, Underway
      <3>5. Remaining' = 1 /\ Remaining = 2
        BY <1>4, <2>2, <3>1, <3>2 DEF Remaining
      <3> QED BY <1>6, <1>8, <3>3, <3>4, <3>5 DEF DateCore
    <2>3. CASE Current = emitted
      <3>1. value' = value /\ fresh' = FALSE /\ emitted' = emitted
        BY <1>4, <2>1, <2>3
      <3>2. OneWay'
        BY <1>4, <3>1 DEF OneWay
      <3>3. Current' = Under(preset, value) /\ Under(preset, value) = Taken(value)
        <4>1. CASE f
          BY <1>4, <1>5, <2>1, <4>1, UnderIsBoth
        <4>2. CASE ~f
          BY <1>2, <1>4, <2>1, <2>3, <4>2, UnderIsBoth, UnderIsBothNext
        <4> QED BY <1>4, <4>1, <4>2
      <3>4. Underway'
        <4>1. CASE f
          BY <1>4, <1>10, <3>1, <3>3, <4>1 DEF DateCore, Underway
        <4>2. CASE ~f
          <5>1. Current' = Current
            BY <1>2, <1>4, <4>2, UnderIsBothNext
          <5> QED BY <1>4, <1>10, <3>1, <4>2, <5>1 DEF DateCore, Underway
        <4> QED BY <1>4, <4>1, <4>2
      <3>5. CASE Taken(value) = Current
        <4>1. Current' = emitted' /\ Current' = Current
          BY <1>4, <3>3, <3>5
        <4>2. (Format(Current))' = Format(Current') /\ (focused' \/ field' = Format(Current'))
          BY <1>4, <4>1 DEF Format
        <4>3. AtRest'
          BY <1>4, <3>1, <4>1, <4>2 DEF AtRest, Reported
        <4>4. Remaining' = 0 /\ Remaining = 1
          BY <1>4, <2>3, <3>1, <3>5, <4>1, <4>3 DEF Remaining
        <4> QED BY <1>6, <1>8, <3>2, <3>4, <4>4 DEF DateCore
      <3>6. CASE Taken(value) # Current
        <4>1. f /\ Remaining = 3
          BY <1>4, <2>1, <2>3, <3>6, UnderIsBoth DEF Remaining
        <4>2. Remaining' \in {0, 1, 2}
          BY <1>4, <3>1 DEF Remaining
        <4> QED BY <1>6, <1>8, <3>2, <3>4, <4>1, <4>2 DEF DateCore
      <3> QED BY <3>5, <3>6
    <2> QED BY <2>2, <2>3
  <1> QED BY <1>1, <1>9, <1>10

(* Three renders are the most an input leaves to come.                      *)
LEMMA RemainingBound == Remaining \in 0..3
  BY DEF Remaining

(* The selector, the page and the field agree whenever the effects have run, *)
(* wherever between a render and its effects the page sets values of its     *)
(* own; and, as long as none of these crosses a report, a value it sets is    *)
(* kept and the effects have run three renders after any input: for any       *)
(* calendar, any periods and any operators the page imposes.                  *)
THEOREM DateSelectorKeepsPicks == DateSpec => []PicksAreKept
  <1>1. DateInit => DateInv
    <2> SUFFICES ASSUME DateInit PROVE DateInv
      OBVIOUS
    <2>1. preset \in Presets \cup {NoPreset} /\ NoValue \notin DateValues
      BY DEF DateInit, NoValue, DateValues
    <2>2. /\ sel \in DateValues /\ Reads(sel) /\ (preset # NoPreset => sel.operator = preset)
          /\ value # NoValue => value \in DateValues /\ Reads(value) /\ sel = Under(preset, value)
      <3>1. CASE value = NoValue /\
                 \E p \in PeriodTypes : sel = Unpicked(p, IF preset = NoPreset THEN "is" ELSE preset)
        <4>1. (IF preset = NoPreset THEN "is" ELSE preset) \in Operators
          BY <2>1, SelectorAssumption DEF Operators
        <4> QED BY <3>1, <4>1, UnpickedReads
      <3>2. CASE value \in Stored /\ sel = Under(preset, value)
        BY <2>1, <3>2, PageValuesRead, UnderFacts
      <3> QED BY <3>1, <3>2 DEF DateInit
    <2>3. Current \in DateValues /\ Current = sel
      BY <2>1, <2>2, UnderIsBoth, UnderFacts
    <2>4. /\ Current # emitted /\ emitted = NoValue /\ fresh = FALSE /\ crossed = FALSE /\ rounds = 0
          /\ wanted = NoValue /\ focused = FALSE
      BY <2>1, <2>3 DEF DateInit
    <2>5. /\ render # NoRender /\ render.value = value /\ render.current = Current
          /\ render.fresh = (value # NoValue)
      BY DEF DateInit, Snapshot, NoRender
    <2>6. Pending = (value # NoValue)
      BY <2>5 DEF Pending
    <2>7. DateTypeOK
      BY <2>1, <2>2, <2>4 DEF DateTypeOK
    <2>8. RenderOK
      BY <2>2, <2>4, <2>5 DEF RenderOK
    <2>9. Imposed /\ OneWay /\ Kept /\ Underway
      <3>1. value # NoValue => Taken(value) = Current
        BY <2>2, <2>3 DEF Taken
      <3> QED BY <2>2, <2>4, <2>5, <2>6, <3>1 DEF Imposed, OneWay, Kept, Underway
    <2>10. Remaining = 2
      BY <2>4 DEF Remaining
    <2> QED BY <2>4, <2>7, <2>8, <2>9, <2>10 DEF DateInv
  <1>2. DateInv /\ [DateNext]_dateVars => DateInv'
    <2> SUFFICES ASSUME DateInv, [DateNext]_dateVars PROVE DateInv'
      OBVIOUS
    <2>1. /\ DateCore /\ rounds \in Nat /\ Remaining \in 0..3
          /\ IF crossed THEN rounds = 0 ELSE rounds + Remaining <= 3
      BY RemainingBound DEF DateInv, DateCore, DateTypeOK
    <2>2. Remaining' \in 0..3
      BY DEF Remaining
    <2>3. CASE DateInput /\ rounds' = 0 /\ crossed' = ~Reported
      <3>1. DateCore'
        BY <2>1, <2>3, InputKeeps
      <3>2. rounds' = 0 /\ rounds' + Remaining' <= 3
        <4>1. PICK l \in 0..3 : l = Remaining'
          BY <2>2
        <4>2. rounds' + l <= 3
          BY <2>3
        <4> QED BY <2>3, <4>1, <4>2, Zenon
      <3> QED BY <3>1, <3>2, Zenon DEF DateInv, DateCore
    <2>4. CASE Render /\ UNCHANGED <<rounds, crossed>>
      <3>1. DateCore' /\ Remaining' = Remaining
        BY <2>1, <2>4, RenderKeeps
      <3>2. IF crossed' THEN rounds' = 0 ELSE rounds' + Remaining' <= 3
        BY <2>1, <2>4, <3>1, Zenon
      <3> QED BY <3>1, <3>2, Zenon DEF DateInv, DateCore
    <2>5. CASE Effects /\ rounds' = (IF crossed THEN 0 ELSE rounds + 1) /\ UNCHANGED crossed
      <3>1. DateCore' /\ (~crossed => Remaining' < Remaining)
        BY <2>1, <2>5, EffectsSettle
      <3>2. IF crossed' THEN rounds' = 0 ELSE rounds' + Remaining' <= 3
        <4>1. CASE crossed
          BY <2>5, <4>1, Zenon
        <4>2. CASE ~crossed
          <5>1. PICK k \in 0..3, l \in 0..3 : k = Remaining /\ l = Remaining'
            BY <2>1, <2>2
          <5>2. rounds + k <= 3 /\ l < k /\ rounds' = rounds + 1
            BY <2>1, <2>5, <3>1, <4>2, <5>1
          <5>3. rounds' + l <= 3
            BY <2>1, <5>2
          <5> QED BY <2>5, <4>2, <5>1, <5>3, Zenon
        <4> QED BY <4>1, <4>2
      <3> QED BY <3>1, <3>2, Zenon DEF DateInv, DateCore
    <2>6. CASE UNCHANGED dateVars
      <3>1. Current' = Current /\ (Taken(value))' = Taken(value) /\ Pending' = Pending
        BY <2>6 DEF dateVars, Current, Taken, Pending
      <3>2. AtRest' = AtRest
        BY <2>6, <3>1 DEF dateVars, AtRest, Reported, Format
      <3>3. Remaining' = Remaining
        BY <2>6, <3>1, <3>2 DEF dateVars, Remaining
      <3>4. DateCore'
        BY <2>1, <2>6, QuietKeeps DEF dateVars, DateCore, DateTypeOK
      <3>5. rounds' = rounds /\ crossed' = crossed
        BY <2>6 DEF dateVars
      <3>6. IF crossed' THEN rounds' = 0 ELSE rounds' + Remaining' <= 3
        BY <2>1, <3>3, <3>5, Zenon
      <3> QED BY <3>4, <3>6, Zenon DEF DateInv, DateCore
    <2> QED BY <2>3, <2>4, <2>5, <2>6 DEF DateNext
  <1>3. DateInv => PicksAreKept
    <2> SUFFICES ASSUME DateInv PROVE PicksAreKept
      OBVIOUS
    <2>1. RangeReads
      BY DEF DateInv, DateTypeOK, Reads, RangeReads
    <2>2. ValueIsKept
      BY DEF DateInv, Kept, Underway, ValueIsKept, AtRest, Reported, Pending
    <2>3. SelectorSettles
      BY RemainingBound DEF DateInv, DateTypeOK, SelectorSettles
    <2> QED BY <2>1, <2>2, <2>3 DEF PicksAreKept
  <1> QED BY <1>1, <1>2, <1>3, PTL DEF DateSpec

-----------------------------------------------------------------------------
(* The site library                                                         *)

BarTypeOK ==
  /\ q \in Words /\ debouncedQ \in Words /\ filter \in Words
  /\ chips \in Chips /\ statusFilter \in Chips
  /\ early \in BOOLEAN /\ failed \in BOOLEAN

MapTypeOK ==
  /\ map \in {"none", "creating", "created", "loaded"}
  /\ frame \subseteq Areas /\ viewport \subseteq Areas
  /\ positioned \in BOOLEAN /\ emitting \in BOOLEAN /\ missed \in BOOLEAN

\* The keys the cache may hold.
Keys == Words \X Chips \X SUBSET Areas

SitesTypeOK == BarTypeOK /\ MapTypeOK /\ view \in {"table", "map"} /\ held \subseteq Keys

\* What the page was handed last.
Handed == ~failed => statusFilter = chips /\ (~early => filter = debouncedQ)

\* There is a map in the map view and nowhere else, and a report is only ever
\* due from a map whose place means something.
Mounted ==
  /\ map = "none" <=> (view = "table" \/ failed)
  /\ emitting => positioned
  /\ positioned => map \in {"created", "loaded"}

\* There is nothing in a bar that is not there.
BarGone == failed => q = "" /\ debouncedQ = "" /\ chips = {}

SitesInv == SitesTypeOK /\ Handed /\ Mounted /\ BarGone /\ ListFollowsMap

---------------------------------------------------------------------------
(* The areas of points are areas of the map. *)
LEMMA BoundsAreAreas ==
  ASSUME NEW ps, ps \subseteq DOMAIN AreaOf
  PROVE  bounds(ps) \subseteq Areas
BY SitesAssumption DEF bounds

(* Steps that leave the map, the view and what was reported alone.          *)
LEMMA MapStays ==
  ASSUME MapTypeOK /\ Mounted /\ ListFollowsMap,
         UNCHANGED <<mapVars, view, viewport, failed, missed>>
  PROVE  (MapTypeOK /\ Mounted /\ ListFollowsMap)'
<1>1. MapTypeOK'
  BY DEF MapTypeOK, mapVars
<1>2. Mounted'
  BY DEF Mounted, mapVars
<1>3. ListFollowsMap'
  BY DEF ListFollowsMap, mapVars
<1> QED BY <1>1, <1>2, <1>3

(* Steps that leave the bar alone.                                          *)
LEMMA BarStays ==
  ASSUME BarTypeOK /\ Handed /\ BarGone, UNCHANGED <<barVars, failed>>
  PROVE  (BarTypeOK /\ Handed /\ BarGone)'
<1>1. BarTypeOK'
  BY DEF BarTypeOK, barVars
<1>2. Handed' /\ BarGone'
  BY DEF Handed, BarGone, barVars
<1> QED BY <1>1, <1>2

(* A placement keeps the map's part of the invariant: it is the only step  *)
(* of the map that a change of the list's key or answer causes.            *)
LEMMA PlacedKeeps ==
  ASSUME SitesInv, Placed, UNCHANGED <<view, viewport, failed, missed>>
  PROVE  (MapTypeOK /\ Mounted /\ ListFollowsMap)'
<1>1. bounds(points') \subseteq Areas
  BY BoundsAreAreas DEF points
<1>2. CASE map \in {"created", "loaded"} /\ ~positioned /\ points' # points /\ points' # {}
  BY <1>1, <1>2 DEF SitesInv, SitesTypeOK, MapTypeOK, Mounted, BarGone, ListFollowsMap, Placed
<1>3. CASE ~(map \in {"created", "loaded"} /\ ~positioned /\ points' # points /\ points' # {})
  <2>1. UNCHANGED mapVars
    BY <1>3 DEF Placed
  <2> QED BY <2>1, MapStays DEF SitesInv, SitesTypeOK
<1> QED BY <1>2, <1>3

(* The page opens in a state of the invariant.                              *)
LEMMA SitesInitHolds == SitesInit => SitesInv
BY SitesAssumption
   DEF SitesInit, SitesInv, SitesTypeOK, BarTypeOK, MapTypeOK, Keys, Handed, Mounted, BarGone, ListFollowsMap

(* Every step of the library keeps its invariant.                           *)
LEMMA SitesStepKeeps ==
  ASSUME SitesInv, OnPage, ~failed, UNCHANGED failed
  PROVE  SitesInv'
<1> USE DEF SitesInv, SitesTypeOK
<1>1. CASE BoxSettles
  <2>1. (BarTypeOK /\ Handed /\ BarGone)' /\ UNCHANGED <<view, viewport, failed, missed, held>> /\ Placed
    BY <1>1 DEF BoxSettles, BarTypeOK, Handed, BarGone
  <2>2. (MapTypeOK /\ Mounted /\ ListFollowsMap)'
    BY <2>1, PlacedKeeps
  <2> QED BY <2>1, <2>2 DEF Keys
<1>2. CASE ListArrives
  <2>1. (BarTypeOK /\ Handed /\ BarGone)' /\ UNCHANGED <<view, viewport, failed, missed>> /\ Placed
    BY <1>2 DEF ListArrives, BarTypeOK, Handed, BarGone, barVars
  <2>2. (MapTypeOK /\ Mounted /\ ListFollowsMap)'
    BY <2>1, PlacedKeeps
  <2>3. key \in Keys
    BY DEF key, Keys, BarTypeOK, MapTypeOK
  <2>4. (held \subseteq Keys)'
    BY <2>3, <1>2 DEF ListArrives, Keys
  <2> QED BY <2>1, <2>2, <2>4
<1>3. CASE Created
  <2>1. bounds(points) \subseteq Areas
    BY BoundsAreAreas DEF points
  <2> QED BY <1>3, <2>1 DEF Created, barVars, BarTypeOK, MapTypeOK, Handed, Mounted, BarGone, ListFollowsMap, Keys
<1>4. CASE MapLoads
  BY <1>4 DEF MapLoads, barVars, BarTypeOK, MapTypeOK, Handed, Mounted, BarGone, ListFollowsMap, Keys
<1>5. CASE EmitViewport
  BY <1>5 DEF EmitViewport, barVars, BarTypeOK, MapTypeOK, Handed, Mounted, BarGone, ListFollowsMap, Keys
<1>6. CASE FitToScope
  <2>1. bounds(points') \subseteq Areas
    BY BoundsAreAreas DEF points
  <2>2. CASE map \in {"created", "loaded"} /\ points' # {}
    BY <1>6, <2>1, <2>2 DEF FitToScope, barVars, BarTypeOK, MapTypeOK, Handed, Mounted, BarGone, ListFollowsMap, Keys
  <2>3. CASE ~(map \in {"created", "loaded"} /\ points' # {})
    BY <1>6, <2>3 DEF FitToScope, barVars, BarTypeOK, MapTypeOK, Handed, Mounted, BarGone, ListFollowsMap, Keys
  <2> QED BY <2>2, <2>3
<1>7. ASSUME NEW w \in Words, Type(w) PROVE SitesInv'
  <2>1. BarTypeOK' /\ Handed' /\ (held \subseteq Keys)'
    BY <1>7 DEF Type, BarTypeOK, Handed, Keys
  <2>2. (MapTypeOK /\ Mounted /\ ListFollowsMap)' /\ (view \in {"table", "map"})'
    BY <1>7, MapStays DEF Type
  <2>3. BarGone'
    BY DEF BarGone
  <2> QED BY <2>1, <2>2, <2>3
<1>8. ASSUME NEW c \in Chips, SetChips(c) PROVE SitesInv'
  <2>1. (BarTypeOK /\ Handed /\ BarGone)' /\ UNCHANGED <<view, viewport, failed, missed, held>> /\ Placed
    BY <1>8 DEF SetChips, BarTypeOK, Handed, BarGone
  <2>2. (MapTypeOK /\ Mounted /\ ListFollowsMap)'
    BY <2>1, PlacedKeeps
  <2> QED BY <2>1, <2>2 DEF Keys
<1>9. ASSUME NEW v \in {"table", "map"}, SetView(v) PROVE SitesInv'
  <2>1. (BarTypeOK /\ Handed /\ BarGone)' /\ (held \subseteq Keys)'
    BY <1>9, BarStays DEF SetView, Keys
  <2>2. MapTypeOK' /\ ListFollowsMap'
    BY <1>9 DEF SetView, MapTypeOK, ListFollowsMap
  <2>3. Mounted'
    BY <1>9 DEF SetView, Mounted
  <2>4. (view \in {"table", "map"})'
    BY <1>9 DEF SetView
  <2> QED BY <2>1, <2>2, <2>3, <2>4
<1>10. ASSUME NEW areas \in SUBSET Areas \ {{}}, Move(areas) PROVE SitesInv'
  BY <1>10 DEF Move, barVars, BarTypeOK, MapTypeOK, Handed, Mounted, BarGone, ListFollowsMap, Keys
<1> QED BY <1>1, <1>2, <1>3, <1>4, <1>5, <1>6, <1>7, <1>8, <1>9, <1>10 DEF OnPage

(* A failure of the list, the recovery from it and a list dropped from the   *)
(* cache keep it too.                                                       *)
LEMMA FailuresKeep ==
  ASSUME SitesInv, (~failed /\ ListFails) \/ ListRecovers \/ \E k \in held : Collected(k)
  PROVE  SitesInv'
<1> USE DEF SitesInv, SitesTypeOK
<1>1. CASE ListFails
  BY <1>1, SitesAssumption DEF ListFails, BarTypeOK, MapTypeOK, Handed, Mounted, BarGone, ListFollowsMap, Keys
<1>2. CASE ListRecovers
  <2>1. key \in Keys
    BY DEF key, Keys, BarTypeOK, MapTypeOK
  <2>2. failed /\ ~positioned /\ ~emitting
    BY <1>2 DEF ListRecovers, Mounted
  <2>3. q = "" /\ debouncedQ = "" /\ chips = {}
    BY <2>2 DEF BarGone
  <2> QED BY <1>2, <2>1, <2>2, <2>3, SitesAssumption
          DEF ListRecovers, BarTypeOK, MapTypeOK, Handed, Mounted, BarGone, ListFollowsMap, Keys
<1>3. CASE \E k \in held : Collected(k)
  <2>1. UNCHANGED <<barVars, mapVars, view, viewport, failed, missed>> /\ held' \subseteq held
    BY <1>3 DEF Collected
  <2> QED BY <2>1, BarStays, MapStays DEF Keys
<1> QED BY <1>1, <1>2, <1>3

(* The invariant holds of every behaviour of the library.                   *)
LEMMA SitesInvHolds == SitesSpec => []SitesInv
<1>1. SitesInv /\ UNCHANGED siteVars => SitesInv'
  BY BarStays, MapStays DEF SitesInv, SitesTypeOK, siteVars, Keys
<1>2. SitesInv /\ SitesNext => SitesInv'
  BY SitesStepKeeps, FailuresKeep DEF SitesNext
<1> QED BY <1>1, <1>2, SitesInitHolds, PTL DEF SitesSpec

---------------------------------------------------------------------------
(* The rows on the page are always asked for by the chips the filter bar   *)
(* shows, by its text once that has settled, and in the map view by the    *)
(* areas the map shows once it has reported them, for any number of sites  *)
(* and any order of typing, chips, answers, moves and fits.                *)
THEOREM ListIsAskedForWhatIsShown == SitesSpec => []ListFollowsPage
<1>1. SitesInv => ListFollowsPage
  BY DEF SitesInv, SitesTypeOK, BarTypeOK, Handed, ListFollowsPage, BarIsTheQuery
<1> QED BY <1>1, SitesInvHolds, PTL
=============================================================================
