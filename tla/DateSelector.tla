---------------------------- MODULE DateSelector ----------------------------
(***************************************************************************)
(* The date selector of the shared components: one value (a day, a month,  *)
(* a quarter, a half-year, a year, or a range of them) picked in a         *)
(* calendar or a grid, typed into a field, or set by the page that holds   *)
(* it, with the effects that carry it to and from that page.               *)
(*                                                                         *)
(* A day, and a period as year * 100 + index (the key the code compares    *)
(* ranges by), is a positive number; 0 is none.  The month, quarter and    *)
(* half-year fields are one, "pick": a change of period empties the others.*)
(***************************************************************************)
EXTENDS Integers, FiniteSets

CONSTANTS
  Days,         \* the days of the calendar, one to a month
  Years,        \* the years of the grids
  Indexes,      \* the months, quarters or half-years of a year, from 0
  PeriodTypes,  \* the periods offered
  Presets,      \* operators the page may impose
  AllowRange,   \* whether a range may be picked
  Stored        \* values the page may hold: what a selector reported before

Operators == {"is", "before", "after", "between"}
NoPreset == "free"

Unpicked(p, op) == [period |-> p, operator |-> op, start |-> 0, end |-> 0, pick |-> 0, from |-> 0, to |-> 0]
DayValue(op, d, e) == [Unpicked("day", op) EXCEPT !.start = d, !.end = e]
RangeValue(p, from, to) == [Unpicked(p, "between") EXCEPT !.from = from, !.to = to, !.pick = from]
PageValues ==
  {v \in {DayValue(op, d, e) : op \in {"is", "between"}, d \in Days, e \in {0} \cup Days}
           \cup {RangeValue(p, y * 100, z * 100) : p \in PeriodTypes \ {"day"}, y \in Years, z \in Years} :
    v.period \in PeriodTypes /\ v.from <= v.to
      /\ (v.end > 0 => v.operator = "between" /\ v.start <= v.end)}

ASSUME SelectorAssumption ==
  /\ Days \cup Years \subseteq Nat \ {0} /\ Indexes \subseteq Nat
  /\ PeriodTypes \subseteq {"day", "month", "quarter", "half-year", "year"}
  /\ Presets \subseteq Operators /\ AllowRange \in BOOLEAN /\ Stored \subseteq PageValues

VARIABLES
  sel,       \* what the selector holds: period, operator, and the picks
  calendar,  \* the month shown
  preset,    \* the operator the page imposes
  value,     \* the value the page holds, and passes down
  fresh,     \* a value or a preset newer than the last render
  render,    \* the render whose effects are still to run
  emitted,   \* the value last reported to the page
  field,     \* what the field reads
  focused,
  wanted,    \* the value last typed, or set by the page, until a pick
  crossed,   \* the page's last value crossed a report of the selector's own
  rounds     \* renders since the last input, while no value crossed another

dateVars ==
  <<sel, calendar, preset, value, fresh, render, emitted, field, focused, wanted, crossed, rounds>>

Grids == PeriodTypes \ {"day", "year"}
NoValue == [none |-> TRUE]
NoRender == [none |-> TRUE]

\* A value under the operator a page imposes, else its own.
Under(op, v) == [v EXCEPT !.operator = IF op = NoPreset THEN @ ELSE op]

\* What it would report.
Current == Under(preset, sel)

\* What the field reads of a value: its range when both ends are there.
BlankText == [form |-> "blank", a |-> 0, b |-> 0]
Format(v) ==
  LET a == IF v.period = "day" THEN v.start ELSE IF v.from > 0 /\ v.to > 0 THEN v.from ELSE v.pick
      b == IF v.period = "day" THEN v.end ELSE IF v.from > 0 /\ v.to > 0 THEN v.to ELSE 0
  IN  IF a = 0 THEN BlankText ELSE [form |-> v.period, a |-> a, b |-> b]

\* A typed field is read as a year, a quarter or a day, never as a range.
Readable(t) == t.form \in {"year", "quarter", "day"} /\ t.b = 0
Parsed(t) ==
  [Unpicked(t.form, Current.operator) EXCEPT !.start = IF t.form = "day" THEN t.a ELSE 0,
                                            !.pick  = IF t.form = "day" THEN 0 ELSE t.a]

\* Every effect has run, and none asks for another render.
Reported == render = NoRender /\ Current = emitted
AtRest == Reported /\ ~fresh /\ (focused \/ field = Format(Current))

\* Bug variant: the page's value is taken without its range.
TakenWithoutRange(v) ==
  [Under(preset, v) EXCEPT !.from = sel.from, !.to = sel.to]

\* What the selector makes of the page's value, under the operator imposed.
Taken(v) == Under(preset, v)

\* What a render closes over: its effects see this, not what is set meanwhile.
Snapshot(isNew) == [value |-> value, fresh |-> isNew, current |-> Current]

\* Mounted, with its first render made: of nothing, or of the page's value.
DateInit ==
  /\ preset \in Presets \cup {NoPreset}
  /\ \/ value = NoValue /\ \E p \in PeriodTypes : sel = Unpicked(p, IF preset = NoPreset THEN "is" ELSE preset)
     \/ value \in Stored /\ sel = Under(preset, value)
  /\ calendar \in Days
  /\ fresh = FALSE /\ render = Snapshot(value # NoValue) /\ emitted = NoValue
  /\ field = Format(Current) /\ focused = FALSE /\ wanted = NoValue /\ crossed = FALSE /\ rounds = 0

---------------------------------------------------------------------------
(* Picking *)

PicksRange == sel.operator = "between" /\ AllowRange

\* Bug variant: the second pick is always the end.
ExtendedUnswapped(first, last, x) ==
  IF first = 0 \/ last > 0 THEN <<x, 0>> ELSE <<first, x>>

\* A range after a pick: begun afresh, or completed in either direction.
Extended(first, last, x) ==
  IF first = 0 \/ last > 0 THEN <<x, 0>>
  ELSE IF x < first THEN <<x, first>> ELSE <<first, x>>

\* The user's own pick, with the focus out of the field: what was wanted for
\* before no longer counts.
Picked(s) ==
  /\ AtRest /\ ~focused
  /\ sel' = s /\ wanted' = NoValue
  /\ UNCHANGED <<calendar, preset, value, fresh, render, emitted, field, focused>>

\* The day the calendar hands on when d is pressed while the pointer rests
\* on h (0: on none): the calendar extends the range it is shown, and its end
\* is what the selector takes.
HandedOn(d, h) ==
  LET last == IF sel.end > 0 THEN sel.end ELSE IF h > 0 THEN h ELSE sel.start
  IN  IF ~PicksRange THEN (IF d = sel.start THEN 0 ELSE d)
      ELSE IF sel.start = 0 THEN d
      ELSE IF d = sel.start /\ d = last THEN 0
      ELSE IF d < sel.start /\ d # last THEN last ELSE d

handleDayClick(d, h) ==
  /\ sel.period = "day" /\ d \in {calendar, calendar + 1}
  /\ HandedOn(d, h) > 0
  /\ \E r \in {IF PicksRange THEN Extended(sel.start, sel.end, HandedOn(d, h)) ELSE <<HandedOn(d, h), 0>>} :
       Picked([sel EXCEPT !.start = r[1], !.end = r[2]])

\* In a range the pick stays at its first press.
handlePeriodSelect(key) ==
  LET begins == ~PicksRange \/ sel.from = 0 \/ sel.to > 0
      r == IF PicksRange THEN Extended(sel.from, sel.to, key) ELSE <<0, 0>>
  IN  Picked([sel EXCEPT !.from = r[1], !.to = r[2], !.pick = IF begins THEN key ELSE @])

PickPeriod(year, index) == sel.period \in Grids /\ handlePeriodSelect(year * 100 + index)
handleYearSelect(year) == sel.period = "year" /\ handlePeriodSelect(year * 100)

handlePeriodTypeChange(p) == p # sel.period /\ Picked(Unpicked(p, sel.operator))

handleFilterTypeChange(op) ==
  /\ preset = NoPreset /\ op # sel.operator
  /\ op = "between" => AllowRange
  /\ Picked(Unpicked(sel.period, op))

clearPicks == field # BlankText /\ Picked(Unpicked(sel.period, sel.operator))

\* The month before, the month after, or this one.
ShowMonth(m) ==
  /\ AtRest /\ sel.period = "day" /\ m # calendar
  /\ calendar' = m
  /\ UNCHANGED <<sel, preset, value, fresh, render, emitted, field, focused, wanted>>

---------------------------------------------------------------------------
(* The field *)

Focus ==
  /\ AtRest /\ ~focused
  /\ focused' = TRUE
  /\ UNCHANGED <<sel, calendar, preset, value, fresh, render, emitted, field, wanted>>

\* What can be read goes to the page at once, and comes back as its value.
handleInputChange(t) ==
  /\ AtRest /\ focused /\ t # field
  /\ field' = t
  /\ IF Readable(t) THEN value' = Parsed(t) /\ fresh' = TRUE /\ wanted' = Parsed(t)
                 ELSE UNCHANGED <<value, fresh, wanted>>
  /\ UNCHANGED <<sel, calendar, preset, render, emitted, focused>>

handleInputBlur ==
  /\ AtRest /\ focused
  /\ focused' = FALSE
  /\ field' = IF Readable(field) THEN field ELSE Format(Current)
  /\ UNCHANGED <<sel, calendar, preset, value, fresh, render, emitted, wanted>>

---------------------------------------------------------------------------
(* The page *)

\* The page sets a value of its own, at any time: also between a render and
\* its effects, and while what these set is still to be rendered.
SetValue(v) ==
  /\ value' = v /\ fresh' = TRUE
  /\ wanted' = IF Reported THEN Taken(v) ELSE NoValue
  /\ UNCHANGED <<sel, calendar, preset, render, emitted, field, focused>>

SetPreset(op) ==
  /\ AtRest /\ op # preset
  /\ preset' = op /\ fresh' = TRUE /\ wanted' = NoValue
  /\ UNCHANGED <<sel, calendar, value, render, emitted, field, focused>>

Render ==
  /\ render = NoRender /\ ~AtRest
  /\ render' = Snapshot(fresh) /\ fresh' = FALSE
  /\ UNCHANGED <<sel, calendar, preset, value, emitted, field, focused, wanted>>

\* Bug variant: it reports on every render the page causes.
ReportsAlways == render.current # emitted \/ render.fresh

\* It reports a value it has not reported yet: the page's handler is the same
\* function from render to render.
Reports == render.current # emitted

\* The effects of one render, in their order: the page's value is taken over,
\* when it or the preset was new; what was rendered is reported, over whatever
\* the page has set since; and the field follows it.
Effects ==
  /\ render # NoRender
  /\ sel' = IF render.fresh THEN Taken(render.value) ELSE sel
  /\ IF Reports THEN value' = render.current /\ fresh' = TRUE
                ELSE UNCHANGED <<value, fresh>>
  /\ emitted' = render.current /\ render' = NoRender
  /\ field' = IF focused THEN field ELSE Format(render.current)
  /\ UNCHANGED <<calendar, preset, focused, wanted>>

---------------------------------------------------------------------------
TypedDates ==
  {BlankText, [form |-> "junk", a |-> 0, b |-> 0]}
    \cup {[form |-> f, a |-> y * 100, b |-> 0] : f \in {"quarter", "year"}, y \in Years}
    \cup {[form |-> "day", a |-> d, b |-> 0] : d \in Days}

DateInput ==
  \/ clearPicks \/ Focus \/ handleInputBlur
  \/ \E d \in Days, h \in {0} \cup Days : handleDayClick(d, h)
  \/ \E y \in Years : handleYearSelect(y) \/ \E i \in Indexes : PickPeriod(y, i)
  \/ \E p \in PeriodTypes : handlePeriodTypeChange(p)
  \/ \E op \in Operators : handleFilterTypeChange(op)
  \/ \E m \in Days : ShowMonth(m)
  \/ \E t \in TypedDates : handleInputChange(t)
  \/ \E v \in Stored : SetValue(v)
  \/ \E op \in Presets \cup {NoPreset} : SetPreset(op)

DateNext ==
  \/ DateInput /\ rounds' = 0 /\ crossed' = ~Reported
  \/ Render /\ UNCHANGED <<rounds, crossed>>
  \/ Effects /\ rounds' = (IF crossed THEN 0 ELSE rounds + 1) /\ UNCHANGED crossed

DateSpec == DateInit /\ [][DateNext]_dateVars

---------------------------------------------------------------------------
\* A range never ends before it begins, and the single pick reported beside a
\* range is one of its ends: whatever the order of the presses, a typed start,
\* or a value of the page in between.
RangeReads ==
  /\ sel.end > 0 => sel.start > 0 /\ sel.start <= sel.end
  /\ sel.to > 0 => sel.from > 0 /\ sel.from <= sel.to /\ sel.pick \in {sel.from, sel.to}

\* Once the effects have run, the page holds what the selector shows (under
\* the operator it imposes) and the field reads it, whatever crossed on the way;
\* and a value typed, or set while the selector had nothing left to report, is
\* the one kept: no report of the selector's own overwrote it.
ValueIsKept ==
  AtRest =>
    /\ Taken(value) = Current
    /\ ~focused => field = Format(Current)
    /\ wanted # NoValue => wanted = Current

\* The effects end: three renders after an input the selector and the page have
\* stopped handing each other the value, unless the page set its own while a
\* report was on its way: then the two may go on changing places.
SelectorSettles == rounds <= 3

\* Selector, page, operator and field agree at rest, and get there.
PicksAreKept == RangeReads /\ ValueIsKept /\ SelectorSettles
=============================================================================
