-------------------------- MODULE CodeBlockView --------------------------
(***************************************************************************)
(* The code block's surface over the lines of a text: regions that fold,   *)
(* lines that are picked with the pointer or the keyboard, and the group   *)
(* of actions one of its children may register for the active line.        *)
(*                                                                         *)
(* The lines are those CodeBlock shows; here they change at once, and a    *)
(* line is what folding reads of it: its indent, or that it is blank.      *)
(* Folds, picks and regions count lines from 1 and the rows on screen from *)
(* StartLine, as in the code.                                              *)
(***************************************************************************)
EXTENDS Integers, FiniteSets, Sequences, SequencesExt

CONSTANTS
  Indents,    \* the indents a line may have
  MaxLength,  \* bound: lines of a text
  StartLine,  \* the number the first row shows
  Owners      \* the CodeBlockLineActions a page may mount

Blank == -1
ASSUME ViewAssumption ==
  /\ Indents \subseteq Nat /\ Indents # {}
  /\ MaxLength \in Nat \ {0} /\ StartLine \in Nat \ {0}

VARIABLES
  text,       \* the lines, as sequence of indents
  folded,     \* the starts of the regions that are folded
  selected,   \* the lines picked
  anchor,     \* lastSelectedRef: the line a range extends from, 0 for none
  activeLine, \* the row under the pointer or the keyboard, 0 for none
  mounted,    \* the action groups on the page
  latest,     \* the one that registered last
  actionsOwner \* the one whose actions the rows show

viewVars == <<text, folded, selected, anchor, activeLine>>
actionVars == <<mounted, latest, actionsOwner>>
surfaceVars == <<viewVars, actionVars>>

Texts == BoundedSeq(Indents \cup {Blank}, MaxLength) \ {<<>>}
NoOwner == [none |-> TRUE]

---------------------------------------------------------------------------
\* computeFoldRegions: one pass with a stack of the regions still open.  A line
\* closes those it is not indented under, carries the others on, and opens one
\* at the line before it when it is indented deeper.
Opened == [stack |-> <<>>, regions |-> {}, previous |-> 0]
Closed(open) == {[start |-> r.start, end |-> r.last] : r \in {o \in Range(open) : o.last > o.start}}
\* Bug variant: a line at the same indent stays in the region.
KeptAtEqual(stack, own) == SubSeq(stack, 1, Cardinality({i \in DOMAIN stack : stack[i].indent <= own}))
Kept(stack, own) == SubSeq(stack, 1, Cardinality({i \in DOMAIN stack : stack[i].indent < own}))
Scan(t, acc, n) ==
  IF t[n] = Blank THEN acc
  ELSE LET kept == Kept(acc.stack, t[n])
           on   == [i \in DOMAIN kept |-> [kept[i] EXCEPT !.last = n]]
           deeper == acc.previous # 0 /\ t[n] > t[acc.previous]
       IN [stack    |-> IF deeper THEN Append(on, [start |-> acc.previous, indent |-> t[acc.previous], last |-> n]) ELSE on,
           regions  |-> acc.regions \cup Closed(SubSeq(acc.stack, Len(kept) + 1, Len(acc.stack))),
           previous |-> n]
computeFoldRegions(t) ==
  LET done == FoldLeft(LAMBDA acc, n : Scan(t, acc, n), Opened, [n \in 1 .. Len(t) |-> n])
  IN done.regions \cup Closed(done.stack)

\* The regions of every text, as the block's memo holds them for its own.
FoldRegions == [t \in Texts |-> computeFoldRegions(t)]
foldRegions == FoldRegions[text]
foldStarts == {r.start : r \in foldRegions}
Hidden == UNION {r.start + 1 .. r.end : r \in {q \in foldRegions : q.start \in folded}}
rendered == LET hidden == Hidden IN SelectSeq([n \in 1 .. Len(text) |-> n], LAMBDA n : n \notin hidden)
Row(n) == n + StartLine - 1

---------------------------------------------------------------------------
ViewInit ==
  /\ text \in Texts
  /\ folded = {} /\ selected = {} /\ anchor = 0 /\ activeLine = 0
  /\ mounted = {} /\ latest = NoOwner /\ actionsOwner = NoOwner

\* The page changes the code, a line at its end at a time: folds, picks and the
\* active row stay the numbers they were.
SetCode ==
  /\ text' \in {Front(text)} \cup {Append(t, l) : t \in {text, Front(text)}, l \in Indents \cup {Blank}}
  /\ text' # text /\ Len(text') \in 1 .. MaxLength
  /\ UNCHANGED <<folded, selected, anchor, activeLine, actionVars>>

Toggled(S, n) == IF n \in S THEN S \ {n} ELSE S \cup {n}

\* The chevron of a region, which knows its start.
toggleFold(n) ==
  /\ n \in Range(rendered) \cap foldStarts
  /\ folded' = Toggled(folded, n)
  /\ UNCHANGED <<text, selected, anchor, activeLine, actionVars>>

\* The marker of a folded region hands over the number its row shows, which is
\* the region's start only in a block that counts from 1.
pressMarker(n) ==
  /\ n \in Range(rendered) \cap foldStarts \cap folded
  /\ folded' = Toggled(folded, Row(n))
  /\ UNCHANGED <<text, selected, anchor, activeLine, actionVars>>

foldAll == folded' = foldStarts /\ UNCHANGED <<text, selected, anchor, activeLine, actionVars>>
unfoldAll == folded' = {} /\ UNCHANGED <<text, selected, anchor, activeLine, actionVars>>

\* toggleLine: a range from the anchor, or one line in or out.
toggleLine(n, extend) ==
  IF extend /\ anchor # 0
  THEN /\ selected' = IF n < anchor THEN n .. anchor ELSE anchor .. n
       /\ UNCHANGED anchor
  ELSE /\ selected' = Toggled(selected, n)
       /\ anchor' = n

clickLine(n, extend) ==
  /\ n \in Range(rendered)
  /\ toggleLine(n, extend)
  /\ activeLine' = Row(n)
  /\ UNCHANGED <<text, folded, actionVars>>

clearSelection == selected' = {} /\ UNCHANGED <<text, folded, anchor, activeLine, actionVars>>

\* trackActive and clearActive: the pointer over a row, and off the code.
trackActive(n) == n \in Range(rendered) /\ activeLine' = Row(n) /\ UNCHANGED <<text, folded, selected, anchor, actionVars>>
clearActive == activeLine' = 0 /\ UNCHANGED <<text, folded, selected, anchor, actionVars>>

\* The row an arrow leads to: by its place among the rows on screen, from an
\* end of them when the active one is not there.
stepRows(step) ==
  LET at == {i \in DOMAIN rendered : Row(rendered[i]) = activeLine}
      to == IF at = {} THEN (IF step = 1 THEN 1 ELSE Len(rendered))
            ELSE LET i == (CHOOSE i \in at : TRUE) + step IN IF i \in DOMAIN rendered THEN i ELSE i - step
  IN Row(rendered[to])

\* handleKeyDown, arrows: the active row moves, and takes the range with it
\* under Shift.
arrowKey(step, extend) ==
  /\ activeLine' = stepRows(step)
  /\ IF extend THEN toggleLine(activeLine' - StartLine + 1, TRUE) ELSE UNCHANGED <<selected, anchor>>
  /\ UNCHANGED <<text, folded, actionVars>>

\* handleKeyDown, Home and End.
edgeKey(n) ==
  /\ n \in {Head(rendered), Last(rendered)}
  /\ activeLine' = Row(n)
  /\ UNCHANGED <<text, folded, selected, anchor, actionVars>>

\* handleKeyDown, Enter and Space.
enterKey(extend) ==
  /\ activeLine # 0
  /\ toggleLine(activeLine - StartLine + 1, extend)
  /\ UNCHANGED <<text, folded, activeLine, actionVars>>

---------------------------------------------------------------------------
\* A CodeBlockLineActions registers when it mounts and each time its render
\* function changes; the block shows the one that did so last.
register(o) ==
  /\ mounted' = mounted \cup {o}
  /\ latest' = o /\ actionsOwner' = o
  /\ UNCHANGED viewVars

\* Bug variant: whoever unmounts clears the actions.
unregisterAny(o) ==
  /\ o \in mounted
  /\ mounted' = mounted \ {o}
  /\ actionsOwner' = NoOwner
  /\ UNCHANGED <<viewVars, latest>>

\* It unmounts: the actions go only if they are its own.
unregister(o) ==
  /\ o \in mounted
  /\ mounted' = mounted \ {o}
  /\ actionsOwner' = IF actionsOwner = o THEN NoOwner ELSE actionsOwner
  /\ UNCHANGED <<viewVars, latest>>

Surface ==
  \/ SetCode
  \/ \E n \in 1 .. Len(text) :
       \/ toggleFold(n) \/ pressMarker(n) \/ trackActive(n)
       \/ edgeKey(n)
       \/ \E extend \in BOOLEAN : clickLine(n, extend)
  \/ \E step \in {-1, 1}, extend \in BOOLEAN : arrowKey(step, extend)
  \/ \E extend \in BOOLEAN : enterKey(extend)
  \/ foldAll \/ unfoldAll \/ clearSelection \/ clearActive

Registry == \E o \in Owners : register(o) \/ unregister(o)

ViewNext == Surface \/ Registry
ViewSpec == ViewInit /\ [][ViewNext]_surfaceVars

---------------------------------------------------------------------------
\* Reference: a region runs from a line to the last of the lines indented
\* under it, blank ones passed over.
Written(t) == {i \in 1 .. Len(t) : t[i] # Blank}
Under(t, i) == {k \in Written(t) : k > i /\ \A j \in Written(t) : i < j /\ j <= k => t[j] > t[i]}
Blocks(t) ==
  {[start |-> i, end |-> CHOOSE k \in Under(t, i) : \A j \in Under(t, i) : j <= k] :
     i \in {n \in Written(t) : Under(t, n) # {}}}

\* The stack finds the blocks of the text, whatever its indents and blanks.
FoldsAreBlocks == foldRegions = Blocks(text)

\* The actions shown are those of the group that registered last, for as long
\* as that one is mounted, and never of one that is gone.
ActionsOfLatest == actionsOwner = IF latest \in mounted THEN latest ELSE NoOwner

\* What the rows show beside the code is of this code and of this page.
SurfaceAgrees == FoldsAreBlocks /\ ActionsOfLatest
==========================================================================
