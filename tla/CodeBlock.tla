---------------------------- MODULE CodeBlock ----------------------------
(***************************************************************************)
(* The code block's document: what is on screen while the page replaces,   *)
(* restyles or streams the code, and the highlighter runs a pass behind.   *)
(*                                                                         *)
(* A text is the sequence of its lines; a line is a word, and "" a line    *)
(* that is begun or blank.  A chunk of a stream ends within a line or at   *)
(* its end, so the texts of a stream are the prefixes of its document.     *)
(* Tokens, colours and the reuse of unchanged line objects are left out:   *)
(* a highlighted line spells the words it was made from.                   *)
(***************************************************************************)
EXTENDS Integers, FiniteSets, Sequences, SequencesExt

CONSTANTS
  Documents,   \* the texts the page may show: sequences of words
  Specs,       \* the presentation props: themes, marked lines, diff, levels
  MaxPasses    \* bound: highlight passes in flight

ASSUME DocumentsAssumption ==
  Documents # {} /\ \A d \in Documents : d \in Seq(STRING) /\ d # <<>> /\ "" \notin Range(d)
ASSUME SpecsAssumption == Specs # {} /\ MaxPasses \in Nat \ {0}

VARIABLES
  document,     \* the document the page shows or streams
  source,       \* `code`: the part of it handed over so far
  streaming,    \* the prop of that name
  spec,         \* the presentation props, as specKey holds them
  known,        \* whether `language` resolves to a bundled grammar
  deferredSource, \* the copy of source the last finished render used
  highlighted,  \* the last pass's result, with the inputs that made it
  passes,       \* calls of highlightCode that have not answered
  loader,       \* the page's one highlighterPromise
  grammar,      \* whether its themes and the language are registered
  distance,     \* the viewport's place: "end" (within 24px) or "up"
  stick,        \* stickRef
  scrolled      \* a scroll event that has not been dispatched

docVars == <<document, source, streaming, spec, known>>
loadVars == <<loader, grammar>>
scrollVars == <<distance, stick, scrolled>>
blockVars == <<docVars, deferredSource, highlighted, passes, loadVars, scrollVars>>

NoCode == <<"">>
Nothing == [none |-> TRUE]

\* The lines of `code` once `n` chunks of the document have arrived: two a
\* line, the newline that begins it and the words on it.
Chunked(d, n) == SubSeq(d, 1, n \div 2) \o (IF n % 2 = 0 THEN <<"">> ELSE <<d[n \div 2 + 1]>>)

NextText(d, t) == CHOOSE n \in 0 .. 2 * Len(d) - 1 : Chunked(d, n) = t

\* String.startsWith on texts: a text is the beginning of another when its
\* lines are the other's, the last of them perhaps cut short.
Begins(a, b) == a = "" \/ a = b
startsWith(t, s) ==
  /\ Len(s) <= Len(t)
  /\ \A i \in 1 .. Len(s) - 1 : s[i] = t[i]
  /\ Begins(Last(s), t[Len(s)])

shouldHighlight(src, kn) == kn /\ src # NoCode

\* Bug variant: the last result is shown whatever the code is by now.
mergedUnchecked(src, kn, def, sp, hl) ==
  IF ~shouldHighlight(src, kn) \/ hl = Nothing \/ hl.spec # sp THEN def
  ELSE IF Len(hl.source) >= Len(def) THEN hl.source
  ELSE hl.source \o SubSeq(def, Len(hl.source) + 1, Len(def))

\* The lines on screen: the highlighted ones as far as they go, the rest plain.
merged(src, kn, def, sp, hl) ==
  IF ~shouldHighlight(src, kn) \/ hl = Nothing THEN def
  ELSE IF hl.spec # sp \/ ~startsWith(def, hl.source) THEN def
  ELSE IF Len(hl.source) >= Len(def) THEN hl.source
  ELSE hl.source \o SubSeq(def, Len(hl.source) + 1, Len(def))

lines == merged(source, known, deferredSource, spec, highlighted)

---------------------------------------------------------------------------
BlockInit ==
  /\ document \in Documents
  /\ source = NoCode /\ deferredSource = NoCode
  /\ streaming = FALSE
  /\ spec \in Specs
  /\ known = TRUE
  /\ highlighted = Nothing /\ passes = {}
  /\ loader = "unasked" /\ grammar = FALSE
  /\ distance = "end" /\ stick = TRUE /\ scrolled = FALSE

\* The cleanup of the highlight effect: the passes in flight are let go.
Overtaken(ps) == {[p EXCEPT !.active = FALSE] : p \in ps}

\* A render that commits: the highlight effect runs again when one of its
\* inputs changed, forgetting the result where nothing is to be highlighted
\* and starting a pass of its own otherwise.
Render ==
  LET should == shouldHighlight(source', known')
      same   == /\ should = shouldHighlight(source, known)
                /\ <<deferredSource', known', spec'>> = <<deferredSource, known, spec>>
  IN IF same THEN UNCHANGED <<highlighted, passes, loader>>
     ELSE /\ highlighted' = IF should THEN highlighted ELSE Nothing
          /\ passes' = Overtaken(passes) \cup
                         (IF should THEN {[source |-> deferredSource', spec |-> spec', active |-> TRUE]} ELSE {})
          /\ loader' = IF should /\ loader = "unasked" THEN "loading" ELSE loader
          /\ Cardinality(passes') <= MaxPasses

\* The layout effect of the surface: what arrives under a stream is followed by
\* a reader who stands at its end; otherwise new lines grow below the view, and
\* fewer lines may leave its end in view.
Fresh == <<shouldHighlight(source, known), highlighted, deferredSource, spec, streaming>>
\* Bug variant: every chunk of a stream scrolls.
StickAlways == IF streaming' /\ Fresh' # Fresh THEN distance' = "end" /\ scrolled' = TRUE /\ UNCHANGED stick ELSE UNCHANGED scrollVars

StickToEnd ==
  IF Fresh' = Fresh THEN UNCHANGED scrollVars
  ELSE IF streaming' /\ stick THEN distance' = "end" /\ scrolled' = TRUE /\ UNCHANGED stick
  ELSE /\ distance' \in {distance} \cup (IF Len(lines') > Len(lines) THEN {"up"} ELSE {})
                                   \cup (IF Len(lines') < Len(lines) THEN {"end"} ELSE {})
       /\ scrolled' = (scrolled \/ (distance' = "end" /\ distance # "end"))
       /\ UNCHANGED stick

Commit == Render /\ StickToEnd

\* The page puts another document in the block, whole or as a stream.
Show(d, streamed) ==
  /\ document' = d
  /\ source' = IF streamed THEN NoCode ELSE d
  /\ streaming' = streamed
  /\ source' # source \/ streaming' # streaming
  /\ UNCHANGED <<spec, known, deferredSource, grammar>>
  /\ Commit

\* The next chunk of the stream.
Chunk ==
  /\ streaming /\ source # document
  /\ source' = Chunked(document, NextText(document, source) + 1)
  /\ UNCHANGED <<document, streaming, spec, known, deferredSource, grammar>>
  /\ Commit

\* The page ends the stream with its last chunk.
EndStream ==
  /\ streaming
  /\ streaming' = FALSE
  /\ source' = document
  /\ UNCHANGED <<document, spec, known, deferredSource, grammar>>
  /\ Commit

Restyle(s) ==
  /\ s # spec
  /\ spec' = s
  /\ UNCHANGED <<document, source, streaming, known, deferredSource, grammar>>
  /\ Commit

SetLanguage ==
  /\ known' = ~known
  /\ UNCHANGED <<document, source, streaming, spec, deferredSource, grammar>>
  /\ Commit

\* The deferred render commits, with the code as it is by then.
Defer ==
  /\ deferredSource # source
  /\ deferredSource' = source
  /\ UNCHANGED <<docVars, grammar>>
  /\ Commit

---------------------------------------------------------------------------
\* loadHighlighter: one import for the page, kept whether it works or not.
Loaded(ok) ==
  /\ loader = "loading"
  /\ loader' = IF ok THEN "ready" ELSE "failed"
  /\ UNCHANGED <<docVars, deferredSource, highlighted, passes, grammar, scrollVars>>

\* highlightCode answers: tokenised once the themes and the grammar are
\* registered, plain when a load failed.  Only the effect's own pass is kept.
highlightCode(p, ok) ==
  /\ loader \in {"ready", "failed"}
  /\ ok => loader = "ready"
  /\ ~ok => loader = "failed" \/ ~grammar
  /\ grammar' = (grammar \/ ok)
  /\ passes' = passes \ {p}
  /\ highlighted' = IF p.active THEN [source |-> p.source, spec |-> p.spec, tokens |-> ok] ELSE highlighted
  /\ UNCHANGED <<docVars, deferredSource, loader>>
  /\ StickToEnd

---------------------------------------------------------------------------
\* The reader scrolls; the browser reports it in a later frame.
Scroll(place) ==
  /\ distance # place
  /\ distance' = place /\ scrolled' = TRUE
  /\ UNCHANGED <<docVars, deferredSource, highlighted, passes, loadVars, stick>>

\* handleScroll, on the viewport or the scroller around it.
handleScroll ==
  /\ scrolled
  /\ scrolled' = FALSE
  /\ stick' = (distance = "end")
  /\ UNCHANGED <<docVars, deferredSource, highlighted, passes, loadVars, distance>>

Authoring ==
  \/ \E d \in Documents, streamed \in BOOLEAN : Show(d, streamed)
  \/ Chunk \/ EndStream
  \/ \E s \in Specs : Restyle(s)
  \/ SetLanguage

Highlighter ==
  \/ \E ok \in BOOLEAN : Loaded(ok)
  \/ \E p \in passes, ok \in BOOLEAN : highlightCode(p, ok)

BlockNext ==
  \/ Authoring \/ Defer \/ Highlighter
  \/ \E place \in {"end", "up"} : Scroll(place)
  \/ handleScroll

BlockSpec == BlockInit /\ [][BlockNext]_blockVars

---------------------------------------------------------------------------
\* What is on screen is the code of the last render and nothing else: line
\* for line, with at most the last line the highlighter saw still cut short.
ShownSpells ==
  /\ Len(lines) = Len(deferredSource)
  /\ \A i \in 1 .. Len(lines) : Begins(lines[i], deferredSource[i])
  /\ Cardinality({i \in 1 .. Len(lines) : lines[i] # deferredSource[i]}) <= 1

\* A stream takes nothing back: while the code only grows, and is styled as
\* before, every line that was on screen stays or grows.
StreamOnlyGrows ==
  [][ (spec' = spec /\ known' = known /\ startsWith(source', source) /\ startsWith(source, deferredSource))
      => /\ Len(lines') >= Len(lines)
         /\ \A i \in 1 .. Len(lines) : Begins(lines[i], lines'[i]) ]_blockVars

\* A reader seen to have scrolled up is left alone: nothing that arrives
\* brings the end of the code into view.
ReaderKeepsPlace ==
  [][ (distance = "up" /\ ~stick /\ ~scrolled /\ Fresh' # Fresh /\ Len(lines') >= Len(lines)) => distance' = "up" ]_blockVars

\* A stream is read as it comes: nothing wrong, nothing taken back, nothing
\* moved under the reader.
StreamReads == []ShownSpells /\ StreamOnlyGrows /\ ReaderKeepsPlace
==========================================================================
