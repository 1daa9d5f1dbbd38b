--------------------------- MODULE MCConsolePages ---------------------------
(***************************************************************************)
(* The console's pages over their query cache, and three things pages show *)
(* that share no state with it: a code block's document, its surface (and  *)
(* the registry of its actions), and the request of a report.  Each is     *)
(* explored alone; part says which.  An idle part stands in a state where  *)
(* no step that is assumed fair is enabled.                                *)
(***************************************************************************)
EXTENDS ConsoleCache, CodeBlock, CodeBlockView, ReportRequest

MCDocuments == {<<"a", "b">>, <<"c">>}

VARIABLE part

vars == <<part, cacheVars, blockVars, surfaceVars, requestVars>>

\* The bounds of the parts: requests fail where at most two queries are followed,
\* a page that restyles a block keeps its language, and the first line of a text
\* stands at the margin.
Within ==
    /\ Cardinality(Keys) <= 3
    /\ Cardinality(Keys) = 3 => faults = 0
    /\ spec = "s1" \/ known
    /\ text[1] = 0

Init ==
    /\ part \in {"cache", "block", "surface", "actions", "request"}
    /\ CacheInit /\ BlockInit /\ ViewInit /\ RequestInit
    /\ part # "cache" => focus = Follow(Suppressions, OperatorPage, AuditPage)
    /\ part # "block" => document = <<"c">> /\ spec = "s1"
    /\ part # "surface" => text = <<0>>
    /\ part # "request" => body = "a"
    /\ Within

Next ==
    /\ UNCHANGED part
    /\ \/ part = "cache" /\ CacheNext /\ UNCHANGED <<blockVars, surfaceVars, requestVars>>
       \/ part = "block" /\ BlockNext /\ UNCHANGED <<cacheVars, surfaceVars, requestVars>>
       \/ part = "surface" /\ Surface /\ UNCHANGED <<cacheVars, blockVars, actionVars, requestVars>>
       \/ part = "actions" /\ Registry /\ UNCHANGED <<cacheVars, blockVars, viewVars, requestVars>>
       \/ part = "request" /\ RequestNext /\ UNCHANGED <<cacheVars, blockVars, surfaceVars>>
    /\ Within'

Spec == Init /\ [][Next]_vars /\ CacheFairness
=============================================================================
