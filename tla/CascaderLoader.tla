--------------------------- MODULE CascaderLoader ---------------------------
(* The cascader's request machinery, cascader-async.tsx: useCascaderLoader.   *)
(* The hook's store and refs are one record, and each of its callbacks and    *)
(* effects is an operator from that record to the next; Cascader.tla composes *)
(* them into steps.  A server level is a sequence of pages, and the cursor of *)
(* a page is the number of pages before it (0: no cursor).                    *)
EXTENDS CascaderTree

CONSTANTS Server,     \* level -> the pages `getChildren` serves for it
          Chains,     \* node -> the ancestor chain `resolveValue` answers
          Hits        \* query -> the nodes `onSearch` answers

NoEntry == [has |-> FALSE, loading |-> FALSE, error |-> FALSE, more |-> FALSE, cursor |-> 0]
NoSearch == [query |-> "", results |-> {}, loading |-> FALSE, error |-> FALSE]
SearchKey == <<"search", Root>>
Keys == ({"level", "resolve"} \X Levels) \cup {SearchKey}

\* createStore, and the refs of a mounted hook.
EmptyLoader ==
    [pages |-> [k \in Levels |-> <<>>], states |-> [k \in Levels |-> NoEntry],
     detached |-> {}, known |-> {}, attempted |-> {},
     ctl |-> [k \in Keys |-> 0],            \* controllers: the live request
     ids |-> [k \in Keys |-> 0],            \* requestIds
     inflight |-> [k \in Levels |-> <<>>],  \* <<append, cursor>> in flight
     latch |-> [k \in Levels |-> <<>>],     \* moreLatch: <<count, cursor>>
     reqs |-> {}, epoch |-> 0, prefetch |-> "", debounce |-> "",
     search |-> NoSearch,
     sent |-> 0, asked |-> [k \in Levels |-> 0]]  \* bound; pages really served

-----------------------------------------------------------------------------
(* Requests *)

AbortKey(l, k) ==
    IF l.ctl[k] = 0 THEN l
    ELSE [l EXCEPT !.ctl[k] = 0,
                   !.inflight = IF k[1] = "level" THEN [@ EXCEPT ![k[2]] = <<>>] ELSE @,
                   !.reqs = {IF r.key = k /\ r.id = l.ctl[k]
                             THEN [r EXCEPT !.aborted = TRUE] ELSE r : r \in @}]

\* The new request of a key; it replaces the one that was live.
Send(l, k, append, cursor, text) ==
    LET a == AbortKey(l, k)
        id == a.ids[k] + 1
    IN  [a EXCEPT !.ctl[k] = id, !.ids[k] = id, !.sent = @ + 1,
                  !.reqs = @ \cup {[key |-> k, id |-> id, append |-> append,
                                    cursor |-> cursor, text |-> text, epoch |-> a.epoch, aborted |-> FALSE]}]

RunLoad(l, k, cursor, append) ==
    LET s == Send(l, <<"level", k>>, append, cursor, "")
    IN  IF l.inflight[k] = <<append, cursor>> THEN l
        ELSE [s EXCEPT !.inflight[k] = <<append, cursor>>,
                       !.states[k] = [@ EXCEPT !.has = TRUE, !.loading = TRUE, !.error = FALSE]]

\* settle(): by signature and by controller, whether the answer is wanted or not.
Settle(l, r) ==
    [l EXCEPT !.reqs = @ \ {r},
              !.ctl[r.key] = IF @ = r.id THEN 0 ELSE @,
              !.inflight = IF r.key[1] = "level" /\ @[r.key[2]] = <<r.append, r.cursor>>
                           THEN [@ EXCEPT ![r.key[2]] = <<>>] ELSE @]

\* Bug variant: only the request id tells a late answer.
StaleById(l, r) == r.id # l.ids[r.key]

\* stale(): three independent guards; a resolve has no request id to compare.
Stale(l, r) == r.aborted \/ r.epoch # l.epoch \/ (r.key[1] # "resolve" /\ r.id # l.ids[r.key])

Remember(l, nodes) == [l EXCEPT !.known = @ \cup nodes]

\* withPage: a first page replaces, a further one appends what is new.
WithPage(l, r) ==
    LET k == r.key[2]
        items == Server[k][r.cursor + 1]
        before == IF r.append THEN l.pages[k] ELSE <<>>
        fresh(n) == n \notin Range(before)
        more == r.cursor + 1 < Len(Server[k])
    IN  [l EXCEPT !.pages[k] = before \o SelectSeq(items, fresh),
                  !.states[k] = [has |-> TRUE, loading |-> FALSE, error |-> FALSE, more |-> more,
                                 cursor |-> IF more THEN r.cursor + 1 ELSE 0],
                  !.latch[k] = IF r.append THEN @ ELSE <<>>,
                  !.asked[k] = r.cursor + 1,
                  !.known = @ \cup Range(items)]

LevelAnswered(l, r) == IF Stale(l, r) THEN Settle(l, r) ELSE WithPage(Settle(l, r), r)

LevelFailed(l, r) ==
    IF Stale(l, r) THEN Settle(l, r)
    ELSE [Settle(l, r) EXCEPT !.states[r.key[2]] = [@ EXCEPT !.loading = FALSE, !.error = TRUE]]

-----------------------------------------------------------------------------
(* What the panel asks of a level *)

\* No entry, and not a level that `items` fills.
EnsureLevel(l, k) ==
    IF l.states[k].has \/ Base.kids[k] # <<>> THEN l ELSE RunLoad(l, k, 0, FALSE)

LoadMore(l, k) ==
    LET s == l.states[k]
        signature == <<Len(l.pages[k]), s.cursor>>
    IN  IF ~s.has \/ s.loading \/ ~s.more \/ l.latch[k] = signature THEN l
        ELSE RunLoad([l EXCEPT !.latch[k] = signature], k, s.cursor, TRUE)

RetryLevel(l, k) ==
    LET s == l.states[k]
        append == l.pages[k] # <<>>
    IN  IF ~s.error THEN l
        ELSE RunLoad([l EXCEPT !.latch[k] = <<>>], k, IF append THEN s.cursor ELSE 0, append)

InvalidateLevel(l, k) ==
    [AbortKey(l, <<"level", k>>) EXCEPT !.ids[<<"level", k>>] = @ + 1, !.latch[k] = <<>>, !.asked[k] = 0,
                           !.states[k] = NoEntry, !.pages[k] = <<>>]

PrefetchNode(l, n) ==
    IF n \notin HasChildren \/ l.states[n].has THEN l ELSE [l EXCEPT !.prefetch = n]
PrefetchFires(l) == EnsureLevel([l EXCEPT !.prefetch = ""], l.prefetch)

-----------------------------------------------------------------------------
(* Search and resolve *)

\* The debounce ran out: the last results stay up until the answer is there.
RunSearch(l) ==
    [Send(l, SearchKey, FALSE, 0, l.debounce) EXCEPT
        !.debounce = "",
        !.search = [query |-> l.debounce, results |-> @.results, loading |-> TRUE, error |-> FALSE]]

SearchAnswered(l, r) ==
    IF Stale(l, r) THEN Settle(l, r)
    ELSE [Remember(Settle(l, r), Hits[r.text]) EXCEPT
            !.detached = @ \cup Hits[r.text],
            !.search = [query |-> r.text, results |-> Hits[r.text], loading |-> FALSE, error |-> FALSE]]

SearchFailed(l, r) ==
    IF Stale(l, r) THEN Settle(l, r)
    ELSE [Settle(l, r) EXCEPT !.search = [query |-> r.text, results |-> @.results,
                                          loading |-> FALSE, error |-> TRUE]]

\* withChain: each node of the chain joins the page of the one before it; no
\* entry is written, so those levels still read as never fetched.
WithChain(l, chain) ==
    LET level(i) == IF i = 1 THEN Root ELSE chain[i - 1]
        join(s, i) == IF chain[i] \in Range(s.pages[level(i)]) THEN s
                      ELSE [s EXCEPT !.pages[level(i)] = Append(@, chain[i])]
    IN  [FoldLeft(join, l, [i \in 1..Len(chain) |-> i]) EXCEPT
            !.detached = @ \cup Range(chain), !.known = @ \cup Range(chain)]

ResolveAnswered(l, r) ==
    IF Stale(l, r) THEN Settle(l, r) ELSE WithChain(Settle(l, r), Chains[r.key[2]])
ResolveFailed(l, r) == [Settle(l, r) EXCEPT !.attempted = @ \ {r.key[2]}]

\* Asks once about every selected value nobody has seen.
ResolveEffect(l, values) ==
    LET unseen == {n \in values : n \notin l.attempted \cup l.known \cup BaseValues}
        ask(s, n) == Send([s EXCEPT !.attempted = @ \cup {n}], <<"resolve", n>>, FALSE, 0, "")
    IN  FoldLeft(ask, l, SetToSeq(unseen))

-----------------------------------------------------------------------------
(* The effects that follow the panel: levels on screen, query, open, loadKey *)

LevelEffect(l, levels) == FoldLeft(EnsureLevel, l, SetToSeq(levels))

\* The query or the openness changed: the old search dies with its timer.
SearchEffect(l, text) ==
    LET a == AbortKey(l, SearchKey)
    IN  IF text # "" THEN [a EXCEPT !.debounce = text]
        ELSE [a EXCEPT !.debounce = "", !.search = NoSearch]

\* searchResults: nothing of an older query is shown as this one's answer.
SearchResults(l, text) == IF l.search.query = text THEN l.search.results ELSE {}

AbortAll(l) ==
    [l EXCEPT !.ctl = [k \in Keys |-> 0], !.inflight = [k \in Levels |-> <<>>], !.prefetch = "",
              !.reqs = {IF l.ctl[r.key] = r.id THEN [r EXCEPT !.aborted = TRUE] ELSE r : r \in @}]

\* Bug variant: a level whose request was aborted keeps its loading entry.
CancelKeepsEntries(l) == IF \A k \in Keys : l.ctl[k] = 0 THEN l ELSE AbortAll(l)

\* cancelAll, on close and only when a request is live: a level with rows keeps
\* its entry, one without loses it; nothing else of the cache is dropped.
CancelAll(l) ==
    LET live == {k \in Levels : l.ctl[<<"level", k>>] # 0 /\ l.states[k].loading}
        after(k) == IF l.pages[k] # <<>> THEN [l.states[k] EXCEPT !.loading = FALSE] ELSE NoEntry
    IN  IF \A k \in Keys : l.ctl[k] = 0 THEN l
        ELSE [AbortAll(l) EXCEPT !.states = [k \in Levels |-> IF k \in live THEN after(k) ELSE @[k]],
                                 !.search = [@ EXCEPT !.loading = FALSE]]

\* A loadKey change drops the cache and keeps the request ids.
ResetLoader(l) ==
    [EmptyLoader EXCEPT !.ids = l.ids, !.reqs = AbortAll(l).reqs, !.epoch = l.epoch + 1,
                        !.sent = l.sent, !.debounce = l.debounce]
=============================================================================
