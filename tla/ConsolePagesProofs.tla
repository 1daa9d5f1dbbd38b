------------------------- MODULE ConsolePagesProofs -------------------------
(***************************************************************************)
(* Proofs about what the console's pages show, each for every value of its *)
(* constants: the query cache, a code block's document and its surface,    *)
(* and the request of a report.                                            *)
(*                                                                         *)
(* ShownIsSaved is not inductive: it speaks of the page on screen, and a   *)
(* page shows later what a key was left with before.  CacheInv says of     *)
(* every key, shown or not, that what it holds or is about to hold is up   *)
(* to date, or marked so that it is fetched again before it counts.        *)
(*                                                                         *)
(* A block shows what its last pass made of the code.  BlockInv says what  *)
(* that pass may have read: a text, and, unless it was let go, the code of *)
(* the last render.                                                        *)
(*                                                                         *)
(* What makes a second run of a report impossible is the server's record,  *)
(* written before the endpoint runs and kept whatever becomes of it: a key *)
(* is being worked on at most once in its life.                            *)
(***************************************************************************)
EXTENDS ConsoleCache, CodeBlock, CodeBlockView, ReportRequest, FiniteSetTheorems, SequenceTheorems, TLAPS

-----------------------------------------------------------------------------
(* The query cache                                                          *)

Versions == [Resources -> Nat]
Held == [has : BOOLEAN, data : Versions, active : BOOLEAN, invalid : BOOLEAN, raced : BOOLEAN]
Fetches == [phase : {"idle", "sent", "served"}, data : Versions, active : BOOLEAN]

CacheTypeOK ==
  /\ focus \in Followed /\ here \in {"own", "other"}
  /\ server \in Versions /\ told \in Versions
  /\ cache \in [Keys -> Held] /\ fetch \in [Keys -> Fetches]

\* The console undertakes to show nothing the server does not hold.
ToldIsHeld == \A r \in Resources : told[r] <= server[r]

\* The data is at least what was undertaken of what the key is to show.
UpToDate(k, data, t) == \A r \in Reads(k) : <<focus.path, r, k>> \in Forgotten \/ data[r] >= t[r]

\* A fetch is under way for what is on the screen alone.  What a key holds is
\* fresh, or stale by mark, and then fetched again while it is shown; what it
\* is about to hold is fresh, or its first load that a mutation overtook.
KeyHolds(k, c, f, t) ==
  /\ f.phase # "idle" => k \in Mounted
  /\ c.has => UpToDate(k, c.data, t) \/ c.raced \/ c.invalid
  /\ f.phase = "served" => UpToDate(k, f.data, t) \/ (c.raced /\ ~c.has)
  /\ k \in Mounted /\ c.has /\ c.invalid => f.phase # "idle"

KeysHold == \A k \in Keys : KeyHolds(k, cache[k], fetch[k], told)

CacheInv == CacheTypeOK /\ ToldIsHeld /\ KeysHold

---------------------------------------------------------------------------
(* What the table of pages comes to for the mutation followed.              *)
LEMMA FollowedFacts ==
  ASSUME focus \in Followed, here \in {"own", "other"}
  PROVE  /\ Mounted \subseteq Keys
         /\ \A k \in Keys : Reads(k) \subseteq Resources
         /\ \A k \in Keys, r \in Resources : r \in Reads(k) \cap focus.mutation.writes =>
              \/ <<focus.path, r, k>> \in Forgotten
              \/ /\ Matches(k, focus.mutation.dirties)
                 /\ focus.mutation.onError = {} \/ Matches(k, focus.mutation.onError)
  BY TableAssumption DEF Mounted, Keys, Reads, Resources

(* The records the cache is made of.                                        *)
LEMMA RecordFacts ==
  /\ NoData \in Versions /\ Idle \in Fetches /\ Idle.phase = "idle"
  /\ Sent \in Fetches /\ Sent.phase = "sent"
  /\ Empty \in Held /\ Empty.has = FALSE /\ Empty.invalid = FALSE /\ Empty.raced = FALSE
  <1>1. NoData \in Versions
    BY DEF NoData, Versions
  <1>2. Idle \in Fetches /\ Idle.phase = "idle"
    BY <1>1 DEF Idle, Fetches
  <1>3. Sent \in Fetches /\ Sent.phase = "sent"
    BY <1>2 DEF Sent, Fetches
  <1>4. Empty \in Held /\ Empty.has = FALSE /\ Empty.invalid = FALSE /\ Empty.raced = FALSE
    BY <1>1 DEF Empty, Held
  <1> QED BY <1>1, <1>2, <1>3, <1>4

(* With the mutation followed and the page shown unchanged, so is what is   *)
(* read off them.                                                           *)
LEMMA SameFocus ==
  ASSUME UNCHANGED focus
  PROVE  /\ Versions' = Versions /\ Held' = Held /\ Fetches' = Fetches
         /\ Keys' = Keys /\ Resources' = Resources
         /\ \A k, d, t : UpToDate(k, d, t)' = UpToDate(k, d, t)
         /\ UNCHANGED here =>
              /\ Mounted' = Mounted
              /\ \A k, c, f, t : KeyHolds(k, c, f, t)' = KeyHolds(k, c, f, t)
  <1>1. /\ Versions' = Versions /\ Held' = Held /\ Fetches' = Fetches
        /\ Keys' = Keys /\ Resources' = Resources
    BY DEF Versions, Held, Fetches, Keys, Resources
  <1>2. ASSUME NEW k, NEW d, NEW t PROVE UpToDate(k, d, t)' = UpToDate(k, d, t)
    BY DEF UpToDate, Reads
  <1>3. UNCHANGED here => Mounted' = Mounted
    BY DEF Mounted
  <1>4. ASSUME UNCHANGED here, NEW k, NEW c, NEW f, NEW t
        PROVE KeyHolds(k, c, f, t)' = KeyHolds(k, c, f, t)
    BY <1>3, <1>4 DEF KeyHolds, UpToDate, Reads
  <1> QED BY <1>1, <1>2, <1>3, <1>4

(* Invalidating: a matching entry is stale by mark and fetched again while  *)
(* it is shown, or it is the first load that is marked as overtaken.  So a  *)
(* new undertaking may be made for every key that matches.                  *)
LEMMA InvalidateKeeps ==
  ASSUME CacheTypeOK, UNCHANGED <<focus, here>>, NEW c \in [Keys -> Held], NEW f \in [Keys -> Fetches],
         NEW prefixes, NEW t, \A k \in Keys : KeyHolds(k, c[k], f[k], told),
         Invalidate(c, f, prefixes),
         \A k \in Keys : Matches(k, prefixes)
                         \/ \A d \in Versions : UpToDate(k, d, told) => UpToDate(k, d, t)
  PROVE  /\ cache' \in [Keys -> Held] /\ fetch' \in [Keys -> Fetches]
         /\ \A k \in Keys : KeyHolds(k, cache'[k], fetch'[k], t)
  <1>1. /\ cache' = [k \in Keys |->
                       IF Matches(k, prefixes)
                       THEN [c[k] EXCEPT !.invalid = TRUE,
                                         !.raced = @ \/ (~c[k].has /\ f[k].phase # "idle")]
                       ELSE c[k]]
        /\ fetch' = [k \in Keys |->
                       IF /\ Matches(k, prefixes) /\ k \in Mounted
                          /\ c[k].has \/ f[k].phase = "idle"
                       THEN Sent ELSE f[k]]
    BY DEF Invalidate
  <1>2. fetch' \in [Keys -> Fetches]
    BY <1>1, RecordFacts
  <1>3. ASSUME NEW k \in Keys PROVE cache'[k] \in Held /\ KeyHolds(k, cache'[k], fetch'[k], t)
    <2>1. PICK e \in Held, g \in Fetches : e = c[k] /\ g = f[k]
      OBVIOUS
    <2>2. KeyHolds(k, e, g, told) /\ e.data \in Versions /\ g.data \in Versions
      BY <2>1 DEF Held, Fetches
    <2>3. CASE ~Matches(k, prefixes)
      <3>1. cache'[k] = e /\ fetch'[k] = g
        BY <1>1, <2>1, <2>3
      <3>2. \A d \in Versions : UpToDate(k, d, told) => UpToDate(k, d, t)
        BY <2>3
      <3>3. KeyHolds(k, e, g, t)
        BY <2>2, <3>2 DEF KeyHolds
      <3> QED BY <3>1, <3>3
    <2>4. CASE Matches(k, prefixes)
      <3>1. PICK x : x = [e EXCEPT !.invalid = TRUE, !.raced = e.raced \/ (~e.has /\ g.phase # "idle")]
        OBVIOUS
      <3>2. cache'[k] = x
        BY <1>1, <2>1, <2>4, <3>1
      <3>3. /\ x \in Held /\ x.has = e.has /\ x.invalid = TRUE /\ x.data = e.data
            /\ (x.raced <=> e.raced \/ (~e.has /\ g.phase # "idle"))
        BY <3>1 DEF Held
      <3>4. CASE k \in Mounted /\ (e.has \/ g.phase = "idle")
        <4>1. fetch'[k] = Sent
          BY <1>1, <2>1, <2>4, <3>4
        <4>2. KeyHolds(k, x, Sent, t)
          BY <3>3, <3>4, RecordFacts DEF KeyHolds
        <4> QED BY <3>2, <3>3, <4>1, <4>2
      <3>5. CASE ~(k \in Mounted /\ (e.has \/ g.phase = "idle"))
        <4>1. fetch'[k] = g
          BY <1>1, <2>1, <2>4, <3>5
        <4>2. KeyHolds(k, x, g, t)
          BY <2>2, <3>3, <3>5 DEF KeyHolds
        <4> QED BY <3>2, <3>3, <4>1, <4>2
      <3> QED BY <3>4, <3>5
    <2> QED BY <2>3, <2>4
  <1>4. cache' \in [Keys -> Held]
    BY <1>1, <1>3
  <1> QED BY <1>2, <1>3, <1>4

(* The console now undertakes to show what its mutation wrote.              *)
LEMMA NewTold ==
  ASSUME CacheTypeOK, NEW t, NEW prefixes,
         t = [r \in Resources |-> IF r \in focus.mutation.writes THEN server[r] ELSE 0],
         \/ prefixes = focus.mutation.dirties
         \/ prefixes = focus.mutation.onError /\ focus.mutation.onError # {}
  PROVE  /\ t \in Versions /\ \A r \in Resources : t[r] <= server[r]
         /\ \A k \in Keys : Matches(k, prefixes)
                            \/ \A d \in Versions : UpToDate(k, d, told) => UpToDate(k, d, t)
  <1>1. t \in Versions
    BY DEF CacheTypeOK, Versions
  <1>2. \A r \in Resources : t[r] <= server[r]
    BY DEF CacheTypeOK, Versions
  <1>3. ASSUME NEW k \in Keys, ~Matches(k, prefixes), NEW d \in Versions PROVE UpToDate(k, d, t)
    <2>1. SUFFICES ASSUME NEW r \in Reads(k), <<focus.path, r, k>> \notin Forgotten
                   PROVE  d[r] >= t[r]
      BY DEF UpToDate
    <2>2. r \in Resources
      BY FollowedFacts DEF CacheTypeOK
    <2>3. r \notin focus.mutation.writes
      BY <1>3, <2>1, <2>2, FollowedFacts DEF CacheTypeOK
    <2>4. t[r] = 0 /\ d[r] \in Nat
      BY <2>2, <2>3 DEF Versions
    <2> QED BY <2>4
  <1> QED BY <1>1, <1>2, <1>3

---------------------------------------------------------------------------
(* The first load is under way and nothing is undertaken.                   *)
LEMMA CacheInitially ==
  CacheInit => CacheInv
  <1> SUFFICES ASSUME CacheInit PROVE CacheInv
    OBVIOUS
  <1>1. /\ focus \in Followed /\ here = "own" /\ server = NoData /\ told = NoData
        /\ cache = [k \in Keys |-> Empty] /\ fetch = OnMount("own", {})
    BY DEF CacheInit
  <1>2. fetch \in [Keys -> Fetches] /\ cache \in [Keys -> Held]
        /\ \A k \in Keys : fetch[k] = Idle \/ (fetch[k] = Sent /\ k \in Mounted)
    BY <1>1, RecordFacts DEF OnMount, Mounted
  <1>3. CacheTypeOK
    BY <1>1, <1>2, RecordFacts DEF CacheTypeOK
  <1>4. ToldIsHeld
    BY <1>1 DEF ToldIsHeld, NoData
  <1>5. KeysHold
    <2>1. SUFFICES ASSUME NEW k \in Keys PROVE KeyHolds(k, cache[k], fetch[k], told)
      BY DEF KeysHold
    <2>2. cache[k].has = FALSE
      BY <1>1, RecordFacts
    <2> QED BY <1>2, <2>2, RecordFacts DEF KeyHolds
  <1> QED BY <1>3, <1>4, <1>5 DEF CacheInv

(* A mutation answered, for good or ill.                                    *)
LEMMA SettledKeeps ==
  ASSUME CacheInv, Succeed \/ Error
  PROVE  CacheInv'
  <1>1. CacheTypeOK /\ ToldIsHeld /\ KeysHold /\ cache \in [Keys -> Held] /\ fetch \in [Keys -> Fetches]
    BY DEF CacheInv, CacheTypeOK
  <1>2. UNCHANGED <<focus, here, server>>
    BY DEF Succeed, Error
  <1>3. \A k \in Keys : KeyHolds(k, cache[k], fetch[k], told)
    BY <1>1 DEF KeysHold
  <1>4. PICK prefixes, t :
          /\ told' = t /\ Invalidate(cache, fetch, prefixes)
          /\ t \in Versions /\ \A r \in Resources : t[r] <= server[r]
          /\ \A k \in Keys : Matches(k, prefixes)
                             \/ \A d \in Versions : UpToDate(k, d, told) => UpToDate(k, d, t)
    <2> DEFINE t == [r \in Resources |-> IF r \in focus.mutation.writes THEN server[r] ELSE 0]
    <2>1. CASE Succeed
      <3>1. told' = t /\ Invalidate(cache, fetch, focus.mutation.dirties)
        BY <2>1 DEF Succeed
      <3> HIDE DEF t
      <3>2. t \in Versions /\ (\A r \in Resources : t[r] <= server[r])
            /\ \A k \in Keys : Matches(k, focus.mutation.dirties)
                 \/ \A d \in Versions : UpToDate(k, d, told) => UpToDate(k, d, t)
        BY <1>1, NewTold DEF t
      <3> QED BY <3>1, <3>2
    <2>2. CASE Error /\ focus.mutation.onError # {}
      <3>1. told' = t /\ Invalidate(cache, fetch, focus.mutation.onError)
        BY <2>2 DEF Error
      <3> HIDE DEF t
      <3>2. t \in Versions /\ (\A r \in Resources : t[r] <= server[r])
            /\ \A k \in Keys : Matches(k, focus.mutation.onError)
                 \/ \A d \in Versions : UpToDate(k, d, told) => UpToDate(k, d, t)
        BY <1>1, <2>2, NewTold DEF t
      <3> QED BY <3>1, <3>2
    <2>3. CASE Error /\ focus.mutation.onError = {}
      <3>1. told' = told /\ Invalidate(cache, fetch, {})
        BY <2>3 DEF Error
      <3> QED BY <1>1, <3>1 DEF CacheTypeOK, ToldIsHeld
    <2> QED BY <2>1, <2>2, <2>3
  <1>5. /\ cache' \in [Keys -> Held] /\ fetch' \in [Keys -> Fetches]
        /\ \A k \in Keys : KeyHolds(k, cache'[k], fetch'[k], t)
    BY <1>1, <1>2, <1>3, <1>4, InvalidateKeeps
  <1>6. CacheTypeOK'
    BY <1>1, <1>2, <1>4, <1>5, SameFocus DEF CacheTypeOK
  <1>7. ToldIsHeld'
    BY <1>2, <1>4, SameFocus DEF ToldIsHeld
  <1>8. KeysHold'
    BY <1>2, <1>4, <1>5, SameFocus DEF KeysHold
  <1> QED BY <1>6, <1>7, <1>8 DEF CacheInv

(* The server writes.                                                       *)
LEMMA WriteKeeps ==
  ASSUME CacheInv, Handle \/ \E r \in pending : Work(r)
  PROVE  CacheInv'
  <1>1. UNCHANGED <<focus, here, cache, fetch, told>>
    BY DEF Handle, Work
  <1>2. server \in Versions /\ CacheTypeOK /\ ToldIsHeld /\ KeysHold
    BY DEF CacheInv, CacheTypeOK
  <1>3. server' \in Versions /\ \A r \in Resources : server'[r] >= server[r]
    <2>1. CASE Handle
      BY <1>2, <2>1 DEF Handle, Versions
    <2>2. ASSUME NEW r \in pending, Work(r)
          PROVE  server' \in Versions /\ \A x \in Resources : server'[x] >= server[x]
      <3>1. server' = [server EXCEPT ![r] = @ + 1]
        BY <2>2 DEF Work
      <3>2. \A x \in Resources : server[x] \in Nat /\ server'[x] = IF x = r THEN server[x] + 1 ELSE server[x]
        BY <1>2, <3>1 DEF Versions
      <3>3. \A x \in Resources : server'[x] \in Nat /\ server'[x] >= server[x]
        BY <3>2
      <3>4. server' = [x \in Resources |-> server'[x]]
        BY <1>2, <3>1 DEF Versions
      <3> QED BY <3>3, <3>4 DEF Versions
    <2> QED BY <2>1, <2>2
  <1>4. CacheTypeOK'
    BY <1>1, <1>2, <1>3, SameFocus DEF CacheTypeOK
  <1>5. ToldIsHeld'
    <2>1. \A r \in Resources : told[r] <= server'[r]
      BY <1>2, <1>3 DEF ToldIsHeld, CacheTypeOK, Versions
    <2> QED BY <1>1, <2>1, SameFocus DEF ToldIsHeld
  <1>6. KeysHold'
    BY <1>1, <1>2, SameFocus DEF KeysHold
  <1> QED BY <1>4, <1>5, <1>6 DEF CacheInv

(* A fetch that is sent, served or tried again.                             *)
LEMMA FetchKeeps ==
  ASSUME CacheInv, UNCHANGED <<focus, here, server, cache, told>>, NEW k \in Keys, NEW g \in Fetches,
         fetch' = [fetch EXCEPT ![k] = g], k \in Mounted, g.phase # "idle",
         g.phase = "served" => UpToDate(k, g.data, told)
  PROVE  CacheInv'
  <1>1. CacheTypeOK /\ ToldIsHeld /\ KeysHold /\ fetch \in [Keys -> Fetches]
    BY DEF CacheInv, CacheTypeOK
  <1>2. fetch' \in [Keys -> Fetches] /\ \A x \in Keys : fetch'[x] = IF x = k THEN g ELSE fetch[x]
    BY <1>1
  <1>3. CacheTypeOK'
    BY <1>1, <1>2, SameFocus DEF CacheTypeOK
  <1>4. ToldIsHeld'
    BY <1>1, SameFocus DEF ToldIsHeld
  <1>5. ASSUME NEW x \in Keys PROVE KeyHolds(x, cache[x], fetch'[x], told)
    <2>1. KeyHolds(x, cache[x], fetch[x], told)
      BY <1>1 DEF KeysHold
    <2>2. CASE x = k
      BY <1>2, <2>1, <2>2 DEF KeyHolds
    <2>3. CASE x # k
      BY <1>2, <2>1, <2>3
    <2> QED BY <2>2, <2>3
  <1>6. KeysHold'
    BY <1>5, SameFocus DEF KeysHold
  <1> QED BY <1>3, <1>4, <1>6 DEF CacheInv

(* A server's answer, a retry and a poll leave what the cache holds.        *)
LEMMA ReadKeeps ==
  ASSUME CacheInv, NEW k \in Keys, Serve(k) \/ RetryFetch(k) \/ Poll(k)
  PROVE  CacheInv'
  <1>1. UNCHANGED <<focus, here, server, cache, told>>
    BY DEF Serve, RetryFetch, Poll
  <1>2. CacheTypeOK /\ ToldIsHeld /\ server \in Versions /\ told \in Versions
    BY DEF CacheInv, CacheTypeOK
  <1>3. fetch[k].phase # "idle" => k \in Mounted
    BY DEF CacheInv, KeysHold, KeyHolds
  <1>4. CASE Serve(k)
    <2> DEFINE data == [r \in Resources |-> IF r \in Reads(k) THEN server[r] ELSE 0]
               g == [phase |-> "served", data |-> data, active |-> Reads(k) \cap pending \cap UnderWay # {}]
    <2>1. fetch' = [fetch EXCEPT ![k] = g] /\ fetch[k].phase = "sent"
      BY <1>4 DEF Serve
    <2>2. data \in Versions /\ \A r \in Reads(k) : data[r] >= told[r]
      <3>1. Reads(k) \subseteq Resources
        BY <1>2, FollowedFacts DEF CacheTypeOK
      <3>2. data \in Versions
        BY <1>2 DEF Versions
      <3>3. \A r \in Reads(k) : data[r] = server[r] /\ told[r] <= server[r]
                              /\ server[r] \in Nat /\ told[r] \in Nat
        BY <1>2, <3>1 DEF ToldIsHeld, Versions
      <3> HIDE DEF data
      <3>4. \A r \in Reads(k) : data[r] >= told[r]
        BY <3>3
      <3> QED BY <3>2, <3>4
    <2> HIDE DEF data
    <2>3. g \in Fetches /\ g.phase = "served" /\ UpToDate(k, g.data, told)
      BY <2>2 DEF Fetches, UpToDate
    <2>4. k \in Mounted
      BY <1>3, <2>1
    <2> HIDE DEF g
    <2> QED BY <1>1, <2>1, <2>3, <2>4, FetchKeeps
  <1>5. CASE RetryFetch(k) \/ Poll(k)
    <2>1. fetch' = [fetch EXCEPT ![k] = Sent] /\ k \in Mounted
      BY <1>3, <1>5 DEF RetryFetch, Poll
    <2> QED BY <1>1, <2>1, RecordFacts, FetchKeeps
  <1> QED BY <1>4, <1>5

(* What the server answered is held, marked by whether a mutation overtook  *)
(* this first load; a run seen to have ended refreshes its neighbours.      *)
LEMMA AnswerKeeps ==
  ASSUME CacheInv, NEW k \in Keys, Answer(k)
  PROVE  CacheInv'
  <1> DEFINE entry == [Empty EXCEPT !.has = TRUE, !.data = fetch[k].data,
                                    !.active = fetch[k].active,
                                    !.raced = cache[k].raced /\ ~cache[k].has]
             c == [cache EXCEPT ![k] = entry]
             f == [fetch EXCEPT ![k] = Idle]
  <1>1. CacheTypeOK /\ ToldIsHeld /\ KeysHold /\ cache \in [Keys -> Held] /\ fetch \in [Keys -> Fetches]
    BY DEF CacheInv, CacheTypeOK
  <1>2. PICK prefixes : Invalidate(c, f, prefixes)
    BY DEF Answer
  <1>3. fetch[k].phase = "served" /\ UNCHANGED <<focus, here, server, told>>
    BY DEF Answer
  <1>4. PICK e \in Held, g \in Fetches : e = cache[k] /\ g = fetch[k]
    BY <1>1
  <1>5. entry = [Empty EXCEPT !.has = TRUE, !.data = g.data, !.active = g.active,
                              !.raced = e.raced /\ ~e.has]
    BY <1>4
  <1> HIDE DEF entry
  <1>6. /\ entry \in Held /\ entry.has = TRUE /\ entry.data = g.data /\ entry.invalid = FALSE
        /\ entry.raced = (e.raced /\ ~e.has)
    BY <1>5, RecordFacts DEF Held, Fetches
  <1>7. c \in [Keys -> Held] /\ f \in [Keys -> Fetches]
    BY <1>1, <1>6, RecordFacts
  <1>8. ASSUME NEW x \in Keys PROVE KeyHolds(x, c[x], f[x], told)
    <2>1. KeyHolds(x, cache[x], fetch[x], told)
      BY <1>1 DEF KeysHold
    <2>2. CASE x = k
      <3>1. c[x] = entry /\ f[x] = Idle
        BY <1>1, <2>2
      <3>2. UpToDate(k, g.data, told) \/ (e.raced /\ ~e.has)
        BY <1>3, <1>4, <2>1, <2>2 DEF KeyHolds
      <3>3. KeyHolds(k, entry, Idle, told)
        BY <1>6, <3>2, RecordFacts DEF KeyHolds
      <3> QED BY <2>2, <3>1, <3>3
    <2>3. CASE x # k
      BY <1>1, <2>1, <2>3
    <2> QED BY <2>2, <2>3
  <1> HIDE DEF c, f
  <1>9. \A x \in Keys : Matches(x, prefixes) \/ \A d \in Versions : UpToDate(x, d, told) => UpToDate(x, d, told)
    OBVIOUS
  <1>10. /\ cache' \in [Keys -> Held] /\ fetch' \in [Keys -> Fetches]
         /\ \A x \in Keys : KeyHolds(x, cache'[x], fetch'[x], told)
    BY <1>1, <1>2, <1>3, <1>7, <1>8, <1>9, InvalidateKeeps
  <1>11. CacheTypeOK'
    BY <1>1, <1>3, <1>10, SameFocus DEF CacheTypeOK
  <1>12. ToldIsHeld'
    BY <1>1, <1>3, SameFocus DEF ToldIsHeld
  <1>13. KeysHold'
    BY <1>3, <1>10, SameFocus DEF KeysHold
  <1> QED BY <1>11, <1>12, <1>13 DEF CacheInv

(* Walking to the other page: whatever it shows that is missing or stale by *)
(* mark is fetched, and nothing of the page left is.                        *)
LEMMA GoKeeps ==
  ASSUME CacheInv, Go
  PROVE  CacheInv'
  <1>1. CacheTypeOK /\ ToldIsHeld /\ KeysHold
    BY DEF CacheInv
  <1>2. UNCHANGED <<focus, server, cache, told>> /\ here' \in {"own", "other"}
    BY DEF Go
  <1>3. PICK old : fetch' = OnMount(here', old)
    BY DEF Go
  <1>4. PICK there \in {"own", "other"} : there = here'
    BY <1>2
  <1>5. /\ fetch' \in [Keys -> Fetches]
        /\ \A k \in Keys :
             fetch'[k] = IF /\ k \in DOMAIN focus.poll[there]
                            /\ ~cache[k].has \/ cache[k].invalid \/ k \in old
                         THEN Sent ELSE Idle
    BY <1>3, <1>4, RecordFacts DEF OnMount
  <1>6. Mounted' = DOMAIN focus.poll[there]
    BY <1>2, <1>4 DEF Mounted
  <1>7. CacheTypeOK'
    BY <1>1, <1>2, <1>5, SameFocus DEF CacheTypeOK
  <1>8. ToldIsHeld'
    BY <1>1, <1>2, SameFocus DEF ToldIsHeld
  <1>9. KeysHold'
    <2>1. SUFFICES ASSUME NEW k \in Keys, NEW c, NEW g, NEW t, c = cache[k], g = fetch'[k], t = told
                   PROVE  KeyHolds(k, c, g, t)'
      BY <1>2, SameFocus DEF KeysHold
    <2>2. KeyHolds(k, c, fetch[k], t)
      BY <1>1, <2>1 DEF KeysHold
    <2>3. c.has => UpToDate(k, c.data, t) \/ c.raced \/ c.invalid
      BY <2>2 DEF KeyHolds
    <2>4. g.phase # "served" /\ (g.phase # "idle" => k \in Mounted')
          /\ (k \in Mounted' /\ c.has /\ c.invalid => g.phase # "idle")
      BY <1>5, <1>6, <2>1, RecordFacts
    <2>5. UpToDate(k, c.data, t)' = UpToDate(k, c.data, t)
      BY <1>2, SameFocus
    <2> QED BY <2>3, <2>4, <2>5 DEF KeyHolds
  <1> QED BY <1>7, <1>8, <1>9 DEF CacheInv

(* Every step keeps the invariant.                                          *)
LEMMA CacheStep ==
  ASSUME CacheInv, [CacheNext]_cacheVars
  PROVE  CacheInv'
  <1>1. CASE Submit \/ UNCHANGED cacheVars
    <2>1. UNCHANGED <<focus, here, server, cache, fetch, told>>
      BY <1>1 DEF Submit, cacheVars
    <2> QED BY <2>1, SameFocus DEF CacheInv, CacheTypeOK, ToldIsHeld, KeysHold
  <1>2. CASE Handle \/ \E r \in pending : Work(r)
    BY <1>2, WriteKeeps
  <1>3. CASE Succeed \/ Error
    BY <1>3, SettledKeeps
  <1>4. CASE Go
    BY <1>4, GoKeeps
  <1>5. CASE \E k \in Keys : Serve(k) \/ RetryFetch(k) \/ Poll(k)
    BY <1>5, ReadKeeps
  <1>6. CASE \E k \in Keys : Answer(k)
    BY <1>6, AnswerKeeps
  <1> QED BY <1>1, <1>2, <1>3, <1>4, <1>5, <1>6 DEF CacheNext

(* However often the mutation is sent, walked away from, lost or overtaken  *)
(* by a poll, and on whichever two pages: a query at rest on the screen     *)
(* shows at least what the console has undertaken to show, but for the keys *)
(* the code forgets and a first load that the mutation overtook.            *)
THEOREM CacheShowsSaved == CacheSpec => []ShownIsSaved
  <1>1. CacheInv => ShownIsSaved
    <2>1. SUFFICES ASSUME CacheInv, NEW k \in Mounted, Resting(k)
                   PROVE  UpToDate(k, cache[k].data, told)
      BY DEF ShownIsSaved, UpToDate
    <2>2. k \in Keys
      BY <2>1, FollowedFacts DEF CacheInv, CacheTypeOK
    <2>3. KeyHolds(k, cache[k], fetch[k], told)
      BY <2>1, <2>2 DEF CacheInv, KeysHold
    <2> QED BY <2>1, <2>3 DEF KeyHolds, Resting
  <1>2. CacheSpec => CacheInit /\ [][CacheNext]_cacheVars
    BY DEF CacheSpec
  <1> QED BY <1>1, <1>2, CacheInitially, CacheStep, PTL

-----------------------------------------------------------------------------
(* The document of a code block                                             *)

\* The lines a text is made of: those of the documents, and the one begun.
Words == {""} \cup UNION {Range(d) : d \in Documents}

\* A text: at least one line.
Wording(t) == t \in Seq(Words) /\ Len(t) \in Nat /\ Len(t) > 0

(* What is on screen is as long as the code of the last render and differs  *)
(* from it in the last line the highlighter saw at most.                    *)
Spelled(t, d) ==
  /\ t \in Seq(Words) /\ Len(t) = Len(d)
  /\ \E k \in Nat : /\ \A i \in 1 .. Len(d) : i # k => t[i] = d[i]
                    /\ k \in 1 .. Len(d) => Begins(t[k], d[k])

BlockTypeOK ==
  /\ document \in Documents
  /\ streaming \in BOOLEAN /\ known \in BOOLEAN /\ spec \in Specs
  /\ Wording(source) /\ Wording(deferredSource)

\* A stream has handed over so many chunks of its document.
StreamUnderway == streaming => \E n \in 0 .. 2 * Len(document) - 1 : source = Chunked(document, n)

\* A pass that was not let go reads the code of the last render.
PassIsCurrent == \A p \in passes : p.active => p.source = deferredSource

PassesOK ==
  /\ highlighted # Nothing => Wording(highlighted.source)
  /\ passes \subseteq [source : Seq(Words), spec : Specs, active : BOOLEAN]
  /\ \A p \in passes : Wording(p.source)
  /\ PassIsCurrent

BlockInv == BlockTypeOK /\ StreamUnderway /\ PassesOK

(* A document is a text.                                                    *)
LEMMA DocumentIsText ==
  ASSUME NEW d \in Documents
  PROVE  Wording(d)
  <1>1. d \in Seq(STRING) /\ d # <<>>
    BY DocumentsAssumption
  <1>2. \A i \in 1 .. Len(d) : d[i] \in Words
    <2> SUFFICES ASSUME NEW i \in 1 .. Len(d) PROVE d[i] \in Range(d)
      BY Zenon DEF Words
    <2>1. i \in DOMAIN d
      BY <1>1
    <2> QED BY <2>1, Zenon DEF Range
  <1>3. d \in Seq(Words)
    BY <1>1, <1>2
  <1> QED BY <1>1, <1>3 DEF Wording

(* The first chunks of a document are a text; none of them the empty one,   *)
(* all of them the document.                                                *)
LEMMA ChunksAreText ==
  ASSUME NEW d, Wording(d), NEW n \in 0 .. 2 * Len(d) - 1
  PROVE  /\ Wording(Chunked(d, n))
         /\ n = 2 * Len(d) - 1 => Chunked(d, n) = d
  <1> DEFINE h == n \div 2
             first == SubSeq(d, 1, h)
             w == IF n % 2 = 0 THEN "" ELSE d[h + 1]
  <1>1. h \in Nat /\ h < Len(d) /\ (n = 2 * Len(d) - 1 => h = Len(d) - 1 /\ n % 2 # 0)
    BY DEF Wording
  <1>2. first \in Seq(Words) /\ Len(first) = h /\ \A i \in 1 .. h : first[i] = d[i]
    BY <1>1 DEF Wording
  <1>3. d[h + 1] \in Words
    BY <1>1 DEF Wording
  <1>4. "" \in Words
    BY Zenon DEF Words
  <1>5. w \in Words /\ (n % 2 # 0 => w = d[h + 1])
    BY <1>3, <1>4
  <1>6. Chunked(d, n) = first \o <<w>>
    <2>1. CASE n % 2 = 0
      BY <2>1 DEF Chunked
    <2>2. CASE n % 2 # 0
      BY <2>2 DEF Chunked
    <2> QED BY <2>1, <2>2
  <1> HIDE DEF first, h, w
  <1>7. <<w>> \in Seq(Words) /\ Len(<<w>>) = 1 /\ <<w>>[1] = w
    BY <1>5
  <1>8. /\ first \o <<w>> \in Seq(Words) /\ Len(first \o <<w>>) = h + 1
        /\ \A i \in 1 .. h + 1 : (first \o <<w>>)[i] = IF i <= h THEN first[i] ELSE <<w>>[i - h]
    BY <1>2, <1>7, ConcatProperties
  <1>9. Wording(first \o <<w>>)
    BY <1>1, <1>8 DEF Wording
  <1>10. ASSUME n = 2 * Len(d) - 1 PROVE first \o <<w>> = d
    <2>1. w = d[Len(d)] /\ h = Len(d) - 1
      BY <1>10, <1>1, <1>5 DEF Wording
    <2>2. ASSUME NEW i \in 1 .. Len(d) PROVE (first \o <<w>>)[i] = d[i]
      BY <2>1, <1>2, <1>7, <1>8 DEF Wording
    <2>3. Len(first \o <<w>>) = Len(d)
      BY <2>1, <1>8 DEF Wording
    <2> HIDE DEF Words
    <2> QED BY <2>2, <2>3, <1>8, SeqEqual, Zenon DEF Wording
  <1> QED BY <1>6, <1>9, <1>10, Zenon

(* A line begins itself, nothing but the empty line begins that one, and a  *)
(* beginning of a beginning is one.                                         *)
LEMMA BeginsOrder ==
  /\ \A a : Begins(a, a) /\ Begins("", a) /\ (Begins(a, "") => a = "")
  /\ \A a, b, c : Begins(a, b) /\ Begins(b, c) => Begins(a, c)
  BY Zenon DEF Begins

(* A text of no code is one line.                                           *)
LEMMA NoCodeIsText == Wording(NoCode) /\ Len(NoCode) = 1 /\ NoCode[1] = ""
  <1>1. PICK w : w \in Words /\ w = ""
    BY Zenon DEF Words
  <1>2. NoCode = <<w>>
    BY <1>1, Zenon DEF NoCode
  <1>3. <<w>> \in Seq(Words) /\ Len(<<w>>) = 1 /\ <<w>>[1] = w
    <2> HIDE <1>1
    <2>1. w \in Words
      BY <1>1
    <2> QED BY ONLY <2>1
  <1>4. Wording(<<w>>)
    BY <1>3 DEF Wording
  <1> QED BY <1>1, <1>2, <1>3, <1>4, Zenon

(* startsWith, line by line.                                                *)
LEMMA StartsBy ==
  ASSUME NEW s, NEW t, Wording(s), Wording(t)
  PROVE  startsWith(t, s) <=> /\ Len(s) <= Len(t)
                              /\ \A i \in 1 .. Len(s) - 1 : s[i] = t[i]
                              /\ Begins(s[Len(s)], t[Len(s)])
  BY Zenon DEF startsWith, Last

(* Nothing but NoCode is the beginning of NoCode.                           *)
LEMMA OnlyNoCodeBegins ==
  ASSUME NEW s, Wording(s), startsWith(NoCode, s)
  PROVE  s = NoCode
  <1>1. Len(s) <= Len(NoCode) /\ Begins(s[Len(s)], NoCode[Len(s)])
    BY NoCodeIsText, StartsBy, Zenon
  <1>2. Len(s) = 1 /\ s[1] = NoCode[1]
    <2>1. Len(s) <= 1
      BY <1>1, NoCodeIsText, Zenon
    <2>2. Len(s) \in Nat /\ Len(s) > 0
      BY Zenon DEF Wording
    <2>3. Len(s) = 1
      BY ONLY <2>1, <2>2
    <2>4. Begins(s[1], "")
      BY <1>1, <2>3, NoCodeIsText, Zenon
    <2> QED BY <2>3, <2>4, NoCodeIsText, BeginsOrder, Zenon
  <1>3. \A i \in 1 .. Len(s) : s[i] = NoCode[i]
    BY <1>2
  <1> QED BY <1>2, <1>3, NoCodeIsText, SeqEqual, Zenon DEF Wording

(* Each line of a beginning begins the other text's line.                   *)
LEMMA LinesBegin ==
  ASSUME NEW s, NEW t, Wording(s), Wording(t), startsWith(t, s)
  PROVE  Len(s) <= Len(t) /\ \A i \in 1 .. Len(s) : Begins(s[i], t[i])
  <1>1. /\ Len(s) <= Len(t) /\ \A i \in 1 .. Len(s) - 1 : s[i] = t[i]
        /\ Begins(s[Len(s)], t[Len(s)])
    BY StartsBy
  <1>2. ASSUME NEW i \in 1 .. Len(s) PROVE Begins(s[i], t[i])
    <2>1. i = Len(s) \/ i \in 1 .. Len(s) - 1
      BY DEF Wording
    <2> QED BY <2>1, <1>1, BeginsOrder, Zenon
  <1> QED BY <1>1, <1>2

(* The beginning of a beginning is a beginning.                             *)
LEMMA BeginsOn ==
  ASSUME NEW r, NEW s, NEW t, Wording(r), Wording(s), Wording(t), startsWith(s, r), startsWith(t, s)
  PROVE  startsWith(t, r)
  <1>1. /\ Len(r) <= Len(s) /\ \A i \in 1 .. Len(r) - 1 : r[i] = s[i]
        /\ Begins(r[Len(r)], s[Len(r)])
    BY StartsBy
  <1>2. /\ Len(s) <= Len(t) /\ \A i \in 1 .. Len(s) - 1 : s[i] = t[i]
    BY StartsBy
  <1>3. Len(r) <= Len(t) /\ \A i \in 1 .. Len(r) - 1 : r[i] = t[i]
    BY <1>1, <1>2 DEF Wording
  <1>4. Begins(r[Len(r)], t[Len(r)])
    <2>1. Len(r) \in 1 .. Len(s)
      BY <1>1 DEF Wording
    <2>2. Begins(s[Len(r)], t[Len(r)])
      BY <2>1, LinesBegin
    <2> QED BY <1>1, <2>2, BeginsOrder, Zenon
  <1> QED BY <1>3, <1>4, StartsBy

(* The lines highlighted before, and the rest of the code after them.       *)
LEMMA Spliced ==
  ASSUME NEW hs, NEW d, Wording(hs), Wording(d), Len(hs) < Len(d)
  PROVE  LET m == hs \o SubSeq(d, Len(hs) + 1, Len(d))
         IN m \in Seq(Words) /\ Len(m) = Len(d) /\ \A i \in 1 .. Len(d) : m[i] = IF i <= Len(hs) THEN hs[i] ELSE d[i]
  <1> DEFINE rest == SubSeq(d, Len(hs) + 1, Len(d))
  <1>1. \A i \in Len(hs) + 1 .. Len(d) : d[i] \in Words
    BY DEF Wording
  <1>2. /\ rest \in Seq(Words)
        /\ Len(rest) = Len(d) - Len(hs)
        /\ \A i \in 1 .. Len(d) - Len(hs) : rest[i] = d[Len(hs) + i]
    <2>1. /\ rest \in Seq(Words)
          /\ Len(rest) = IF Len(hs) + 1 <= Len(d) THEN Len(d) - (Len(hs) + 1) + 1 ELSE 0
          /\ \A i \in 1 .. Len(d) - (Len(hs) + 1) + 1 : rest[i] = d[Len(hs) + 1 + i - 1]
      BY <1>1, SubSeqProperties DEF Wording
    <2> HIDE DEF rest
    <2> QED BY <2>1 DEF Wording
  <1> HIDE DEF rest
  <1>3. /\ hs \o rest \in Seq(Words)
        /\ Len(hs \o rest) = Len(hs) + Len(rest)
        /\ \A i \in 1 .. Len(hs) + Len(rest) : (hs \o rest)[i] = IF i <= Len(hs) THEN hs[i] ELSE rest[i - Len(hs)]
    BY <1>2, ConcatProperties DEF Wording
  <1>4. Len(hs \o rest) = Len(d)
    BY <1>2, <1>3 DEF Wording
  <1>5. ASSUME NEW i \in 1 .. Len(d) PROVE (hs \o rest)[i] = IF i <= Len(hs) THEN hs[i] ELSE d[i]
    BY <1>2, <1>3 DEF Wording
  <1> QED BY <1>3, <1>4, <1>5 DEF rest

\* A result that is merged in: of this style, and of a beginning of this code.
Taken(src, kn, def, sp, hl) ==
  shouldHighlight(src, kn) /\ hl # Nothing /\ hl.spec = sp /\ startsWith(def, hl.source)

(* A result that is not taken leaves the code plain; one that is stands in  *)
(* place of the lines it has.                                               *)
LEMMA MergedIs ==
  ASSUME NEW src, NEW kn, NEW def, NEW sp, NEW hl, Wording(def), hl # Nothing => Wording(hl.source)
  PROVE  LET m == merged(src, kn, def, sp, hl)
         IN /\ ~Taken(src, kn, def, sp, hl) => m = def
            /\ Taken(src, kn, def, sp, hl) =>
                 \A i \in 1 .. Len(def) : m[i] = IF i <= Len(hl.source) THEN hl.source[i] ELSE def[i]
            /\ m \in Seq(Words) /\ Len(m) = Len(def)
  <1> DEFINE m == merged(src, kn, def, sp, hl)
  <1>1. CASE ~Taken(src, kn, def, sp, hl)
    <2>1. m = def
      BY <1>1, Zenon DEF Taken, merged
    <2> QED BY <2>1, <1>1 DEF Wording
  <1>2. CASE Taken(src, kn, def, sp, hl)
    <2> DEFINE hs == hl.source
    <2>1. Wording(hs) /\ startsWith(def, hs) /\ Len(hs) <= Len(def)
      BY <1>2 DEF Taken, startsWith
    <2>2. m = IF Len(hs) >= Len(def) THEN hs ELSE hs \o SubSeq(def, Len(hs) + 1, Len(def))
      BY <1>2, Zenon DEF Taken, merged
    <2> HIDE DEF m, hs
    <2>3. m \in Seq(Words) /\ Len(m) = Len(def) /\ \A i \in 1 .. Len(def) : m[i] = IF i <= Len(hs) THEN hs[i] ELSE def[i]
      <3>1. CASE Len(hs) >= Len(def)
        BY <3>1, <2>1, <2>2 DEF Wording
      <3>2. CASE Len(hs) < Len(def)
        <4>1. m = hs \o SubSeq(def, Len(hs) + 1, Len(def))
          BY <3>2, <2>1, <2>2 DEF Wording
        <4> QED BY <4>1, <3>2, <2>1, Spliced
      <3> QED BY <3>1, <3>2, <2>1 DEF Wording
    <2> QED BY <1>2, <2>3 DEF m, hs
  <1> QED BY <1>1, <1>2

(* What is merged spells the code.                                          *)
LEMMA MergedSpells ==
  ASSUME NEW src, NEW kn, NEW def, NEW sp, NEW hl, Wording(def), hl # Nothing => Wording(hl.source)
  PROVE  Spelled(merged(src, kn, def, sp, hl), def)
  <1> DEFINE m == merged(src, kn, def, sp, hl)
  <1>1. m \in Seq(Words) /\ Len(m) = Len(def)
    BY MergedIs
  <1>2. CASE ~Taken(src, kn, def, sp, hl)
    <2>1. m = def
      BY <1>2, MergedIs
    <2> HIDE DEF m
    <2>2. \A i \in 1 .. Len(def) : i # 0 => m[i] = def[i]
      BY <2>1
    <2>3. 0 \in 1 .. Len(def) => Begins(m[0], def[0])
      BY DEF Wording
    <2>4. 0 \in Nat
      OBVIOUS
    <2> QED BY <1>1, <2>2, <2>3, <2>4, Zenon DEF Spelled, m
  <1>3. CASE Taken(src, kn, def, sp, hl)
    <2> DEFINE hs == hl.source
    <2>1. Wording(hs) /\ startsWith(def, hs)
      BY <1>3, Zenon DEF Taken
    <2>2. \A i \in 1 .. Len(def) : m[i] = IF i <= Len(hs) THEN hs[i] ELSE def[i]
      BY <1>3, MergedIs
    <2> HIDE DEF m, hs
    <2>3. /\ Len(hs) <= Len(def) /\ \A i \in 1 .. Len(hs) - 1 : hs[i] = def[i]
          /\ Begins(hs[Len(hs)], def[Len(hs)])
      BY <2>1, StartsBy
    <2>4. ASSUME NEW i \in 1 .. Len(def), i # Len(hs) PROVE m[i] = def[i]
      BY <2>1, <2>2, <2>3, <2>4 DEF Wording
    <2>5. Len(hs) \in 1 .. Len(def) /\ m[Len(hs)] = hs[Len(hs)]
      BY <2>1, <2>2, <2>3 DEF Wording
    <2>6. Begins(m[Len(hs)], def[Len(hs)])
      BY <2>3, <2>5, Zenon
    <2>7. Len(hs) \in Nat
      BY <2>1, Zenon DEF Wording
    <2> QED BY <1>1, <2>4, <2>6, <2>7, Zenon DEF Spelled, m
  <1> QED BY <1>2, <1>3

(* A text that spells the code differs from it in one line at most, which   *)
(* is cut short.                                                            *)
LEMMA SpelledShows ==
  ASSUME NEW t, NEW d, Wording(d), Spelled(t, d)
  PROVE  /\ Wording(t) /\ Len(t) = Len(d)
         /\ \A i \in 1 .. Len(t) : Begins(t[i], d[i])
         /\ Cardinality({i \in 1 .. Len(t) : t[i] # d[i]}) <= 1
  <1>1. t \in Seq(Words) /\ Len(t) = Len(d)
    BY Zenon DEF Spelled
  <1>2. PICK k \in Nat : /\ \A i \in 1 .. Len(d) : i # k => t[i] = d[i]
                         /\ k \in 1 .. Len(d) => Begins(t[k], d[k])
    BY Zenon DEF Spelled
  <1>3. Wording(t)
    BY <1>1 DEF Wording
  <1>4. \A i \in 1 .. Len(t) : Begins(t[i], d[i])
    BY <1>1, <1>2, BeginsOrder, Zenon
  <1> DEFINE cut == {i \in 1 .. Len(t) : t[i] # d[i]}
  <1>5. cut \subseteq {k}
    BY <1>1, <1>2, Zenon
  <1>6. IsFiniteSet({k}) /\ Cardinality({k}) = 1
    BY FS_Singleton
  <1>7. IsFiniteSet(cut) /\ Cardinality(cut) <= Cardinality({k})
    BY <1>5, <1>6, FS_Subset
  <1> HIDE DEF cut
  <1>8. Cardinality(cut) <= 1
    BY <1>6, <1>7
  <1> QED BY <1>1, <1>3, <1>4, <1>8, Zenon DEF cut

(* The passes let go read what they did, and are not the effect's own.      *)
LEMMA OvertakenKeeps ==
  ASSUME NEW ps, ps \subseteq [source : Seq(Words), spec : Specs, active : BOOLEAN], \A p \in ps : Wording(p.source),
         NEW q \in Overtaken(ps)
  PROVE  q \in [source : Seq(Words), spec : Specs, active : BOOLEAN] /\ Wording(q.source) /\ q.active = FALSE
  <1>1. PICK p \in ps : q = [p EXCEPT !.active = FALSE]
    BY Zenon DEF Overtaken
  <1>2. p \in [source : Seq(Words), spec : Specs, active : BOOLEAN]
    BY Zenon
  <1>3. q.source = p.source /\ q.active = FALSE /\ q \in [source : Seq(Words), spec : Specs, active : BOOLEAN]
    BY <1>1, <1>2
  <1> QED BY <1>3, Zenon

(* A render leaves the highlighter with texts, and the pass it starts reads *)
(* the code of this render.                                                 *)
LEMMA RenderKeeps ==
  ASSUME PassesOK, Render, Wording(deferredSource'), spec' \in Specs
  PROVE  PassesOK'
  <1> DEFINE should == shouldHighlight(source', known')
             same   == /\ should = shouldHighlight(source, known)
                       /\ <<deferredSource', known', spec'>> = <<deferredSource, known, spec>>
  <1>1. CASE same
    <2>1. UNCHANGED <<highlighted, passes>> /\ UNCHANGED deferredSource
      BY <1>1, Zenon DEF Render
    <2> QED BY <2>1 DEF PassesOK, PassIsCurrent
  <1>2. CASE ~same
    <2>1. /\ highlighted' = IF should THEN highlighted ELSE Nothing
          /\ passes' = Overtaken(passes) \cup
                         (IF should THEN {[source |-> deferredSource', spec |-> spec', active |-> TRUE]} ELSE {})
      BY <1>2, Zenon DEF Render
    <2> HIDE DEF should, same
    <2>2. highlighted' # Nothing => Wording(highlighted'.source)
      BY <2>1, Zenon DEF PassesOK
    <2>3. ASSUME NEW q \in passes'
          PROVE  /\ q \in [source : Seq(Words), spec : Specs, active : BOOLEAN] /\ Wording(q.source)
                 /\ q.active => q.source = deferredSource'
      <3>1. CASE q \in Overtaken(passes)
        <4>1. /\ passes \subseteq [source : Seq(Words), spec : Specs, active : BOOLEAN]
              /\ \A p \in passes : Wording(p.source)
          BY Zenon DEF PassesOK
        <4>2. q \in [source : Seq(Words), spec : Specs, active : BOOLEAN] /\ Wording(q.source) /\ q.active = FALSE
          BY ONLY <3>1, <4>1, OvertakenKeeps, Zenon
        <4> QED BY <4>2, Zenon
      <3>2. CASE q = [source |-> deferredSource', spec |-> spec', active |-> TRUE]
        <4>1. deferredSource' \in Seq(Words)
          BY Zenon DEF Wording
        <4>2. q.source = deferredSource'
          BY <3>2
        <4>3. q \in [source : Seq(Words), spec : Specs, active : BOOLEAN]
          BY <3>2, <4>1
        <4> QED BY <4>2, <4>3, Zenon
      <3> QED BY <2>1, <2>3, <3>1, <3>2, Zenon
    <2> QED BY <2>2, <2>3, Zenon DEF PassesOK, PassIsCurrent
  <1> QED BY <1>1, <1>2

(* Before its first chunk a stream has shown no code.                       *)
LEMMA ChunkedNone ==
  ASSUME NEW d, Wording(d)
  PROVE  0 \in 0 .. 2 * Len(d) - 1 /\ Chunked(d, 0) = NoCode
  <1>1. 0 \in 0 .. 2 * Len(d) - 1 /\ 0 \div 2 = 0 /\ 0 % 2 = 0
    BY DEF Wording
  <1>2. Chunked(d, 0) = SubSeq(d, 1, 0) \o NoCode
    BY <1>1, Zenon DEF Chunked, NoCode
  <1>3. SubSeq(d, 1, 0) = <<>>
    BY SubSeqEmpty
  <1>4. <<>> \o NoCode = NoCode
    BY NoCodeIsText, ConcatEmptySeq, Zenon DEF Wording
  <1> QED BY <1>1, <1>2, <1>3, <1>4, Zenon

(* The next chunk of a stream is one more of its document's.                *)
LEMMA ChunkMoves ==
  ASSUME NEW d, NEW t, Wording(d), \E n \in 0 .. 2 * Len(d) - 1 : t = Chunked(d, n), t # d
  PROVE  NextText(d, t) + 1 \in 0 .. 2 * Len(d) - 1
  <1> DEFINE n == NextText(d, t)
  <1>1. n \in 0 .. 2 * Len(d) - 1 /\ Chunked(d, n) = t
    BY Zenon DEF NextText
  <1> HIDE DEF n
  <1>2. n # 2 * Len(d) - 1
    BY <1>1, ChunksAreText, Zenon
  <1>3. n + 1 \in 0 .. 2 * Len(d) - 1
    BY <1>1, <1>2 DEF Wording
  <1> QED BY <1>3 DEF n

(* Every step of the block leaves texts, a stream underway and passes of    *)
(* the code they were started for.                                          *)
LEMMA BlockStep ==
  ASSUME BlockInv, [BlockNext]_blockVars
  PROVE  BlockInv'
  <1> USE DEF BlockInv
  <1>1. ASSUME NEW d \in Documents, NEW streamed \in BOOLEAN, Show(d, streamed) PROVE BlockInv'
    <2>1. /\ document' = d /\ source' = (IF streamed THEN NoCode ELSE d) /\ streaming' = streamed
          /\ spec' = spec /\ known' = known /\ deferredSource' = deferredSource /\ Render
      BY <1>1, Zenon DEF Show, Commit
    <2>2. Wording(d)
      BY DocumentIsText
    <2>3. BlockTypeOK'
      BY <2>1, <2>2, NoCodeIsText, Zenon DEF BlockTypeOK
    <2>4. StreamUnderway'
      BY <2>1, <2>2, ChunkedNone, Zenon DEF StreamUnderway
    <2>5. PassesOK'
      BY <2>1, <2>3, RenderKeeps, Zenon DEF BlockTypeOK
    <2> QED BY <2>3, <2>4, <2>5
  <1>2. ASSUME Chunk PROVE BlockInv'
    <2>1. /\ streaming /\ source # document
          /\ source' = Chunked(document, NextText(document, source) + 1)
          /\ UNCHANGED <<document, streaming, spec, known, deferredSource>> /\ Render
      BY <1>2, Zenon DEF Chunk, Commit
    <2>2. Wording(document)
      BY DocumentIsText, Zenon DEF BlockTypeOK
    <2>3. NextText(document, source) + 1 \in 0 .. 2 * Len(document) - 1
      BY <2>1, <2>2, ChunkMoves, Zenon DEF StreamUnderway
    <2>4. Wording(source')
      BY <2>1, <2>2, <2>3, ChunksAreText, Zenon
    <2>5. BlockTypeOK'
      BY <2>1, <2>4 DEF BlockTypeOK
    <2>6. StreamUnderway'
      BY <2>1, <2>3 DEF StreamUnderway
    <2>7. PassesOK'
      BY <2>1, <2>5, RenderKeeps, Zenon DEF BlockTypeOK
    <2> QED BY <2>5, <2>6, <2>7
  <1>3. ASSUME EndStream PROVE BlockInv'
    <2>1. /\ streaming' = FALSE /\ source' = document
          /\ UNCHANGED <<document, spec, known, deferredSource>> /\ Render
      BY <1>3, Zenon DEF EndStream, Commit
    <2>2. Wording(document)
      BY DocumentIsText, Zenon DEF BlockTypeOK
    <2>3. BlockTypeOK' /\ StreamUnderway'
      BY <2>1, <2>2 DEF BlockTypeOK, StreamUnderway
    <2>4. PassesOK'
      BY <2>1, <2>3, RenderKeeps, Zenon DEF BlockTypeOK
    <2> QED BY <2>3, <2>4
  <1>4. ASSUME NEW s \in Specs, Restyle(s) PROVE BlockInv'
    <2>1. spec' = s /\ UNCHANGED <<document, source, streaming, known, deferredSource>> /\ Render
      BY <1>4, Zenon DEF Restyle, Commit
    <2>2. BlockTypeOK' /\ StreamUnderway'
      BY <2>1 DEF BlockTypeOK, StreamUnderway
    <2>3. PassesOK'
      BY <2>1, <2>2, RenderKeeps, Zenon DEF BlockTypeOK
    <2> QED BY <2>2, <2>3
  <1>5. ASSUME SetLanguage PROVE BlockInv'
    <2>1. known' = ~known /\ UNCHANGED <<document, source, streaming, spec, deferredSource>> /\ Render
      BY <1>5, Zenon DEF SetLanguage, Commit
    <2>2. BlockTypeOK' /\ StreamUnderway'
      BY <2>1 DEF BlockTypeOK, StreamUnderway
    <2>3. PassesOK'
      BY <2>1, <2>2, RenderKeeps, Zenon DEF BlockTypeOK
    <2> QED BY <2>2, <2>3
  <1>6. ASSUME Defer PROVE BlockInv'
    <2>1. deferredSource' = source /\ UNCHANGED <<document, source, streaming, spec, known>> /\ Render
      BY <1>6, Zenon DEF Defer, Commit, docVars
    <2>2. BlockTypeOK' /\ StreamUnderway'
      BY <2>1 DEF BlockTypeOK, StreamUnderway
    <2>3. PassesOK'
      BY <2>1, <2>2, RenderKeeps, Zenon DEF BlockTypeOK
    <2> QED BY <2>2, <2>3
  <1>7. ASSUME NEW p \in passes, NEW ok \in BOOLEAN, highlightCode(p, ok) PROVE BlockInv'
    <2>1. /\ UNCHANGED <<document, source, streaming, spec, known, deferredSource>>
          /\ passes' = passes \ {p}
          /\ highlighted' = IF p.active THEN [source |-> p.source, spec |-> p.spec, tokens |-> ok] ELSE highlighted
      BY <1>7, Zenon DEF highlightCode, docVars
    <2>2. BlockTypeOK' /\ StreamUnderway'
      BY <2>1 DEF BlockTypeOK, StreamUnderway
    <2>3. highlighted' # Nothing => Wording(highlighted'.source)
      <3>1. CASE p.active
        <4>1. highlighted'.source = p.source
          BY <2>1, <3>1
        <4> QED BY <4>1, Zenon DEF PassesOK
      <3>2. CASE ~p.active
        BY <2>1, <3>2, Zenon DEF PassesOK
      <3> QED BY <3>1, <3>2
    <2>4. PassesOK'
      BY <2>1, <2>3, Zenon DEF PassesOK, PassIsCurrent
    <2> QED BY <2>2, <2>4
  <1>8. ASSUME UNCHANGED <<docVars, deferredSource, highlighted, passes>> PROVE BlockInv'
    <2>1. BlockTypeOK' /\ StreamUnderway'
      BY <1>8 DEF docVars, BlockTypeOK, StreamUnderway
    <2>2. PassesOK'
      BY <1>8 DEF PassesOK, PassIsCurrent
    <2> QED BY <2>1, <2>2
  <1>9. ASSUME NEW ok, Loaded(ok) PROVE BlockInv'
    BY <1>8, <1>9, Zenon DEF Loaded
  <1>10. ASSUME NEW place, Scroll(place) PROVE BlockInv'
    BY <1>8, <1>10, Zenon DEF Scroll
  <1>11. CASE handleScroll
    BY <1>8, <1>11, Zenon DEF handleScroll
  <1>12. CASE UNCHANGED blockVars
    BY <1>8, <1>12, Zenon DEF blockVars
  <1> QED BY <1>1, <1>2, <1>3, <1>4, <1>5, <1>6, <1>7, <1>9, <1>10, <1>11, <1>12, Zenon
          DEF BlockNext, Authoring, Highlighter

\* Every line of one text stays or grows in another.
Grows(a, b) == Len(b) >= Len(a) /\ \A i \in 1 .. Len(a) : Begins(a[i], b[i])

(* The render that catches up with code that only grew takes no line back:  *)
(* a result it can take now and could not before is of the lines in between. *)
LEMMA CatchUpGrows ==
  ASSUME NEW src, NEW kn, NEW def, NEW sp, NEW hl, Wording(def), Wording(src), hl # Nothing => Wording(hl.source),
         startsWith(src, def)
  PROVE  Grows(merged(src, kn, def, sp, hl), merged(src, kn, src, sp, hl))
  <1> DEFINE a == merged(src, kn, def, sp, hl)
             b == merged(src, kn, src, sp, hl)
             hs == hl.source
  <1>1. /\ ~Taken(src, kn, def, sp, hl) => a = def
        /\ Taken(src, kn, def, sp, hl) => \A i \in 1 .. Len(def) : a[i] = IF i <= Len(hs) THEN hs[i] ELSE def[i]
        /\ Len(a) = Len(def)
    BY MergedIs
  <1>2. /\ ~Taken(src, kn, src, sp, hl) => b = src
        /\ Taken(src, kn, src, sp, hl) => \A i \in 1 .. Len(src) : b[i] = IF i <= Len(hs) THEN hs[i] ELSE src[i]
        /\ Len(b) = Len(src)
    BY MergedIs
  <1>3. Len(def) <= Len(src) /\ \A i \in 1 .. Len(def) : Begins(def[i], src[i])
    BY LinesBegin
  <1>4. Len(b) >= Len(a)
    BY <1>1, <1>2, <1>3 DEF Wording
  <1>5. ASSUME Taken(src, kn, def, sp, hl) PROVE Taken(src, kn, src, sp, hl)
    BY <1>5, BeginsOn, Zenon DEF Taken
  <1>6. ASSUME NEW i \in 1 .. Len(def) PROVE Begins(a[i], b[i])
    <2>1. i \in 1 .. Len(src)
      BY <1>3 DEF Wording
    <2>2. CASE Taken(src, kn, def, sp, hl)
      <3>1. a[i] = IF i <= Len(hs) THEN hs[i] ELSE def[i]
        BY <1>1, <2>2, Zenon
      <3>2. b[i] = IF i <= Len(hs) THEN hs[i] ELSE src[i]
        BY <1>2, <1>5, <2>1, <2>2, Zenon
      <3> HIDE DEF a, b, hs
      <3> QED BY <3>1, <3>2, <1>3, BeginsOrder, Zenon
    <2>3. CASE ~Taken(src, kn, def, sp, hl) /\ ~Taken(src, kn, src, sp, hl)
      <3>1. a = def /\ b = src
        BY <1>1, <1>2, <2>3, Zenon
      <3> HIDE DEF a, b, hs
      <3> QED BY <3>1, <1>3, Zenon
    <2>4. CASE ~Taken(src, kn, def, sp, hl) /\ Taken(src, kn, src, sp, hl)
      <3>1. a = def /\ b[i] = IF i <= Len(hs) THEN hs[i] ELSE src[i]
        BY <1>1, <1>2, <2>1, <2>4, Zenon
      <3>2. Wording(hs) /\ startsWith(src, hs) /\ ~startsWith(def, hs)
        BY <2>4, Zenon DEF Taken
      <3> HIDE DEF a, b, hs
      <3>3. /\ Len(hs) <= Len(src) /\ \A j \in 1 .. Len(hs) - 1 : hs[j] = src[j]
            /\ Begins(hs[Len(hs)], src[Len(hs)])
        BY <3>2, StartsBy
      <3>4. /\ \A j \in 1 .. Len(def) - 1 : def[j] = src[j]
        BY StartsBy
      <3>5. CASE i # Len(hs)
        <4>1. b[i] = src[i]
          <5>1. i > Len(hs) \/ i \in 1 .. Len(hs) - 1
            BY <3>2, <3>5 DEF Wording
          <5> QED BY <5>1, <3>1, <3>2, <3>3 DEF Wording
        <4> QED BY <4>1, <3>1, <1>3, Zenon
      <3>6. CASE i = Len(hs)
        <4>1. b[i] = hs[i]
          BY <3>1, <3>2, <3>6 DEF Wording
        <4>2. CASE hs[i] = src[i]
          BY <4>1, <4>2, <3>1, <1>3, Zenon
        <4>3. CASE hs[i] # src[i]
          <5>1. hs[i] = ""
            BY <3>3, <3>6, <4>3, Zenon DEF Begins
          <5>2. Begins(hs[Len(hs)], def[Len(hs)])
            BY <5>1, <3>6, Zenon DEF Begins
          <5>3. Len(hs) <= Len(def)
            BY <3>6 DEF Wording
          <5>4. \A j \in 1 .. Len(hs) - 1 : hs[j] = def[j]
            BY <3>2, <3>3, <3>4, <5>3 DEF Wording
          <5>5. startsWith(def, hs)
            BY <5>2, <5>3, <5>4, <3>2, StartsBy
          <5> QED BY <5>5, <3>2, Zenon
        <4> QED BY <4>2, <4>3
      <3> QED BY <3>5, <3>6
    <2> QED BY <2>2, <2>3, <2>4
  <1> HIDE DEF a, b
  <1>7. Grows(a, b)
    BY <1>1, <1>4, <1>6, Zenon DEF Grows
  <1> QED BY <1>7 DEF a, b

(* The code itself matters to what is merged only through whether it is to  *)
(* be highlighted at all.                                                   *)
LEMMA MergedByShould ==
  ASSUME NEW s, NEW t, NEW kn, NEW def, NEW sp, NEW hl, shouldHighlight(s, kn) = shouldHighlight(t, kn)
  PROVE  merged(s, kn, def, sp, hl) = merged(t, kn, def, sp, hl)
  BY DEF merged

\* The step of StreamOnlyGrows, and that of ReaderKeepsPlace.
GrowingStep ==
  (spec' = spec /\ known' = known /\ startsWith(source', source) /\ startsWith(source, deferredSource))
      => /\ Len(lines') >= Len(lines)
         /\ \A i \in 1 .. Len(lines) : Begins(lines[i], lines'[i])
ReaderStep ==
  (distance = "up" /\ ~stick /\ ~scrolled /\ Fresh' # Fresh /\ Len(lines') >= Len(lines)) => distance' = "up"

(* What is on screen is a text that spells the code of the last render.     *)
LEMMA LinesSpell ==
  ASSUME BlockInv
  PROVE  Wording(lines) /\ Spelled(lines, deferredSource) /\ ShownSpells
  <1>1. Wording(deferredSource) /\ (highlighted # Nothing => Wording(highlighted.source))
    BY Zenon DEF BlockInv, BlockTypeOK, PassesOK
  <1>2. Spelled(lines, deferredSource)
    BY <1>1, MergedSpells, Zenon DEF lines
  <1> QED BY <1>1, <1>2, SpelledShows, Zenon DEF ShownSpells

(* So it is after a step that keeps the invariant.                          *)
LEMMA LinesSpellNext ==
  ASSUME BlockInv'
  PROVE  Wording(lines')
  <1>1. Wording(deferredSource') /\ (highlighted' # Nothing => Wording(highlighted'.source))
    BY Zenon DEF BlockInv, BlockTypeOK, PassesOK
  <1>2. Spelled(merged(source', known', deferredSource', spec', highlighted'), deferredSource')
    BY <1>1, MergedSpells, Zenon
  <1>3. Wording(merged(source', known', deferredSource', spec', highlighted'))
    BY <1>1, <1>2, SpelledShows, Zenon
  <1> QED BY <1>3, Zenon DEF lines

(* A change of the code alone leaves what is on screen, or begins it.       *)
LEMMA CodeGrows ==
  ASSUME BlockInv, BlockInv', Render, UNCHANGED <<deferredSource, known, spec>>,
         startsWith(source', source), startsWith(source, deferredSource)
  PROVE  Grows(lines, lines')
  <1>1. Wording(source) /\ Wording(source') /\ Wording(deferredSource) /\ known \in BOOLEAN
    BY Zenon DEF BlockInv, BlockTypeOK
  <1>2. Wording(lines) /\ Wording(lines')
    BY LinesSpell, LinesSpellNext, Zenon
  <1>3. CASE shouldHighlight(source', known) = shouldHighlight(source, known)
    <2>1. highlighted' = highlighted
      BY <1>3, Zenon DEF Render
    <2>2. lines' = lines
      BY <1>3, <2>1, MergedByShould DEF lines
    <2>3. \A i \in 1 .. Len(lines) : Begins(lines[i], lines[i])
      BY BeginsOrder, Zenon
    <2>4. Len(lines) >= Len(lines)
      BY <1>2 DEF Wording
    <2> QED BY <2>2, <2>3, <2>4, Zenon DEF Grows
  <1>4. CASE source = NoCode
    <2>1. deferredSource = NoCode
      BY <1>1, <1>4, OnlyNoCodeBegins, Zenon
    <2>2. lines = NoCode
      <3>1. ~shouldHighlight(source, known)
        BY <1>4, Zenon DEF shouldHighlight
      <3> QED BY <2>1, <3>1, Zenon DEF lines, merged
    <2>3. Len(lines) = 1 /\ lines[1] = ""
      BY <2>2, NoCodeIsText, Zenon
    <2>4. Len(lines) = 1
      BY <2>3, Zenon
    <2>5. Len(lines') >= Len(lines)
      BY <1>2, <2>4 DEF Wording
    <2>6. \A i \in 1 .. Len(lines) : lines[i] = lines[1]
      BY <2>4
    <2> QED BY <2>3, <2>5, <2>6, BeginsOrder, Zenon DEF Grows
  <1>5. CASE source # NoCode /\ shouldHighlight(source', known) # shouldHighlight(source, known)
    <2>1. source' = NoCode
      BY <1>1, <1>5, Zenon DEF shouldHighlight
    <2>2. source = NoCode
      BY <1>1, <2>1, OnlyNoCodeBegins, Zenon
    <2> QED BY <1>5, <2>2, Zenon
  <1> QED BY <1>3, <1>4, <1>5, Zenon

(* No step of the block takes a line of a growing stream back.              *)
LEMMA BlockGrows ==
  ASSUME BlockInv, BlockInv', [BlockNext]_blockVars
  PROVE  GrowingStep
  <1> SUFFICES ASSUME spec' = spec, known' = known, startsWith(source', source), startsWith(source, deferredSource)
               PROVE  Grows(lines, lines')
    BY Zenon DEF GrowingStep, Grows
  <1>1. Wording(lines) /\ Spelled(lines, deferredSource) /\ Wording(source) /\ Wording(deferredSource) /\ known \in BOOLEAN
    BY LinesSpell, Zenon DEF BlockInv, BlockTypeOK
  <1>2. ASSUME lines' = lines PROVE Grows(lines, lines')
    <2>1. Len(lines) >= Len(lines)
      BY <1>1 DEF Wording
    <2> QED BY <1>2, <2>1, BeginsOrder, Zenon DEF Grows
  <1>3. ASSUME NEW d, NEW streamed, Show(d, streamed) PROVE Grows(lines, lines')
    <2>1. UNCHANGED <<deferredSource, known, spec>> /\ Render
      BY <1>3 DEF Show, Commit
    <2> QED BY <2>1, CodeGrows, Zenon
  <1>4. ASSUME Chunk PROVE Grows(lines, lines')
    <2>1. UNCHANGED <<deferredSource, known, spec>> /\ Render
      BY <1>4 DEF Chunk, Commit
    <2> QED BY <2>1, CodeGrows, Zenon
  <1>5. ASSUME EndStream PROVE Grows(lines, lines')
    <2>1. UNCHANGED <<deferredSource, known, spec>> /\ Render
      BY <1>5 DEF EndStream, Commit
    <2> QED BY <2>1, CodeGrows, Zenon
  <1>6. ASSUME NEW s, Restyle(s) PROVE Grows(lines, lines')
    BY <1>6, Zenon DEF Restyle
  <1>7. ASSUME SetLanguage PROVE Grows(lines, lines')
    <2>1. known = ~known
      BY <1>7, Zenon DEF SetLanguage
    <2> QED BY <1>1, <2>1
  <1>8. ASSUME Defer PROVE Grows(lines, lines')
    <2>1. deferredSource # source /\ deferredSource' = source /\ UNCHANGED <<source, known, spec>> /\ Render
      BY <1>8, Zenon DEF Defer, Commit, docVars
    <2>2. highlighted # Nothing => Wording(highlighted.source)
      BY Zenon DEF BlockInv, PassesOK
    <2>3. CASE ~shouldHighlight(source, known)
      <3>1. lines = deferredSource
        BY <2>3, Zenon DEF lines, merged
      <3>2. lines' = source
        BY <2>1, <2>3 DEF lines, merged
      <3>3. Grows(deferredSource, source)
        <4>1. Len(deferredSource) <= Len(source) /\ \A i \in 1 .. Len(deferredSource) : Begins(deferredSource[i], source[i])
          BY <1>1, LinesBegin, Zenon
        <4>2. Len(source) >= Len(deferredSource)
          BY <4>1, <1>1 DEF Wording
        <4> QED BY <4>1, <4>2, Zenon DEF Grows
      <3> QED BY <3>1, <3>2, <3>3
    <2>4. CASE shouldHighlight(source, known)
      <3>1. highlighted' = highlighted
        BY <2>1, <2>4 DEF Render
      <3>2. lines' = merged(source, known, source, spec, highlighted)
        BY <2>1, <3>1 DEF lines
      <3>3. Grows(merged(source, known, deferredSource, spec, highlighted), merged(source, known, source, spec, highlighted))
        BY <1>1, <2>2, CatchUpGrows, Zenon
      <3> QED BY <3>2, <3>3, Zenon DEF lines
    <2> QED BY <2>3, <2>4
  <1>9. ASSUME NEW p \in passes, NEW ok \in BOOLEAN, highlightCode(p, ok) PROVE Grows(lines, lines')
    <2>1. /\ UNCHANGED <<source, known, deferredSource, spec>>
          /\ highlighted' = IF p.active THEN [source |-> p.source, spec |-> p.spec, tokens |-> ok] ELSE highlighted
      BY <1>9, Zenon DEF highlightCode, docVars
    <2>2. CASE ~p.active
      <3>1. lines' = lines
        BY <2>1, <2>2 DEF lines
      <3> QED BY <1>2, <3>1
    <2>3. CASE p.active
      <3>1. p.source = deferredSource
        BY <2>3, Zenon DEF BlockInv, PassesOK, PassIsCurrent
      <3>2. highlighted'.source = deferredSource
        BY <2>1, <2>3, <3>1
      <3>3. lines' = deferredSource
        <4>1. Len(deferredSource) >= Len(deferredSource)
          BY <1>1 DEF Wording
        <4>2. merged(source, known, deferredSource, spec, highlighted') = deferredSource
          BY <3>2, <4>1, Zenon DEF merged
        <4> QED BY <2>1, <4>2 DEF lines
      <3>4. Grows(lines, deferredSource)
        <4>1. Len(lines) = Len(deferredSource) /\ \A i \in 1 .. Len(lines) : Begins(lines[i], deferredSource[i])
          BY <1>1, SpelledShows, Zenon
        <4>2. Len(deferredSource) >= Len(lines)
          BY <4>1, <1>1 DEF Wording
        <4> QED BY <4>1, <4>2, Zenon DEF Grows
      <3> QED BY <3>3, <3>4
    <2> QED BY <2>2, <2>3
  <1>10. ASSUME UNCHANGED <<docVars, deferredSource, highlighted, passes>> PROVE Grows(lines, lines')
    <2>1. lines' = lines
      BY <1>10 DEF lines, docVars
    <2> QED BY <1>2, <2>1
  <1>11. ASSUME NEW ok, Loaded(ok) PROVE Grows(lines, lines')
    BY <1>10, <1>11, Zenon DEF Loaded
  <1>12. ASSUME NEW place, Scroll(place) PROVE Grows(lines, lines')
    BY <1>10, <1>12, Zenon DEF Scroll
  <1>13. CASE handleScroll
    BY <1>10, <1>13, Zenon DEF handleScroll
  <1>14. CASE UNCHANGED blockVars
    BY <1>10, <1>14, Zenon DEF blockVars
  <1> QED BY <1>3, <1>4, <1>5, <1>6, <1>7, <1>8, <1>9, <1>11, <1>12, <1>13, <1>14, Zenon
          DEF BlockNext, Authoring, Highlighter

(* The layout effect leaves a reader who was seen to scroll up where he is. *)
LEMMA StickLeaves ==
  ASSUME BlockInv, BlockInv', StickToEnd
  PROVE  ReaderStep
  <1> SUFFICES ASSUME distance = "up", ~stick, Fresh' # Fresh, Len(lines') >= Len(lines)
               PROVE  distance' = "up"
    BY Zenon DEF ReaderStep
  <1>1. Len(lines) \in Nat /\ Len(lines') \in Nat
    BY LinesSpell, LinesSpellNext, Zenon DEF Wording
  <1>2. ~(Len(lines') < Len(lines))
    BY <1>1
  <1>3. distance' \in {distance} \cup (IF Len(lines') > Len(lines) THEN {"up"} ELSE {})
                                 \cup (IF Len(lines') < Len(lines) THEN {"end"} ELSE {})
    BY Zenon DEF StickToEnd
  <1> QED BY <1>2, <1>3, Zenon

(* No step of the block moves a reader who was seen to scroll up to the end. *)
LEMMA BlockLeavesReader ==
  ASSUME BlockInv, BlockInv', [BlockNext]_blockVars
  PROVE  ReaderStep
  <1>1. ASSUME StickToEnd PROVE ReaderStep
    BY <1>1, StickLeaves, Zenon
  <1>2. ASSUME NEW d, NEW streamed, Show(d, streamed) PROVE ReaderStep
    BY <1>1, <1>2, Zenon DEF Show, Commit
  <1>3. CASE Chunk
    BY <1>1, <1>3, Zenon DEF Chunk, Commit
  <1>4. CASE EndStream
    BY <1>1, <1>4, Zenon DEF EndStream, Commit
  <1>5. ASSUME NEW s, Restyle(s) PROVE ReaderStep
    BY <1>1, <1>5, Zenon DEF Restyle, Commit
  <1>6. CASE SetLanguage
    BY <1>1, <1>6, Zenon DEF SetLanguage, Commit
  <1>7. CASE Defer
    BY <1>1, <1>7, Zenon DEF Defer, Commit
  <1>8. ASSUME NEW p, NEW ok, highlightCode(p, ok) PROVE ReaderStep
    BY <1>1, <1>8, Zenon DEF highlightCode
  <1>9. ASSUME UNCHANGED <<docVars, deferredSource, highlighted>> PROVE ReaderStep
    <2>1. Fresh' = Fresh
      BY <1>9 DEF Fresh, docVars
    <2> QED BY <2>1, Zenon DEF ReaderStep
  <1>10. ASSUME NEW ok, Loaded(ok) PROVE ReaderStep
    BY <1>9, <1>10, Zenon DEF Loaded
  <1>11. ASSUME NEW place, Scroll(place) PROVE ReaderStep
    BY <1>9, <1>11, Zenon DEF Scroll
  <1>12. CASE handleScroll
    BY <1>9, <1>12, Zenon DEF handleScroll
  <1>13. CASE UNCHANGED blockVars
    BY <1>9, <1>13, Zenon DEF blockVars
  <1> QED BY <1>2, <1>3, <1>4, <1>5, <1>6, <1>7, <1>8, <1>10, <1>11, <1>12, <1>13, Zenon
          DEF BlockNext, Authoring, Highlighter

(* Whatever the page shows, streams or restyles, and however late and in    *)
(* whatever order the highlighter answers: the lines on screen are those of *)
(* the last render, a stream takes none back, and nothing that arrives      *)
(* moves a reader who was seen to scroll up (CodeBlock, CodeBlockSurface).  *)
THEOREM BlockStreamReads == BlockSpec => StreamReads
  <1>1. BlockInit => BlockInv
    <2> SUFFICES ASSUME BlockInit PROVE BlockInv
      OBVIOUS
    <2>1. BlockTypeOK /\ StreamUnderway
      BY NoCodeIsText, Zenon DEF BlockInit, BlockTypeOK, StreamUnderway
    <2>2. PassesOK
      BY DEF BlockInit, PassesOK, PassIsCurrent
    <2> QED BY <2>1, <2>2 DEF BlockInv
  <1>2. BlockInv /\ [BlockNext]_blockVars => BlockInv'
    BY BlockStep
  <1>3. BlockInv => ShownSpells
    BY LinesSpell
  <1>4. BlockInv /\ BlockInv' /\ [BlockNext]_blockVars => GrowingStep /\ ReaderStep
    BY BlockGrows, BlockLeavesReader
  <1> QED BY <1>1, <1>2, <1>3, <1>4, PTL
          DEF BlockSpec, StreamReads, StreamOnlyGrows, ReaderKeepsPlace, GrowingStep, ReaderStep

-----------------------------------------------------------------------------
(* The surface of a code block                                              *)

(* However groups of line actions mount, change and unmount, the rows show  *)
(* those of the group that registered last while it is there, and none of a *)
(* group that is gone.                                                      *)
THEOREM SurfaceShowsLatest == ViewSpec => []ActionsOfLatest
  <1>1. ViewInit => ActionsOfLatest
    BY DEF ViewInit, ActionsOfLatest
  <1>2. ActionsOfLatest /\ [ViewNext]_surfaceVars => ActionsOfLatest'
    <2> SUFFICES ASSUME ActionsOfLatest, [ViewNext]_surfaceVars PROVE ActionsOfLatest'
      OBVIOUS
    <2>1. ASSUME UNCHANGED actionVars PROVE ActionsOfLatest'
      BY <2>1 DEF actionVars, ActionsOfLatest
    <2>2. CASE SetCode
      BY <2>1, <2>2 DEF SetCode, actionVars
    <2>3. ASSUME NEW n, toggleFold(n) \/ pressMarker(n) \/ trackActive(n) \/ edgeKey(n) PROVE UNCHANGED actionVars
      <3>1. CASE toggleFold(n)
        BY <3>1 DEF toggleFold, actionVars
      <3>2. CASE pressMarker(n)
        BY <3>2 DEF pressMarker, actionVars
      <3>3. CASE trackActive(n)
        BY <3>3 DEF trackActive, actionVars
      <3>4. CASE edgeKey(n)
        BY <3>4 DEF edgeKey, actionVars
      <3> QED BY <2>3, <3>1, <3>2, <3>3, <3>4
    <2>4. ASSUME NEW n, NEW extend, clickLine(n, extend) PROVE UNCHANGED actionVars
      BY <2>4 DEF clickLine, actionVars
    <2>5. ASSUME NEW step, NEW extend, arrowKey(step, extend) PROVE UNCHANGED actionVars
      BY <2>5 DEF arrowKey, actionVars
    <2>6. ASSUME NEW extend, enterKey(extend) PROVE UNCHANGED actionVars
      BY <2>6 DEF enterKey, actionVars
    <2>7. ASSUME foldAll \/ unfoldAll \/ clearSelection \/ clearActive PROVE UNCHANGED actionVars
      BY <2>7 DEF foldAll, unfoldAll, clearSelection, clearActive, actionVars
    <2>8. CASE Surface
      BY <2>8, <2>1, <2>2, <2>3, <2>4, <2>5, <2>6, <2>7, Zenon DEF Surface
    <2>9. ASSUME NEW o, register(o) PROVE ActionsOfLatest'
      BY <2>9 DEF register, ActionsOfLatest
    <2>10. ASSUME NEW o, unregister(o) PROVE ActionsOfLatest'
      BY <2>10 DEF unregister, ActionsOfLatest
    <2>11. CASE UNCHANGED surfaceVars
      BY <2>1, <2>11 DEF surfaceVars
    <2> QED BY <2>8, <2>9, <2>10, <2>11, Zenon DEF ViewNext, Registry
  <1> QED BY <1>1, <1>2, PTL DEF ViewSpec

-----------------------------------------------------------------------------
(* The request of a report                                                  *)

States == {"sent", "waiting", "created", "refused", "busy", "conflict", "lost"}
Requests == [body : Bodies, key : RequestKeys]
Mutations == [body : Bodies, key : RequestKeys, failures : 0 .. 1, state : States]
Recorded == [status : {"in flight", "created", "refused", "busy"}, expired : BOOLEAN]

RequestTypeOK ==
  /\ body \in Bodies \cup {Shut}
  /\ lastRequest \in {None} \cup Requests
  /\ keys \in 0 .. MaxKeys
  /\ submit \in {None} \cup Mutations
  /\ handling \subseteq RequestKeys /\ late \subseteq RequestKeys /\ runs \subseteq RequestKeys
  /\ records \in [RequestKeys -> {None} \cup Recorded]
  /\ streak \in Nat /\ lapses \in Nat /\ losses \in Nat

\* A key is used by the form, the mutation or a request on its way only once it
\* was made.
KeysAreMade ==
  /\ lastRequest # None => lastRequest.key <= keys
  /\ submit # None => submit.key <= keys
  /\ \A k \in RequestKeys : k > keys => records[k] = None /\ k \notin late

\* A request is worked on only under a record, which does not expire meanwhile,
\* and a record that says a run was made is right.
UnderRecord ==
  \A k \in RequestKeys :
    /\ k \in handling => records[k] # None /\ ~records[k].expired
    /\ records[k] # None => (records[k].status = "created" => k \in runs)

\* Work under way, and a record that is gone, are each one run fewer than the
\* cleanups allow.
StreakCounts ==
  /\ streak <= 1 + lapses
  /\ lastRequest # None => (lastRequest.key \in handling \/ records[lastRequest.key] = None => streak <= lapses)

AnswersAreTrue == submit # None => (submit.state = "created" => submit.key \in runs)

RequestInv == RequestTypeOK /\ KeysAreMade /\ UnderRecord /\ StreakCounts /\ AnswersAreTrue

---------------------------------------------------------------------------
(* Nothing that has fields of its own is None. *)
LEMMA NotNone ==
  /\ None \notin Requests /\ None \notin Mutations /\ None \notin Recorded
BY DEF None, Requests, Mutations, Recorded

(* The form starts with no key made and no record written.                  *)
LEMMA RequestInitHolds == RequestInit => RequestInv
BY RequestAssumption, NotNone
   DEF RequestInit, RequestInv, RequestTypeOK, RequestKeys, KeysAreMade, UnderRecord, StreakCounts, AnswersAreTrue

(* Answering the mutation changes nothing of it but its state. *)
LEMMA AnsweredKeeps ==
  ASSUME RequestTypeOK, KeysAreMade, AnswersAreTrue, NEW k, NEW status \in States, NEW made,
         status = "created" => k \in runs \cup made
  PROVE  /\ Answered(k, status) \in {None} \cup Mutations
         /\ Answered(k, status) # None =>
              /\ Answered(k, status).key <= keys
              /\ Answered(k, status).state = "created" => Answered(k, status).key \in runs \cup made
<1>1. CASE submit # None /\ submit.key = k /\ submit.state = "waiting"
  <2>1. submit \in Mutations
    BY <1>1 DEF RequestTypeOK
  <2> QED BY <1>1, <2>1 DEF Answered, Mutations, KeysAreMade
<1>2. CASE ~(submit # None /\ submit.key = k /\ submit.state = "waiting")
  BY <1>2 DEF Answered, RequestTypeOK, KeysAreMade, AnswersAreTrue
<1> QED BY <1>1, <1>2

(* A press: the key is the last one's, or one that no record knows. *)
LEMMA PressKeeps == ASSUME RequestInv, Press PROVE RequestInv'
<1> USE DEF RequestInv, RequestTypeOK, KeysAreMade, UnderRecord, StreakCounts, AnswersAreTrue
<1>1. body \in Bodies
  BY DEF Press
<1>2. CASE Same
  <2>1. lastRequest # None /\ lastRequest \in Requests /\ UNCHANGED <<lastRequest, keys, streak, lapses>>
    BY <1>2 DEF Press, Keyed, Same
  <2>3. submit' = [body |-> body, key |-> lastRequest.key, failures |-> 0, state |-> "sent"]
    BY <2>1 DEF Press
  <2>4. lastRequest.key \in RequestKeys
    BY <2>1 DEF Requests
  <2>2. submit' \in Mutations /\ submit'.key <= keys /\ submit'.state # "created"
    BY <1>1, <2>1, <2>3, <2>4 DEF Mutations, States
  <2> QED BY <2>1, <2>2 DEF Press
<1>3. CASE ~Same
  <2>1. /\ keys < MaxKeys /\ keys' = keys + 1 /\ streak' = 0 /\ lapses' = 0
        /\ lastRequest' = [body |-> body, key |-> keys + 1]
    BY <1>3 DEF Press, Keyed
  <2>2. keys + 1 \in RequestKeys /\ keys' \in 0 .. MaxKeys /\ keys + 1 > keys
    BY <2>1, RequestAssumption DEF RequestKeys
  <2>3. lastRequest' \in Requests /\ lastRequest'.key = keys'
    BY <1>1, <2>1, <2>2 DEF Requests
  <2>4. submit' \in Mutations /\ submit'.key = keys' /\ submit'.state # "created"
    <3>1. submit' = [body |-> body, key |-> keys', failures |-> 0, state |-> "sent"]
      BY <2>3 DEF Press
    <3>2. keys' \in RequestKeys
      BY <2>1, <2>2
    <3> QED BY <1>1, <3>1, <3>2 DEF Mutations, States
  <2>5. UNCHANGED <<body, handling, late, records, runs, losses>>
    BY DEF Press
  <2>7. RequestTypeOK' /\ UnderRecord' /\ AnswersAreTrue'
    BY <2>1, <2>2, <2>3, <2>4, <2>5
  <2>8. KeysAreMade'
    <3> SUFFICES ASSUME NEW k \in RequestKeys, k > keys' PROVE records[k] = None /\ k \notin late
      BY <2>2, <2>3, <2>4, <2>5
    <3>1. k > keys
      BY <2>1 DEF RequestKeys
    <3> QED BY <3>1
  <2>9. StreakCounts'
    BY <2>1
  <2> QED BY <2>7, <2>8, <2>9
<1> QED BY <1>2, <1>3

(* A key the server does not know gets a record that is not expired; the   *)
(* run it may make was counted when the last one was deleted.               *)
LEMMA BeginKeeps ==
  ASSUME RequestInv, NEW k \in RequestKeys, k <= keys, ~RecordOf(k), Begin(k),
         late' \subseteq late, UNCHANGED <<lastRequest, keys, runs, streak, lapses>>
  PROVE  /\ records' \in [RequestKeys -> {None} \cup Recorded] /\ handling' \subseteq RequestKeys
         /\ \A j \in RequestKeys : j > keys => records'[j] = None /\ j \notin late'
         /\ UnderRecord' /\ StreakCounts'
<1> USE DEF RequestInv, RequestTypeOK, KeysAreMade, UnderRecord, StreakCounts
<1> DEFINE row == [status |-> "in flight", expired |-> FALSE]
<1>1. row \in Recorded /\ row.status = "in flight" /\ row.expired = FALSE
  BY DEF Recorded
<1>2. row # None
  <2> HIDE DEF row
  <2> QED BY <1>1, NotNone
<1>3. records' = [records EXCEPT ![k] = row] /\ handling' = handling \cup {k} /\ records[k] = None
  BY DEF Begin, RecordOf
<1> HIDE DEF row
<1>4. records'[k] = row /\ \A j \in RequestKeys \ {k} : records'[j] = records[j]
  BY <1>3
<1>5. records' \in [RequestKeys -> {None} \cup Recorded] /\ handling' \subseteq RequestKeys
  BY <1>1, <1>3
<1>6. ASSUME NEW j \in RequestKeys, j > keys PROVE records'[j] = None /\ j \notin late'
  <2>1. j # k
    BY <1>6 DEF RequestKeys
  <2> QED BY <1>4, <1>6, <2>1
<1>7. UnderRecord'
  <2> SUFFICES ASSUME NEW j \in RequestKeys
               PROVE  /\ j \in handling' => records'[j] # None /\ ~records'[j].expired
                      /\ records'[j] # None => (records'[j].status = "created" => j \in runs')
    OBVIOUS
  <2>1. CASE j = k
    BY <1>1, <1>2, <1>4, <2>1
  <2>2. CASE j # k
    BY <1>3, <1>4, <2>2
  <2> QED BY <2>1, <2>2
<1>8. StreakCounts'
  <2>1. CASE lastRequest = None
    BY <2>1
  <2>2. CASE lastRequest # None
    <3>1. lastRequest.key \in RequestKeys
      BY <2>2 DEF Requests
    <3>2. CASE lastRequest.key = k
      BY <1>3, <2>2, <3>2
    <3>3. CASE lastRequest.key # k
      BY <1>3, <1>4, <2>2, <3>1, <3>3
    <3> QED BY <3>2, <3>3
  <2> QED BY <2>1, <2>2
<1> QED BY <1>5, <1>6, <1>7, <1>8

(* A request reaches the server: a new record, or the old one's answer. *)
LEMMA ReceiveKeeps == ASSUME RequestInv, Receive PROVE RequestInv'
<1> USE DEF RequestInv, RequestTypeOK, KeysAreMade, UnderRecord, StreakCounts, AnswersAreTrue
<1>1. submit \in Mutations /\ submit # None /\ UNCHANGED <<body, lastRequest, keys, late, runs, streak, lapses, losses>>
  BY DEF Receive, counters
<1> DEFINE k == submit.key
<1>2. k \in RequestKeys /\ k <= keys
  BY <1>1 DEF Mutations
<1>3. \A s \in States : [submit EXCEPT !.state = s] \in Mutations /\ [submit EXCEPT !.state = s].key = k
                        /\ [submit EXCEPT !.state = s].state = s
  BY <1>1 DEF Mutations
<1>4. CASE RecordOf(k)
  <2>1. UNCHANGED <<handling, records>>
    BY <1>4 DEF Receive
  <2>2. PICK answer \in Replays(records[k]) : submit' = [submit EXCEPT !.state = answer]
    BY <1>4 DEF Receive
  <2>3. answer \in States /\ (answer = "created" => records[k].status = "created")
    BY DEF Replays, States
  <2>4. submit' \in Mutations /\ submit'.key = k /\ submit'.state = answer
    BY <1>3, <2>2, <2>3
  <2>5. answer = "created" => k \in runs
    BY <1>2, <1>4, <2>3 DEF RecordOf
  <2> HIDE DEF k
  <2> QED BY <1>1, <1>2, <2>1, <2>4, <2>5
<1>5. CASE ~RecordOf(k)
  <2>1. submit' = [submit EXCEPT !.state = "waiting"] /\ Begin(k)
    BY <1>5 DEF Receive
  <2>2. submit' \in Mutations /\ submit'.key = k /\ submit'.state = "waiting"
    BY <1>3, <2>1 DEF States
  <2> HIDE DEF k
  <2>3. /\ records' \in [RequestKeys -> {None} \cup Recorded] /\ handling' \subseteq RequestKeys
        /\ \A j \in RequestKeys : j > keys => records'[j] = None /\ j \notin late'
        /\ UnderRecord' /\ StreakCounts'
    BY <1>1, <1>2, <1>5, <2>1, BeginKeeps
  <2> QED BY <1>1, <1>2, <2>2, <2>3
<1> QED BY <1>4, <1>5

(* So does one that was given up.                                           *)
LEMMA LateKeeps == ASSUME RequestInv, NEW k \in RequestKeys, ReceiveLate(k) PROVE RequestInv'
<1> USE DEF RequestInv, RequestTypeOK, KeysAreMade, UnderRecord, StreakCounts, AnswersAreTrue
<1>1. k <= keys /\ late' = late \ {k} /\ UNCHANGED <<body, lastRequest, keys, submit, runs, streak, lapses, losses>>
  BY DEF ReceiveLate, counters, RequestKeys
<1>2. CASE RecordOf(k)
  BY <1>1, <1>2 DEF ReceiveLate
<1>3. CASE ~RecordOf(k)
  <2>1. Begin(k)
    BY <1>3 DEF ReceiveLate
  <2>2. /\ records' \in [RequestKeys -> {None} \cup Recorded] /\ handling' \subseteq RequestKeys
        /\ \A j \in RequestKeys : j > keys => records'[j] = None /\ j \notin late'
        /\ UnderRecord' /\ StreakCounts'
    BY <1>1, <1>3, <2>1, BeginKeeps
  <2> QED BY <1>1, <2>2
<1> QED BY <1>2, <1>3

(* The server is done with a key: its record is kept, and answers the key. *)
LEMMA DoneKeeps ==
  ASSUME RequestInv, NEW k \in RequestKeys, NEW status \in States, NEW made \in SUBSET {k}, Done(k, made),
         submit' = Answered(k, status), status = "created" => k \in made,
         records' \in [RequestKeys -> {None} \cup Recorded], records'[k] # None,
         records'[k].status \in {records[k].status, status},
         \A j \in RequestKeys \ {k} : records'[j] = records[j],
         losses' \in Nat
  PROVE  RequestInv'
<1> USE DEF RequestInv, RequestTypeOK, KeysAreMade, UnderRecord, StreakCounts, AnswersAreTrue
<1>1. /\ k \in handling /\ handling' = handling \ {k} /\ runs' = runs \cup made
      /\ streak' = IF k \in made /\ lastRequest # None /\ lastRequest.key = k THEN streak + 1 ELSE streak
      /\ UNCHANGED <<body, lastRequest, keys, late, lapses>>
  BY DEF Done
<1>2. records[k] # None /\ k <= keys
  BY <1>1 DEF RequestKeys
<1>3. /\ submit' \in {None} \cup Mutations
      /\ submit' # None => submit'.key <= keys /\ (submit'.state = "created" => submit'.key \in runs')
  BY <1>1, AnsweredKeeps
<1>4. StreakCounts'
  <2>1. CASE lastRequest = None
    BY <1>1, <2>1
  <2>2. CASE lastRequest # None
    <3>1. lastRequest.key \in RequestKeys
      BY <2>2 DEF Requests
    <3>2. CASE lastRequest.key = k
      <4>1. streak <= lapses /\ streak' \in {streak, streak + 1} /\ lapses' = lapses
        BY <1>1, <2>2, <3>2
      <4>2. records'[lastRequest'.key] # None /\ lastRequest'.key \notin handling'
        BY <1>1, <3>2
      <4> QED BY <4>1, <4>2
    <3>3. CASE lastRequest.key # k
      BY <1>1, <2>2, <3>1, <3>3
    <3> QED BY <3>2, <3>3
  <2> QED BY <2>1, <2>2
<1>5. KeysAreMade'
  <2> SUFFICES ASSUME NEW j \in RequestKeys, j > keys PROVE records'[j] = None /\ j \notin late
    BY <1>1, <1>3
  <2>1. records[j] = None /\ j # k
    BY <1>2
  <2> QED BY <2>1
<1>6. UnderRecord'
  <2> SUFFICES ASSUME NEW j \in RequestKeys
               PROVE  /\ j \in handling' => records'[j] # None /\ ~records'[j].expired
                      /\ records'[j] # None => (records'[j].status = "created" => j \in runs')
    OBVIOUS
  <2>1. CASE j = k
    BY <1>1, <1>2, <2>1
  <2>2. CASE j # k
    BY <1>1, <2>2
  <2> QED BY <2>1, <2>2
<1>7. streak' \in Nat
  BY <1>1
<1> QED BY <1>1, <1>3, <1>4, <1>5, <1>6, <1>7

(* The endpoint works on a key only under the record it wrote.              *)
LEMMA ProcessKeeps ==
  ASSUME RequestInv, NEW k \in RequestKeys, NEW status \in {"created", "refused", "busy"}, Process(k, status)
  PROVE  RequestInv'
<1> DEFINE made == IF status = "created" THEN {k} ELSE {}
<1>1. k \in handling /\ records[k] # None /\ records[k] \in Recorded
  BY DEF Process, Done, RequestInv, RequestTypeOK, UnderRecord
<1>2. records' = [records EXCEPT ![k].status = status]
  BY DEF Process
<1>3. /\ [records[k] EXCEPT !.status = status] \in Recorded
      /\ [records[k] EXCEPT !.status = status].status = status
  BY <1>1 DEF Recorded
<1>4. records'[k] = [records[k] EXCEPT !.status = status] /\ \A j \in RequestKeys \ {k} : records'[j] = records[j]
  BY <1>2 DEF RequestInv, RequestTypeOK
<1>5. records' \in [RequestKeys -> {None} \cup Recorded]
  BY <1>2, <1>3, <1>4 DEF RequestInv, RequestTypeOK
<1>6. records'[k] # None
  BY <1>3, <1>4, NotNone
<1>7. Done(k, made) /\ made \in SUBSET {k} /\ (status = "created" => k \in made) /\ submit' = Answered(k, status)
  BY DEF Process
<1>8. status \in States /\ losses' \in Nat
  BY DEF Process, States, RequestInv, RequestTypeOK
<1> HIDE DEF made
<1> QED BY <1>3, <1>4, <1>5, <1>6, <1>7, <1>8, DoneKeeps

(* A handler that dies leaves its record in flight.                         *)
LEMMA DieKeeps ==
  ASSUME RequestInv, NEW k \in RequestKeys, Die(k)
  PROVE  RequestInv'
<1>1. PICK made \in SUBSET {k} : Done(k, made)
  BY DEF Die
<1>2. /\ records' = records /\ records \in [RequestKeys -> {None} \cup Recorded] /\ records[k] # None
      /\ submit' = Answered(k, "lost")
  BY <1>1 DEF Die, Done, RequestInv, RequestTypeOK, UnderRecord
<1>3. "lost" \in States /\ losses' \in Nat
  BY DEF Die, States, RequestInv, RequestTypeOK
<1> QED BY <1>1, <1>2, <1>3, DoneKeeps

(* A record nobody works under expires, and still answers its key.          *)
LEMMA ExpireKeeps == ASSUME RequestInv, NEW k \in RequestKeys, Expire(k) PROVE RequestInv'
<1> USE DEF RequestInv, RequestTypeOK, KeysAreMade, UnderRecord, StreakCounts, AnswersAreTrue
<1>1. records[k] # None /\ records[k] \in Recorded /\ k \notin handling
  BY DEF Expire
<1>2. /\ records' = [records EXCEPT ![k].expired = TRUE]
      /\ UNCHANGED <<body, lastRequest, keys, submit, handling, late, runs, streak, lapses, losses>>
  BY DEF Expire, counters
<1>3. /\ [records[k] EXCEPT !.expired = TRUE] \in Recorded
      /\ [records[k] EXCEPT !.expired = TRUE].status = records[k].status
  BY <1>1 DEF Recorded
<1>4. records'[k] = [records[k] EXCEPT !.expired = TRUE] /\ \A j \in RequestKeys \ {k} : records'[j] = records[j]
  BY <1>2
<1>5. records' \in [RequestKeys -> {None} \cup Recorded]
  BY <1>2, <1>3, <1>4
<1>6. \A j \in RequestKeys : records'[j] = None <=> records[j] = None
  BY <1>1, <1>3, <1>4, NotNone
<1>7. UnderRecord'
  <2> SUFFICES ASSUME NEW j \in RequestKeys
               PROVE  /\ j \in handling => records'[j] # None /\ ~records'[j].expired
                      /\ records'[j] # None => (records'[j].status = "created" => j \in runs)
    BY <1>2
  <2>1. CASE j = k
    BY <1>1, <1>3, <1>4, <2>1
  <2>2. CASE j # k
    BY <1>4, <2>2
  <2> QED BY <2>1, <2>2
<1>8. StreakCounts'
  <2>1. lastRequest # None => lastRequest.key \in RequestKeys
    BY DEF Requests
  <2> QED BY <1>2, <1>6, <2>1
<1> QED BY <1>2, <1>5, <1>6, <1>7, <1>8

(* A bound that grows is a bound still. *)
LEMMA BoundGrows ==
  ASSUME NEW n \in Nat, NEW low \in Nat, NEW high \in Nat, high = low \/ high = low + 1
  PROVE  (n <= 1 + low => n <= 1 + high) /\ (n <= low => n <= high)
OBVIOUS

(* The cleanup takes no record that is worked under, and counts the one it *)
(* takes of the form's own key.                                             *)
LEMMA CleanupKeeps == ASSUME RequestInv, Cleanup PROVE RequestInv'
<1> USE DEF RequestInv, RequestTypeOK, KeysAreMade, UnderRecord, StreakCounts, AnswersAreTrue
<1>1. /\ records' = [k \in RequestKeys |-> IF k \in Expired THEN None ELSE records[k]]
      /\ UNCHANGED <<body, lastRequest, keys, submit, handling, late, runs, streak, losses>>
  BY DEF Cleanup
<1>2. lapses' \in Nat /\ (lapses' = lapses \/ lapses' = lapses + 1)
  BY DEF Cleanup
<1>3. lastRequest # None /\ lastRequest.key \in Expired => lapses' = lapses + 1
  BY DEF Cleanup
<1>4. \A k \in handling : k \notin Expired
  BY DEF Expired
<1>5. StreakCounts'
  <2>3. streak <= 1 + lapses /\ streak \in Nat /\ lapses \in Nat /\ streak' = streak
    BY <1>1
  <2>4. streak' <= 1 + lapses' /\ (streak <= lapses => streak' <= lapses')
    BY <1>2, <2>3, BoundGrows
  <2>1. CASE lastRequest = None
    BY <1>1, <2>1, <2>4
  <2>2. CASE lastRequest # None
    <3>1. lastRequest.key \in RequestKeys
      BY <2>2 DEF Requests
    <3>2. CASE lastRequest.key \in Expired
      BY <1>1, <1>3, <2>2, <3>2
    <3>3. CASE lastRequest.key \notin Expired
      <4>1. records'[lastRequest.key] = records[lastRequest.key]
        BY <1>1, <3>1, <3>3
      <4> QED BY <1>1, <2>2, <2>4, <4>1
    <3> QED BY <3>2, <3>3
  <2> QED BY <2>1, <2>2
<1>6. UnderRecord'
  BY <1>1, <1>4
<1>7. RequestTypeOK' /\ KeysAreMade' /\ AnswersAreTrue'
  BY <1>1, <1>2
<1> QED BY <1>5, <1>6, <1>7

---------------------------------------------------------------------------
(* Every step of a request keeps the invariant.                             *)
LEMMA RequestStepKeeps ==
  ASSUME RequestInv, RequestNext
  PROVE  RequestInv'
<1> USE DEF RequestInv, RequestTypeOK, KeysAreMade, UnderRecord, StreakCounts, AnswersAreTrue
<1>1. CASE OpenForm
  BY <1>1 DEF OpenForm
<1>2. CASE Press
  BY <1>2, PressKeeps
<1>3. CASE Receive
  BY <1>3, ReceiveKeeps
<1>4. CASE Lose
  <2>1. submit \in Mutations
    BY <1>4 DEF Lose
  <2>2. submit' \in Mutations /\ submit'.key = submit.key /\ submit'.state = "lost"
    BY <1>4, <2>1 DEF Lose, Mutations, States
  <2>3. submit.key \in RequestKeys /\ submit.key <= keys
    BY <1>4, <2>1 DEF Lose, Mutations
  <2>4. late' \in {late, late \cup {submit.key}} /\ losses' \in Nat
        /\ UNCHANGED <<body, lastRequest, keys, handling, records, runs, streak, lapses>>
    BY <1>4 DEF Lose, serverVars, counters
  <2>5. KeysAreMade'
    <3> SUFFICES ASSUME NEW j \in RequestKeys, j > keys PROVE records[j] = None /\ j \notin late'
      BY <2>2, <2>3, <2>4
    <3>1. j # submit.key
      BY <2>3 DEF RequestKeys
    <3> QED BY <2>4, <3>1
  <2> QED BY <2>2, <2>3, <2>4, <2>5
<1>5. CASE Accept
  BY <1>5 DEF Accept, serverVars, counters
<1>6. CASE Resend
  <2>1. submit \in Mutations /\ submit.failures = 0
    BY <1>6 DEF Resend, Mutations
  <2> DEFINE again == [submit EXCEPT !.state = "sent"]
  <2>3. submit' = [again EXCEPT !.failures = 1]
    BY <1>6, <2>1 DEF Resend
  <2>4. again \in Mutations /\ again.key = submit.key /\ again.state = "sent"
    BY <2>1 DEF Mutations, States
  <2>2. submit' \in Mutations /\ submit'.key = submit.key /\ submit'.state = "sent"
    <3> HIDE DEF again
    <3> QED BY <2>3, <2>4 DEF Mutations
  <2> QED BY <1>6, <2>1, <2>2 DEF Resend, serverVars, counters
<1>7. CASE Fail
  BY <1>7 DEF Fail, serverVars, counters
<1>8. CASE CloseForm
  BY <1>8 DEF CloseForm, serverVars, counters
<1>9. ASSUME NEW b \in Bodies, Fill(b) PROVE RequestInv'
  BY <1>9 DEF Fill, serverVars, counters
<1>10. ASSUME NEW k \in RequestKeys, Die(k) PROVE RequestInv'
  BY <1>10, DieKeeps
<1>11. ASSUME NEW k \in RequestKeys, NEW status \in {"created", "refused", "busy"}, Process(k, status)
       PROVE  RequestInv'
  BY <1>11, ProcessKeeps
<1>12. ASSUME NEW k \in RequestKeys, ReceiveLate(k) PROVE RequestInv'
  BY <1>12, LateKeeps
<1>13. ASSUME NEW k \in RequestKeys, Expire(k) PROVE RequestInv'
  BY <1>13, ExpireKeeps
<1>14. CASE Cleanup
  BY <1>14, CleanupKeeps
<1> QED BY <1>1, <1>2, <1>3, <1>4, <1>5, <1>6, <1>7, <1>8, <1>9, <1>10, <1>11, <1>12, <1>13, <1>14 DEF RequestNext

(* The invariant holds of every behaviour of a request.                     *)
LEMMA RequestInvHolds == RequestSpec => []RequestInv
<1>1. RequestInv /\ UNCHANGED requestVars => RequestInv'
  BY DEF RequestInv, RequestTypeOK, KeysAreMade, UnderRecord, StreakCounts, AnswersAreTrue, requestVars
<1> QED BY <1>1, RequestInitHolds, RequestStepKeeps, PTL DEF RequestSpec

(* One request of the form makes one run more than the cleanups that       *)
(* deleted its record, at most, and is answered as accepted only once it   *)
(* has: for any number of presses, resends, lost answers, requests that    *)
(* arrive after their sender gave up, and servers that die between a run   *)
(* and its record.                                                          *)
THEOREM RequestsRunOnce == RequestSpec => []OneRunPerRequest
<1>1. RequestInv => OneRunPerRequest
  BY DEF RequestInv, StreakCounts, AnswersAreTrue, OneRunPerRequest
<1> QED BY <1>1, RequestInvHolds, PTL
=============================================================================
