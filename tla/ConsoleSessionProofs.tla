------------------------ MODULE ConsoleSessionProofs ------------------------
(***************************************************************************)
(* Theorems about ConsoleSession for any number of tabs, sessions and      *)
(* writes: a write runs only under the session it was meant for, and what  *)
(* the user is told of it is true.                                         *)
(***************************************************************************)
EXTENDS ConsoleSession, TLAPS

-----------------------------------------------------------------------------
(* The inductive invariant, by what it speaks of *)

\* A page is shown only under the context in use.
PageOK(t) ==
    tab[t].phase = "page" => tab[t].ctx = tab[t].page /\ tab[t].page \in Contexts

\* A request that counts: cancelled queries are gone before a transition goes on,
\* and the change of the session is under way exactly while it is asked for.
RequestOK(r) ==
    /\ r.kind = "me" /\ ~r.old => ~Changing(r.tab)
    /\ r.kind = "change" => r.to \in Contexts
    /\ r.kind = "change" /\ ~r.old => tab[r.tab].phase = "changing"
    /\ r.kind \in Writes =>
          /\ ~r.old
          /\ write[r.kind].status = "pending" /\ write[r.kind].tab = r.tab
          /\ r.header = write[r.kind].intent

\* A write that is not over keeps its tab in the session it was meant for, and
\* has not run; one that is over has run as its status says.
WriteOK(w) ==
    /\ write[w].status \in {"pending", "waiting"} =>
          /\ write[w].tab \in Tabs /\ write[w].intent \in Contexts
          /\ tab[write[w].tab].ctx = write[w].intent
          /\ tab[write[w].tab].phase # "changing"
    /\ write[w].status \in {"idle", "pending", "waiting", "error"} =>
          ran[w].times = 0 /\ ran[w].under = {}
    /\ write[w].status = "success" => ran[w].times = 1
    /\ ran[w].times \in {0, 1}
    /\ ran[w].under \subseteq {write[w].intent}

\* A write is sent once at a time.
SentOnce == \A q, r \in net : q.kind = r.kind /\ r.kind \in Writes => q = r

SessionInv ==
    /\ TypeOK
    /\ \A t \in Tabs : PageOK(t)
    /\ \A r \in net : RequestOK(r)
    /\ \A w \in Writes : WriteOK(w)
    /\ SentOnce

-----------------------------------------------------------------------------
(* Steps that settle writes or send none *)

\* A tab with a write under way keeps its context and starts no change.
TabHolds(t) ==
    \/ Unfinished(t) = {}
    \/ tab[t].ctx # None /\ tab[t].phase # "changing" =>
          tab'[t].ctx = tab[t].ctx /\ tab'[t].phase # "changing"

\* What RequestOK says of the requests that are no writes.
QueryOK(r) ==
    /\ r.kind = "me" /\ ~r.old => ~Changing(r.tab)
    /\ r.kind = "change" => r.to \in Contexts
    /\ r.kind = "change" /\ ~r.old => tab[r.tab].phase = "changing"

(* A step that sends no write keeps the invariant if it keeps each tab     *)
(* with a write in its session and settles a write as it ran.              *)
LEMMA Settling ==
    ASSUME SessionInv, TypeOK',
           \A t \in Tabs : PageOK(t)' /\ TabHolds(t),
           \A r \in net' : QueryOK(r)',
           \A r \in net' : r.kind \in Writes => r \in net /\ write'[r.kind] = write[r.kind],
           \A w \in Writes : WriteOK(w)' \/ (write'[w] = write[w] /\ ran'[w] = ran[w])
    PROVE  SessionInv'
<1>1. ASSUME NEW r \in net' PROVE RequestOK(r)'
  BY <1>1 DEF SessionInv, RequestOK, QueryOK
<1>2. ASSUME NEW w \in Writes, write'[w] = write[w], ran'[w] = ran[w] PROVE WriteOK(w)'
  <2>1. WriteOK(w)
    BY DEF SessionInv
  <2>2. ASSUME write[w].status \in {"pending", "waiting"}
        PROVE  tab'[write[w].tab].ctx = write[w].intent /\ tab'[write[w].tab].phase # "changing"
    <3>1. PICK t \in Tabs : t = write[w].tab
      BY <2>1, <2>2 DEF WriteOK
    <3>2. /\ write[w].intent \in Contexts /\ tab[t].ctx = write[w].intent
          /\ tab[t].phase # "changing"
      BY <2>1, <2>2, <3>1 DEF WriteOK
    <3>3. w \in Unfinished(t)
      BY <2>2, <3>1 DEF Unfinished
    <3>4. tab[t].ctx # None
      BY <3>2, NamesDiffer
    <3> QED BY <3>1, <3>2, <3>3, <3>4 DEF TabHolds
  <2> QED BY <1>2, <2>1, <2>2 DEF WriteOK
<1>3. SentOnce'
  BY DEF SessionInv, SentOnce
<1> QED BY <1>1, <1>2, <1>3 DEF SessionInv

(* A tab that nothing happens to.                                          *)
LEMMA SameTab ==
    ASSUME SessionInv, NEW t \in Tabs, tab'[t] = tab[t]
    PROVE  PageOK(t)' /\ TabHolds(t)
BY DEF SessionInv, PageOK, TabHolds

(* A request that stays, of a tab whose phase stays.                       *)
LEMMA SameQuery ==
    ASSUME SessionInv, NEW r \in net, tab'[r.tab].phase = tab[r.tab].phase
    PROVE  QueryOK(r)'
BY DEF SessionInv, RequestOK, QueryOK, Changing

(* The fields of a request that is sent.                                   *)
LEMMA SentType ==
    ASSUME TypeOK, NEW t \in Tabs, NEW kind \in Kinds \cup Writes,
           NEW to \in Contexts \cup {None}, NEW r, r = Sent(t, kind, to)
    PROVE  /\ r \in Request /\ r.tab = t /\ r.kind = kind /\ r.to = to /\ ~r.old
           /\ kind \in Writes => r.header = tab[t].ctx
<1>1. tab[t] \in Tab /\ tab[t].ctx \in Contexts \cup {None} /\ cookie \in Contexts
  BY DEF TypeOK, Tab
<1>2. kind \in Writes => kind \notin {"me", "probe", "poll"}
  BY NamesDiffer DEF Kinds
<1> DEFINE h == HeaderOf(t, kind)
<1>3. h \in Contexts \cup {None} /\ (kind \in Writes => h = tab[t].ctx)
  BY <1>1, <1>2 DEF HeaderOf
<1> HIDE DEF h
<1>4. r = [tab |-> t, kind |-> kind, cookie |-> cookie, header |-> h, to |-> to, old |-> FALSE]
  BY DEF Sent, h
<1> QED BY <1>1, <1>3, <1>4 DEF Request

(* Queries and /me are sent.                                               *)
LEMMA SendStep ==
    ASSUME SessionInv, NEW t \in Tabs, SendMe(t) \/ Probe(t) \/ Poll(t) \/ Read(t)
    PROVE  SessionInv'
<1>1. PICK kind \in {"me", "probe", "poll", "read"} :
         /\ net' = net \cup {Sent(t, kind, None)}
         /\ kind = "me" => ~Changing(t)
  BY DEF SendMe, Probe, Poll, Read, Changing
<1>2. UNCHANGED <<cookie, tab, write, ran, bus, changes, faults, outside>>
  BY DEF SendMe, Probe, Poll, Read
<1>3. kind \in Kinds \cup Writes /\ kind \notin Writes /\ TypeOK
  BY <1>1, NamesDiffer DEF Kinds, SessionInv
<1>4. PICK new : new = Sent(t, kind, None)
  OBVIOUS
<1>5. /\ net' = net \cup {new}
      /\ new \in Request /\ new.tab = t /\ new.kind = kind
  BY <1>1, <1>3, <1>4, SentType
<1>6. TypeOK'
  BY <1>2, <1>3, <1>5 DEF TypeOK
<1>7. \A u \in Tabs : PageOK(u)' /\ TabHolds(u)
  BY <1>2, SameTab
<1>8. ASSUME NEW r \in net' PROVE QueryOK(r)'
  <2>1. CASE r \in net
    BY <1>2, <2>1, SameQuery
  <2>2. CASE r = new
    BY <1>1, <1>2, <1>5, <2>2 DEF QueryOK, Changing
  <2> QED BY <1>5, <2>1, <2>2
<1>9. \A r \in net' : r.kind \in Writes => r \in net
  BY <1>3, <1>5
<1> QED BY <1>2, <1>6, <1>7, <1>8, <1>9, Settling

(* "Retry session verification" and a cookie changed outside the console.  *)
LEMMA QuietStep ==
    ASSUME SessionInv, \/ \E t \in Tabs : RetryMe(t)
                       \/ \E c \in Contexts : ChangeOutside(c)
    PROVE  SessionInv'
<1>0. TypeOK /\ tab \in [Tabs -> Tab] /\ net \subseteq Request
  BY DEF SessionInv, TypeOK
<1>1. ASSUME NEW t \in Tabs, RetryMe(t) PROVE SessionInv'
  <2>1. /\ tab[t].phase = "failed" /\ tab' = [tab EXCEPT ![t].phase = "loading"]
        /\ UNCHANGED <<cookie, net, write, ran, bus, changes, faults, outside>>
    BY <1>1 DEF RetryMe
  <2>2. /\ tab' \in [Tabs -> Tab] /\ tab'[t].phase = "loading" /\ tab'[t].ctx = tab[t].ctx
        /\ \A u \in Tabs : u # t => tab'[u] = tab[u]
    BY <1>0, <2>1 DEF Tab
  <2>3. TypeOK'
    BY <1>0, <2>1, <2>2 DEF TypeOK
  <2>4. PageOK(t)' /\ TabHolds(t)
    BY <2>2 DEF PageOK, TabHolds
  <2>5. \A u \in Tabs : PageOK(u)' /\ TabHolds(u)
    BY <2>2, <2>4, SameTab
  <2>6. ASSUME NEW r \in net PROVE QueryOK(r)'
    <3>1. r.tab \in Tabs /\ RequestOK(r)
      BY <1>0, <2>6 DEF Request, SessionInv
    <3>2. CASE r.tab # t
      BY <2>2, <3>1, <3>2, SameQuery
    <3>3. CASE r.tab = t
      BY <2>1, <2>2, <3>1, <3>3 DEF RequestOK, QueryOK, Changing
    <3> QED BY <3>2, <3>3
  <2> QED BY <2>1, <2>3, <2>5, <2>6, Settling
<1>2. ASSUME NEW c \in Contexts, ChangeOutside(c) PROVE SessionInv'
  <2>1. /\ UNCHANGED <<tab, net, write, ran, bus, faults>> /\ outside' = TRUE /\ cookie' = c
        /\ changes' = changes + 1 /\ changes < MaxChanges
    BY <1>2 DEF ChangeOutside
  <2>2. changes' \in 0 .. MaxChanges
    BY <1>0, <2>1, BoundsAreNatural DEF TypeOK
  <2>3. TypeOK'
    BY <1>0, <2>1, <2>2 DEF TypeOK
  <2>4. \A u \in Tabs : PageOK(u)' /\ TabHolds(u)
    BY <2>1, SameTab
  <2>5. \A r \in net : QueryOK(r)'
    BY <2>1, SameQuery
  <2> QED BY <2>1, <2>3, <2>4, <2>5, Settling
<1> QED BY <1>1, <1>2

-----------------------------------------------------------------------------
(* Writes are sent *)

(* A write that has no request under way is sent, in the session its tab   *)
(* is in.                                                                  *)
LEMMA WriteIsSent ==
    ASSUME SessionInv, TypeOK', NEW w \in Writes, NEW t \in Tabs,
           write[w].status # "pending",
           UNCHANGED <<tab, ran>>,
           \A v \in Writes : v # w => write'[v] = write[v],
           write'[w].status = "pending", write'[w].tab = t, write'[w].intent = tab[t].ctx,
           tab[t].ctx \in Contexts, tab[t].phase # "changing",
           ran[w].times = 0, ran[w].under = {},
           net' = net \cup {Sent(t, w, None)}
    PROVE  SessionInv'
<1>1. PICK new : new = Sent(t, w, None)
  OBVIOUS
<1>2. /\ net' = net \cup {new} /\ new.tab = t /\ new.kind = w /\ ~new.old
      /\ new.header = tab[t].ctx
  BY <1>1, SentType DEF SessionInv
<1>3. \A r \in net : r.kind # w
  BY DEF SessionInv, RequestOK
<1>4. \A u \in Tabs : PageOK(u)'
  BY DEF SessionInv, PageOK
<1>5. ASSUME NEW r \in net' PROVE RequestOK(r)'
  <2>1. CASE r \in net
    BY <1>3, <2>1 DEF SessionInv, RequestOK, Changing
  <2>2. CASE r = new
    BY <1>2, <2>2, NamesDiffer DEF RequestOK, Kinds
  <2> QED BY <1>2, <1>5, <2>1, <2>2
<1>6. ASSUME NEW v \in Writes PROVE WriteOK(v)'
  <2>1. CASE v = w
    BY <2>1 DEF WriteOK
  <2>2. CASE v # w
    BY <2>2 DEF SessionInv, WriteOK
  <2> QED BY <2>1, <2>2
<1>7. SentOnce'
  BY <1>2, <1>3 DEF SessionInv, SentOnce
<1> QED BY <1>4, <1>5, <1>6, <1>7 DEF SessionInv

(* A user's write, and the retry of one.                                   *)
LEMMA WriteStep ==
    ASSUME SessionInv, NEW w \in Writes, Resend(w) \/ \E t \in Tabs : Mutate(t, w)
    PROVE  SessionInv'
<1>0. TypeOK /\ write \in [Writes -> Write] /\ WriteOK(w) /\ net \subseteq Request
  BY DEF SessionInv, TypeOK
<1>1. ASSUME NEW t \in Tabs, Mutate(t, w) PROVE SessionInv'
  <2>1. /\ tab[t].phase = "page" /\ write[w].status = "idle"
        /\ UNCHANGED <<cookie, tab, ran, bus, changes, faults, outside>>
        /\ net' = net \cup {Sent(t, w, None)}
        /\ write' = [write EXCEPT ![w] = [tab |-> t, intent |-> tab[t].page,
                                          tries |-> 0, status |-> "pending"]]
    BY <1>1 DEF Mutate
  <2>2. tab[t].ctx = tab[t].page /\ tab[t].page \in Contexts
    BY <2>1 DEF SessionInv, PageOK
  <2> DEFINE row == [tab |-> t, intent |-> tab[t].page, tries |-> 0, status |-> "pending"]
  <2>3. /\ row \in Write /\ row.tab = t /\ row.intent = tab[t].ctx /\ row.status = "pending"
    BY <2>2 DEF Write
  <2> HIDE DEF row
  <2>4. write' = [write EXCEPT ![w] = row]
    BY <2>1 DEF row
  <2>5. write' \in [Writes -> Write] /\ write'[w] = row /\ \A v \in Writes : v # w => write'[v] = write[v]
    BY <1>0, <2>3, <2>4
  <2>6. TypeOK'
    <3>1. PICK new : new = Sent(t, w, None)
      OBVIOUS
    <3>2. new \in Request
      BY <1>0, <3>1, SentType
    <3> QED BY <1>0, <2>1, <2>5, <3>1, <3>2 DEF TypeOK
  <2>7. ran[w].times = 0 /\ ran[w].under = {}
    BY <1>0, <2>1 DEF WriteOK
  <2> QED BY <2>1, <2>2, <2>3, <2>5, <2>6, <2>7, WriteIsSent
<1>2. ASSUME Resend(w) PROVE SessionInv'
  <2>1. /\ write[w].status = "waiting"
        /\ write' = [write EXCEPT ![w].status = "pending"]
        /\ net' = net \cup {Sent(write[w].tab, w, None)}
        /\ UNCHANGED <<cookie, tab, ran, bus, changes, faults, outside>>
    BY <1>2 DEF Resend
  <2>2. PICK t \in Tabs : t = write[w].tab
    BY <1>0, <2>1 DEF WriteOK
  <2>3. /\ write[w].intent = tab[t].ctx /\ tab[t].ctx \in Contexts /\ tab[t].phase # "changing"
        /\ ran[w].times = 0 /\ ran[w].under = {}
    BY <1>0, <2>1, <2>2 DEF WriteOK
  <2>4. /\ write' \in [Writes -> Write] /\ \A v \in Writes : v # w => write'[v] = write[v]
        /\ write'[w].status = "pending" /\ write'[w].tab = t /\ write'[w].intent = tab[t].ctx
    BY <1>0, <2>1, <2>2, <2>3 DEF Write
  <2>5. TypeOK'
    <3>1. PICK new : new = Sent(t, w, None)
      OBVIOUS
    <3>2. new \in Request
      BY <1>0, <3>1, SentType
    <3> QED BY <1>0, <2>1, <2>2, <2>4, <3>1, <3>2 DEF TypeOK
  <2> QED BY <2>1, <2>2, <2>3, <2>4, <2>5, WriteIsSent
<1> QED BY <1>1, <1>2

-----------------------------------------------------------------------------
(* Transitions *)

\* What a step owes to the tabs and the requests, its writes aside.
TabsHold ==
    /\ tab' \in [Tabs -> Tab] /\ net' \subseteq Request
    /\ \A t \in Tabs : PageOK(t)' /\ TabHolds(t)
    /\ \A r \in net' : QueryOK(r)'
    /\ \A r \in net' : r.kind \in Writes => r \in net

(* A tab that changes without entering or leaving a transition, and        *)
(* without showing another page.                                           *)
LEMMA TabMoves ==
    ASSUME SessionInv, NEW t \in Tabs, NEW tb \in Tab, NEW requests \in SUBSET net,
           tb.ctx = tab[t].ctx, tb.page = tab[t].page,
           tb.phase = tab[t].phase \/ (tab[t].phase = "loading" /\ tb.phase = "failed"),
           tab' = [tab EXCEPT ![t] = tb], net' = requests
    PROVE  TabsHold
<1>0. tab \in [Tabs -> Tab] /\ net \subseteq Request
  BY DEF SessionInv, TypeOK
<1>1. tab' \in [Tabs -> Tab] /\ tab'[t] = tb /\ \A u \in Tabs : u # t => tab'[u] = tab[u]
  BY <1>0
<1>2. PageOK(t)' /\ TabHolds(t)
  BY <1>1 DEF SessionInv, PageOK, TabHolds
<1>3. \A u \in Tabs : PageOK(u)' /\ TabHolds(u)
  BY <1>1, <1>2, SameTab
<1>4. ASSUME NEW r \in requests PROVE QueryOK(r)'
  <2>1. r \in net /\ r.tab \in Tabs /\ RequestOK(r)
    BY <1>0, <1>4 DEF Request, SessionInv
  <2>2. CASE r.tab # t
    BY <1>1, <2>1, <2>2, SameQuery
  <2>3. CASE r.tab = t
    BY <1>1, <2>1, <2>3 DEF RequestOK, QueryOK, Changing
  <2> QED BY <2>2, <2>3
<1> QED BY <1>0, <1>1, <1>3, <1>4 DEF TabsHold

(* A transition begins: the page goes, and the queries with it.            *)
LEMMA BeginEffect ==
    ASSUME SessionInv, NEW t \in Tabs, NEW tb \in Tab, NEW requests \in SUBSET net,
           NEW change \in Change, tb.ctx = tab[t].ctx, ~Changing(t),
           Begin(t, change, requests, tb)
    PROVE  TabsHold
<1>0. tab \in [Tabs -> Tab] /\ net \subseteq Request
  BY DEF SessionInv, TypeOK
<1> DEFINE row == [tb EXCEPT !.phase = "finishing", !.change = change, !.page = None]
<1>1. row \in Tab /\ row.phase = "finishing" /\ row.ctx = tab[t].ctx
  BY DEF Tab
<1> HIDE DEF row
<1>2. tab' = [tab EXCEPT ![t] = row] /\ net' = Uncancelled(t, requests)
  BY DEF Begin, row
<1>3. tab' \in [Tabs -> Tab] /\ tab'[t] = row /\ \A u \in Tabs : u # t => tab'[u] = tab[u]
  BY <1>0, <1>1, <1>2
<1>4. PageOK(t)' /\ TabHolds(t)
  BY <1>1, <1>3 DEF PageOK, TabHolds
<1>5. \A u \in Tabs : PageOK(u)' /\ TabHolds(u)
  BY <1>3, <1>4, SameTab
<1>6. \A r \in net' : r \in net /\ ~(r.tab = t /\ r.kind = "me")
  BY <1>2 DEF Uncancelled
<1>7. ASSUME NEW r \in net' PROVE QueryOK(r)'
  <2>1. r \in net /\ r.tab \in Tabs /\ RequestOK(r)
    BY <1>0, <1>6, <1>7 DEF Request, SessionInv
  <2>2. CASE r.tab # t
    BY <1>3, <2>1, <2>2, SameQuery
  <2>3. CASE r.tab = t
    BY <1>6, <1>7, <2>1, <2>3 DEF RequestOK, QueryOK, Changing
  <2> QED BY <2>2, <2>3
<1> QED BY <1>0, <1>3, <1>5, <1>6, <1>7 DEF TabsHold

(* A refresh begins a transition unless one runs.                          *)
LEMMA RefreshEffect ==
    ASSUME SessionInv, NEW t \in Tabs, NEW tb \in Tab, NEW requests \in SUBSET net,
           tb.ctx = tab[t].ctx, tb.page = tab[t].page,
           tb.phase = tab[t].phase \/ (tab[t].phase = "loading" /\ tb.phase = "failed"),
           Refresh(t, requests, tb)
    PROVE  TabsHold
<1>1. CASE tb.phase \in {"finishing", "changing"}
  <2>1. tab' = [tab EXCEPT ![t] = tb] /\ net' = requests
    BY <1>1 DEF Refresh
  <2> QED BY <2>1, TabMoves
<1>2. CASE tb.phase \notin {"finishing", "changing"}
  <2>1. Begin(t, NoChange, requests, tb) /\ ~Changing(t)
    BY <1>2 DEF Refresh, Changing
  <2>2. NoChange \in Change
    BY DEF NoChange, Change
  <2> QED BY <2>1, <2>2, BeginEffect
<1> QED BY <1>1, <1>2

(* A transition ends: what the tab has sent belongs to an earlier          *)
(* generation, and none of it is a write.                                  *)
LEMMA ConcludeEffect ==
    ASSUME SessionInv, NEW t \in Tabs, NEW requests \in SUBSET net,
           Unfinished(t) = {}, Conclude(t, requests)
    PROVE  TabsHold /\ bus' \subseteq [to : Tabs, data : Contexts \cup {"changed"}]
<1>0. /\ tab \in [Tabs -> Tab] /\ tab[t] \in Tab /\ net \subseteq Request
      /\ bus \subseteq [to : Tabs, data : Contexts \cup {"changed"}]
  BY DEF SessionInv, TypeOK
<1> DEFINE row == [Fresh EXCEPT !.seen = tab[t].seen]
<1>1. row \in Tab /\ row.phase = "loading"
  BY <1>0 DEF Fresh, Tab, NoChange, Change
<1> HIDE DEF row
<1>2. tab' = [tab EXCEPT ![t] = row]
  BY DEF Conclude, row
<1>3. tab' \in [Tabs -> Tab] /\ tab'[t] = row /\ \A u \in Tabs : u # t => tab'[u] = tab[u]
  BY <1>0, <1>1, <1>2
<1>4. PageOK(t)' /\ TabHolds(t)
  BY <1>1, <1>3 DEF PageOK, TabHolds
<1>5. \A u \in Tabs : PageOK(u)' /\ TabHolds(u)
  BY <1>3, <1>4, SameTab
<1>6. ASSUME NEW q \in net'
      PROVE  \E r \in requests :
                 \/ r.tab = t /\ q = [r EXCEPT !.old = TRUE]
                 \/ r.tab # t /\ q = r
  BY <1>6 DEF Conclude
<1>7. ASSUME NEW q \in net'
      PROVE  q \in Request /\ QueryOK(q)' /\ (q.kind \in Writes => q \in net)
  <2>1. PICK r \in requests : \/ r.tab = t /\ q = [r EXCEPT !.old = TRUE]
                              \/ r.tab # t /\ q = r
    BY <1>6, <1>7
  <2>2. r \in net /\ r \in Request /\ r.tab \in Tabs /\ RequestOK(r)
    BY <1>0, <2>1 DEF Request, SessionInv
  <2>3. CASE r.tab # t /\ q = r
    BY <1>3, <2>2, <2>3, SameQuery
  <2>4. CASE r.tab = t /\ q = [r EXCEPT !.old = TRUE]
    <3>1. q \in Request /\ q.kind = r.kind /\ q.to = r.to /\ q.old
      BY <2>2, <2>4 DEF Request
    <3>2. r.kind \notin Writes
      BY <2>2, <2>4 DEF RequestOK, Unfinished
    <3> QED BY <2>2, <3>1, <3>2 DEF QueryOK, RequestOK
  <2> QED BY <2>1, <2>3, <2>4
<1>8. bus' \subseteq [to : Tabs, data : Contexts \cup {"changed"}]
  BY <1>0 DEF Conclude
<1> QED BY <1>3, <1>5, <1>7, <1>8 DEF TabsHold

(* A step that keeps the tabs and leaves the writes alone.                 *)
LEMMA TabsStep ==
    ASSUME SessionInv, TabsHold, UNCHANGED <<write, ran>>, cookie' \in Contexts,
           bus' \subseteq [to : Tabs, data : Contexts \cup {"changed"}],
           changes' \in 0 .. MaxChanges, faults' \in 0 .. MaxFaults, outside' \in BOOLEAN
    PROVE  SessionInv'
<1>1. TypeOK'
  BY DEF SessionInv, TypeOK, TabsHold
<1> QED BY <1>1, Settling DEF TabsHold

(* A user changes the session.                                             *)
LEMMA ChangeStep ==
    ASSUME SessionInv, NEW t \in Tabs, NEW c \in Contexts, ChangeSession(t, c)
    PROVE  SessionInv'
<1>0. TypeOK /\ tab[t] \in Tab
  BY DEF SessionInv, TypeOK
<1>1. /\ Begin(t, [to |-> c, announce |-> TRUE], net, tab[t]) /\ ~Changing(t)
      /\ changes' = changes + 1 /\ changes < MaxChanges
      /\ UNCHANGED <<cookie, write, ran, bus, faults, outside>>
  BY DEF ChangeSession, Changing
<1>2. [to |-> c, announce |-> TRUE] \in Change
  BY DEF Change
<1>3. TabsHold
  BY <1>0, <1>1, <1>2, BeginEffect
<1>4. changes' \in 0 .. MaxChanges
  BY <1>0, <1>1, BoundsAreNatural DEF TypeOK
<1> QED BY <1>0, <1>1, <1>3, <1>4, TabsStep DEF TypeOK

(* The writes of the tab are over: it asks for the change, or starts over. *)
LEMMA FinishStep ==
    ASSUME SessionInv, NEW t \in Tabs, FinishMutations(t)
    PROVE  SessionInv'
<1>0. TypeOK /\ tab \in [Tabs -> Tab] /\ tab[t] \in Tab /\ net \subseteq Request
  BY DEF SessionInv, TypeOK
<1>1. /\ tab[t].phase = "finishing" /\ Unfinished(t) = {}
      /\ UNCHANGED <<cookie, write, ran, changes, faults, outside>>
  BY DEF FinishMutations
<1>2. Uncancelled(t, net) \in SUBSET net
  BY DEF Uncancelled
<1>3. CASE tab[t].change.to = None
  <2>1. Conclude(t, Uncancelled(t, net))
    BY <1>3 DEF FinishMutations
  <2>2. TabsHold /\ bus' \subseteq [to : Tabs, data : Contexts \cup {"changed"}]
    BY <1>1, <1>2, <2>1, ConcludeEffect
  <2> QED BY <1>0, <1>1, <2>2, TabsStep DEF TypeOK
<1>4. CASE tab[t].change.to # None
  <2>1. PICK c \in Contexts : c = tab[t].change.to
    BY <1>0, <1>4 DEF Tab, Change
  <2>2. /\ tab' = [tab EXCEPT ![t].phase = "changing"]
        /\ net' = Uncancelled(t, net) \cup {Sent(t, "change", c)}
        /\ UNCHANGED bus
    BY <1>4, <2>1 DEF FinishMutations
  <2>3. PICK new : new = Sent(t, "change", c)
    OBVIOUS
  <2>4. "change" \in Kinds \cup Writes /\ "change" \notin Writes
    BY NamesDiffer DEF Kinds
  <2>5. new \in Request /\ new.tab = t /\ new.kind = "change" /\ new.to = c
    BY <1>0, <2>3, <2>4, SentType
  <2>6. /\ tab' \in [Tabs -> Tab] /\ tab'[t].phase = "changing"
        /\ \A u \in Tabs : u # t => tab'[u] = tab[u]
    BY <1>0, <2>2 DEF Tab
  <2>7. PageOK(t)' /\ TabHolds(t)
    BY <1>1, <2>6 DEF PageOK, TabHolds
  <2>8. \A u \in Tabs : PageOK(u)' /\ TabHolds(u)
    BY <2>6, <2>7, SameTab
  <2>9. \A r \in net' : r = new \/ (r \in net /\ ~(r.tab = t /\ r.kind = "me"))
    BY <2>2, <2>3 DEF Uncancelled
  <2>10. ASSUME NEW r \in net' PROVE QueryOK(r)'
    <3>1. CASE r = new
      BY <2>5, <2>6, <3>1 DEF QueryOK
    <3>2. CASE r \in net /\ ~(r.tab = t /\ r.kind = "me")
      <4>1. r.tab \in Tabs /\ RequestOK(r)
        BY <1>0, <3>2 DEF Request, SessionInv
      <4>2. CASE r.tab # t
        BY <2>6, <3>2, <4>1, <4>2, SameQuery
      <4>3. CASE r.tab = t
        BY <2>6, <3>2, <4>1, <4>3 DEF RequestOK, QueryOK
      <4> QED BY <4>2, <4>3
    <3> QED BY <2>9, <2>10, <3>1, <3>2
  <2>11. net' \subseteq Request /\ \A r \in net' : r.kind \in Writes => r \in net
    BY <1>0, <2>4, <2>5, <2>9
  <2>12. TabsHold
    BY <2>6, <2>8, <2>10, <2>11 DEF TabsHold
  <2> QED BY <1>0, <1>1, <2>2, <2>12, TabsStep DEF TypeOK
<1> QED BY <1>3, <1>4

-----------------------------------------------------------------------------
(* Answers *)

(* A failed /me takes a loading tab to its error message and no other.     *)
LEMMA FailingIs ==
    ASSUME SessionInv, NEW r \in net
    PROVE  LET t == r.tab  tb == Failing(r) IN
           /\ t \in Tabs /\ tb \in Tab /\ tb.ctx = tab[t].ctx /\ tb.page = tab[t].page
           /\ tb.phase = tab[t].phase \/ (tab[t].phase = "loading" /\ tb.phase = "failed")
<1>1. r.tab \in Tabs /\ tab[r.tab] \in Tab
  BY DEF SessionInv, TypeOK, Request
<1>2. PICK tb : tb = tab[r.tab]
  OBVIOUS
<1>3. /\ MeFailed(tb) \in Tab /\ MeFailed(tb).ctx = tb.ctx /\ MeFailed(tb).page = tb.page
      /\ MeFailed(tb).phase = tb.phase \/ (tb.phase = "loading" /\ MeFailed(tb).phase = "failed")
  BY <1>1, <1>2 DEF MeFailed, Tab
<1>4. Failing(r) = tb \/ Failing(r) = MeFailed(tb)
  BY <1>2 DEF Failing
<1> QED BY <1>1, <1>2, <1>3, <1>4

(* An answer that is refused, or that a transition forgets, takes no tab   *)
(* out of its session.                                                     *)
LEMMA RefusedEffect ==
    ASSUME SessionInv, NEW r \in net,
           \/ Refresh(r.tab, net \ {r}, Failing(r))
           \/ tab' = [tab EXCEPT ![r.tab] = Failing(r)] /\ net' = net \ {r}
    PROVE  TabsHold /\ r \notin net'
<1>1. PICK t \in Tabs : t = r.tab
  BY FailingIs
<1>2. PICK tb \in Tab : tb = Failing(r)
  BY FailingIs
<1>3. /\ tb.ctx = tab[t].ctx /\ tb.page = tab[t].page
      /\ tb.phase = tab[t].phase \/ (tab[t].phase = "loading" /\ tb.phase = "failed")
  BY <1>1, <1>2, FailingIs
<1>4. PICK requests \in SUBSET net : requests = net \ {r}
  OBVIOUS
<1>5. CASE Refresh(t, requests, tb)
  <2>1. net' \subseteq requests
    BY <1>5 DEF Refresh, Begin, Uncancelled
  <2> QED BY <1>3, <1>4, <1>5, <2>1, RefreshEffect
<1>6. CASE tab' = [tab EXCEPT ![t] = tb] /\ net' = requests
  BY <1>3, <1>4, <1>6, TabMoves
<1> QED BY <1>1, <1>2, <1>4, <1>5, <1>6

(* The answer of /me: the tab takes the context over.                      *)
LEMMA ObservedEffect ==
    ASSUME SessionInv, NEW r \in net, ArriveObserved(r, "ok")
    PROVE  /\ TabsHold /\ bus' \subseteq [to : Tabs, data : Contexts \cup {"changed"}]
<1>0. /\ tab \in [Tabs -> Tab] /\ net \subseteq Request
      /\ bus \subseteq [to : Tabs, data : Contexts \cup {"changed"}]
  BY DEF SessionInv, TypeOK
<1>1. PICK t \in Tabs : t = r.tab
  BY <1>0 DEF Request
<1>2. PICK c \in Contexts : c = r.cookie
  BY <1>0 DEF Request
<1>3. tab[t] \in Tab /\ tab[t].ctx \in {None, c} /\ ~r.old
  BY <1>0, <1>1, <1>2 DEF ArriveObserved, Signals, ContextMoved
<1>4. PICK page, phase :
         /\ tab' = [tab EXCEPT ![t].ctx = c, ![t].seen = c, ![t].page = page, ![t].phase = phase]
         /\ \/ r.kind = "me" /\ page = c /\ phase = "page"
            \/ r.kind # "me" /\ page = tab[t].page /\ phase = tab[t].phase
  BY <1>0, <1>1, <1>2 DEF ArriveObserved
<1>5. page \in Contexts \cup {None}
      /\ phase \in {"loading", "page", "failed", "finishing", "changing"}
  BY <1>3, <1>4 DEF Tab
<1>6. /\ tab' \in [Tabs -> Tab] /\ \A u \in Tabs : u # t => tab'[u] = tab[u]
      /\ tab'[t].ctx = c /\ tab'[t].page = page /\ tab'[t].phase = phase
  <2> DEFINE row == [tab[t] EXCEPT !.ctx = c, !.seen = c, !.page = page, !.phase = phase]
  <2>1. row \in Tab /\ row.ctx = c /\ row.page = page /\ row.phase = phase
    BY <1>3, <1>5 DEF Tab
  <2>2. tab' = [tab EXCEPT ![t] = row]
    BY <1>0, <1>4
  <2> HIDE DEF row
  <2> QED BY <1>0, <2>1, <2>2
<1>7. net' = net \ {r}
  BY DEF ArriveObserved
<1>8. RequestOK(r) /\ PageOK(t)
  BY DEF SessionInv
<1>9. PageOK(t)'
  BY <1>3, <1>4, <1>6, <1>8, NamesDiffer DEF PageOK
<1>10. r.kind = "me" => ~Changing(t)
  BY <1>1, <1>3, <1>8 DEF RequestOK
<1>11. TabHolds(t)
  BY <1>3, <1>4, <1>6 DEF TabHolds
<1>12. \A u \in Tabs : PageOK(u)' /\ TabHolds(u)
  BY <1>6, <1>9, <1>11, SameTab
<1>13. ASSUME NEW q \in net' PROVE QueryOK(q)'
  <2>1. q \in net /\ q.tab \in Tabs /\ RequestOK(q)
    BY <1>0, <1>7, <1>13 DEF Request, SessionInv
  <2>2. CASE tab'[q.tab].phase = tab[q.tab].phase
    BY <2>1, <2>2, SameQuery
  <2>3. CASE q.tab = t /\ phase = "page" /\ ~Changing(t)
    BY <1>6, <2>1, <2>3 DEF QueryOK, RequestOK, Changing
  <2> QED BY <1>4, <1>6, <1>10, <2>1, <2>2, <2>3
<1>14. bus' \subseteq [to : Tabs, data : Contexts \cup {"changed"}]
  BY <1>0, <1>2 DEF ArriveObserved
<1> QED BY <1>0, <1>6, <1>7, <1>12, <1>13, <1>14 DEF TabsHold

(* What a write is told, and what it did, when its request is over.        *)
LEMMA WriteAnswered ==
    ASSUME SessionInv, TabsHold, NEW r \in net, r \notin net', r.kind \in Writes,
           write' \in [Writes -> Write],
           ran' \in [Writes -> [times : 0 .. 2, under : SUBSET Contexts]],
           \A v \in Writes : v # r.kind => write'[v] = write[v] /\ ran'[v] = ran[v],
           WriteOK(r.kind)', cookie' \in Contexts, UNCHANGED <<bus, changes, outside>>,
           faults' \in 0 .. MaxFaults
    PROVE  SessionInv'
<1>1. TypeOK'
  BY DEF SessionInv, TypeOK, TabsHold
<1>2. \A q \in net' : q.kind \in Writes => q \in net /\ write'[q.kind] = write[q.kind]
  BY DEF SessionInv, SentOnce, TabsHold
<1>3. \A w \in Writes : WriteOK(w)' \/ (write'[w] = write[w] /\ ran'[w] = ran[w])
  OBVIOUS
<1> QED BY <1>1, <1>2, <1>3, Settling DEF TabsHold

(* A write that runs, runs under the session it was meant for.             *)
LEMMA Executed ==
    ASSUME SessionInv, NEW r \in net, NEW w \in Writes, w = r.kind, Admitted(r), Execute(r)
    PROVE  /\ ran' \in [Writes -> [times : 0 .. 2, under : SUBSET Contexts]]
           /\ ran'[w].times = 1 /\ ran'[w].under = {write[w].intent}
           /\ \A v \in Writes : v # w => ran'[v] = ran[v]
<1>1. /\ ran \in [Writes -> [times : 0 .. 2, under : SUBSET Contexts]]
      /\ r \in Request /\ r.cookie \in Contexts
  BY DEF SessionInv, TypeOK, Request
<1>2. RequestOK(r) /\ WriteOK(w)
  BY DEF SessionInv
<1>3. /\ r.header = write[w].intent /\ write[w].status = "pending"
      /\ write[w].intent \in Contexts /\ ran[w].times = 0 /\ ran[w].under = {}
  BY <1>2 DEF RequestOK, WriteOK
<1>4. r.cookie = write[w].intent
  BY <1>3, NamesDiffer DEF Admitted
<1>5. ran' = [ran EXCEPT ![w].times = @ + 1, ![w].under = @ \cup {r.cookie}]
  BY DEF Execute
<1> QED BY <1>1, <1>3, <1>4, <1>5

(* The answer of a query of the page.                                      *)
LEMMA DataEffect ==
    ASSUME SessionInv, NEW r \in net, ArriveData(r, "ok")
    PROVE  TabsHold /\ r \notin net'
<1>0. tab \in [Tabs -> Tab] /\ net \subseteq Request
  BY DEF SessionInv, TypeOK
<1>1. PICK t \in Tabs : t = r.tab
  BY <1>0 DEF Request
<1>2. PICK c \in Contexts : c = r.cookie
  BY <1>0 DEF Request
<1>3. PICK requests \in SUBSET net : requests = net \ {r} /\ net' = requests
  BY DEF ArriveData
<1>4. tab[t] \in Tab
  BY <1>0
<1> DEFINE row == [tab[t] EXCEPT !.cached = tab[t].cached \cup {c}]
<1>5. row \in Tab /\ row.ctx = tab[t].ctx /\ row.page = tab[t].page /\ row.phase = tab[t].phase
  BY <1>4 DEF Tab
<1>6. tab' = [tab EXCEPT ![t] = row] \/ tab' = [tab EXCEPT ![t] = tab[t]]
  BY <1>0, <1>1, <1>2 DEF ArriveData
<1> HIDE DEF row
<1>7. CASE tab' = [tab EXCEPT ![t] = row]
  BY <1>3, <1>5, <1>7, TabMoves
<1>8. CASE tab' = [tab EXCEPT ![t] = tab[t]]
  BY <1>3, <1>4, <1>8, TabMoves
<1> QED BY <1>6, <1>7, <1>8

(* The request of a transition is over: nothing of the tab was under way.  *)
LEMMA OverEffect ==
    ASSUME SessionInv, NEW r \in net, r.kind = "change", ~r.old, Over(r)
    PROVE  TabsHold /\ bus' \subseteq [to : Tabs, data : Contexts \cup {"changed"}]
<1>1. PICK t \in Tabs : t = r.tab
  BY DEF SessionInv, TypeOK, Request
<1>2. tab[t].phase = "changing"
  BY <1>1 DEF SessionInv, RequestOK
<1>3. Unfinished(t) = {}
  BY <1>2 DEF SessionInv, WriteOK, Unfinished
<1>4. PICK requests \in SUBSET net : requests = net \ {r}
  OBVIOUS
<1>5. Conclude(t, requests)
  BY <1>1, <1>4 DEF Over
<1> QED BY <1>3, <1>5, ConcludeEffect

(* An answer that leaves the tab as it is.                                 *)
LEMMA ForgottenEffect ==
    ASSUME SessionInv, NEW r \in net, UNCHANGED tab, net' = net \ {r}
    PROVE  TabsHold
<1>0. tab \in [Tabs -> Tab] /\ net \subseteq Request
  BY DEF SessionInv, TypeOK
<1>1. \A u \in Tabs : PageOK(u)' /\ TabHolds(u)
  BY SameTab
<1>2. \A q \in net' : QueryOK(q)'
  BY SameQuery
<1> QED BY <1>0, <1>1, <1>2 DEF TabsHold

(* A request that is no write, answered in any way.                        *)
LEMMA QueryAnswered ==
    ASSUME SessionInv, NEW r \in net, NEW reply, r.kind \notin Writes, Arrive(r, reply),
           reply # "busy", faults' \in 0 .. MaxFaults
    PROVE  SessionInv'
<1>0. TypeOK /\ r \in Request /\ RequestOK(r)
  BY DEF SessionInv, TypeOK
<1>1. cookie' \in Contexts
  BY <1>0 DEF Arrive, TypeOK, RequestOK
<1>2. changes' \in 0 .. MaxChanges /\ outside' \in BOOLEAN /\ UNCHANGED ran
  BY <1>0 DEF Arrive, TypeOK, Execute
<1>3. bus \subseteq [to : Tabs, data : Contexts \cup {"changed"}]
  BY <1>0 DEF TypeOK
<1> DEFINE P == /\ TabsHold /\ UNCHANGED write
                /\ bus' \subseteq [to : Tabs, data : Contexts \cup {"changed"}]
<1>4. ASSUME ArriveLate(r, reply) PROVE P
  BY <1>3, <1>4, ForgottenEffect DEF ArriveLate, SettleWrite
<1>5. ASSUME ArriveChange(r, reply) PROVE P
  BY <1>5, OverEffect DEF ArriveChange
<1>6. ASSUME ArriveMoved(r, reply) PROVE P
  BY <1>3, <1>6, RefusedEffect DEF ArriveMoved, SettleWrite
<1>7. ASSUME ArriveRefused(r, reply) PROVE P
  BY <1>3, <1>7, RefusedEffect DEF ArriveRefused, SettleFailed, SettleWrite
<1>8. ASSUME ArriveObserved(r, reply) PROVE P
  <2>1. reply = "ok" /\ UNCHANGED write
    BY <1>8 DEF ArriveObserved
  <2> QED BY <1>8, <2>1, ObservedEffect
<1>9. ASSUME ArriveData(r, reply) PROVE P
  <2>1. reply = "ok" /\ UNCHANGED write /\ UNCHANGED bus
    BY <1>9 DEF ArriveData, SettleWrite
  <2> QED BY <1>3, <1>9, <2>1, DataEffect
<1> HIDE DEF P
<1>10. P
  BY <1>4, <1>5, <1>6, <1>7, <1>8, <1>9 DEF Arrive
<1> QED BY <1>1, <1>2, <1>10, TabsStep DEF P

(* A write that waits for its retry, or fails, has not run.                *)
LEMMA NotRun ==
    ASSUME SessionInv, TabsHold, NEW r \in net, NEW w \in Writes, w = r.kind, UNCHANGED ran,
           NEW row \in Write, row.status \in {"waiting", "error", "broken", "unknown"},
           row.tab = write[w].tab, row.intent = write[w].intent,
           write' = [write EXCEPT ![w] = row]
    PROVE  /\ write' \in [Writes -> Write] /\ WriteOK(w)'
           /\ \A v \in Writes : v # w => write'[v] = write[v]
<1>0. write \in [Writes -> Write]
  BY DEF SessionInv, TypeOK
<1>1. /\ write' \in [Writes -> Write] /\ write'[w] = row
      /\ \A v \in Writes : v # w => write'[v] = write[v]
  BY <1>0
<1>2. RequestOK(r) /\ WriteOK(w)
  BY DEF SessionInv
<1>3. PICK t \in Tabs : t = write[w].tab
  BY <1>2 DEF RequestOK, WriteOK
<1>4. /\ write[w].status = "pending" /\ write[w].intent \in Contexts
      /\ tab[t].ctx = write[w].intent /\ tab[t].phase # "changing"
      /\ ran[w].times = 0 /\ ran[w].under = {}
  BY <1>2, <1>3 DEF RequestOK, WriteOK
<1>5. w \in Unfinished(t) /\ tab[t].ctx # None
  BY <1>3, <1>4, NamesDiffer DEF Unfinished
<1>6. tab'[t].ctx = write[w].intent /\ tab'[t].phase # "changing"
  BY <1>4, <1>5 DEF TabsHold, TabHolds
<1>7. WriteOK(w)'
  BY <1>1, <1>3, <1>4, <1>6 DEF WriteOK
<1> QED BY <1>1, <1>7

(* A write that is settled after it ran, or may have run.                  *)
LEMMA HasRun ==
    ASSUME SessionInv, NEW r \in net, NEW w \in Writes, w = r.kind, Admitted(r), Execute(r),
           NEW status \in {"success", "broken", "unknown"}, write' = [write EXCEPT ![w].status = status]
    PROVE  /\ write' \in [Writes -> Write] /\ WriteOK(w)'
           /\ \A v \in Writes : v # w => write'[v] = write[v]
<1>0. write \in [Writes -> Write] /\ write[w] \in Write
  BY DEF SessionInv, TypeOK
<1> DEFINE row == [write[w] EXCEPT !.status = status]
<1>1. row \in Write /\ row.status = status /\ row.intent = write[w].intent
  BY <1>0 DEF Write
<1>2. write' = [write EXCEPT ![w] = row]
  BY <1>0
<1> HIDE DEF row
<1>3. /\ write' \in [Writes -> Write] /\ write'[w] = row
      /\ \A v \in Writes : v # w => write'[v] = write[v]
  BY <1>0, <1>1, <1>2
<1>4. ran'[w].times = 1 /\ ran'[w].under = {write[w].intent}
  BY Executed
<1>5. WriteOK(w)'
  BY <1>1, <1>3, <1>4 DEF WriteOK
<1> QED BY <1>3, <1>5

(* What a settled write looks like.                                        *)
LEMMA SettledRow ==
    ASSUME SessionInv, NEW r \in net, NEW w \in Writes, w = r.kind,
           \/ SettleWrite(r, "error") \/ SettleWrite(r, "unknown")
           \/ SettleWrite(r, "broken") \/ SettleBusy(w)
    PROVE  \E row \in Write :
              /\ row.status \in {"waiting", "error", "broken", "unknown"}
              /\ row.tab = write[w].tab /\ row.intent = write[w].intent
              /\ write' = [write EXCEPT ![w] = row]
<1>0. write \in [Writes -> Write] /\ write[w] \in Write
  BY DEF SessionInv, TypeOK
<1>1. ASSUME NEW status \in {"error", "broken", "unknown"}, write' = [write EXCEPT ![w].status = status]
      PROVE  \E row \in Write :
                /\ row.status \in {"waiting", "error", "broken", "unknown"}
                /\ row.tab = write[w].tab /\ row.intent = write[w].intent
                /\ write' = [write EXCEPT ![w] = row]
  <2> DEFINE row == [write[w] EXCEPT !.status = status]
  <2>1. /\ row \in Write /\ row.status = status /\ row.tab = write[w].tab
        /\ row.intent = write[w].intent
    BY <1>0 DEF Write
  <2>2. write' = [write EXCEPT ![w] = row]
    BY <1>0, <1>1
  <2> HIDE DEF row
  <2> QED BY <2>1, <2>2
<1>2. ASSUME write' = [write EXCEPT ![w].status = "waiting", ![w].tries = 1]
      PROVE  \E row \in Write :
                /\ row.status \in {"waiting", "error", "broken", "unknown"}
                /\ row.tab = write[w].tab /\ row.intent = write[w].intent
                /\ write' = [write EXCEPT ![w] = row]
  <2> DEFINE row == [write[w] EXCEPT !.status = "waiting", !.tries = 1]
  <2>1. /\ row.status = "waiting" /\ row.tab = write[w].tab
        /\ row.intent = write[w].intent
    BY <1>0 DEF Write
  <2>2. PICK old \in Write : old = write[w]
    BY <1>0
  <2>3. row \in Write
    <3>1. [old EXCEPT !.status = "waiting"] \in Write
      BY DEF Write
    <3>2. PICK mid \in Write : mid = [old EXCEPT !.status = "waiting"]
      BY <3>1
    <3>3. 1 \in 0 .. 1
      OBVIOUS
    <3>4. [mid EXCEPT !.tries = 1] \in Write
      BY <3>3 DEF Write
    <3>5. row = [mid EXCEPT !.tries = 1]
      BY <2>2, <3>2 DEF Write
    <3> QED BY <3>4, <3>5
  <2>4. write' = [write EXCEPT ![w] = row]
    BY <1>0, <1>2
  <2> HIDE DEF row
  <2> QED BY <2>1, <2>3, <2>4
<1> QED BY <1>1, <1>2 DEF SettleWrite, SettleBusy

(* A write the server did not run is settled.                              *)
LEMMA UnrunSettled ==
    ASSUME SessionInv, TabsHold, NEW r \in net, r \notin net', NEW w \in Writes, w = r.kind,
           \/ SettleWrite(r, "error") \/ SettleWrite(r, "unknown")
           \/ SettleWrite(r, "broken") \/ SettleBusy(w),
           UNCHANGED <<cookie, ran, bus, changes, outside>>, faults' \in 0 .. MaxFaults
    PROVE  SessionInv'
<1>1. PICK row \in Write :
         /\ row.status \in {"waiting", "error", "broken", "unknown"}
         /\ row.tab = write[w].tab /\ row.intent = write[w].intent
         /\ write' = [write EXCEPT ![w] = row]
  BY SettledRow
<1>2. /\ write' \in [Writes -> Write] /\ WriteOK(w)'
      /\ \A v \in Writes : v # w => write'[v] = write[v]
  BY <1>1, NotRun
<1>3. /\ ran' \in [Writes -> [times : 0 .. 2, under : SUBSET Contexts]]
      /\ cookie' \in Contexts
  BY DEF SessionInv, TypeOK
<1> QED BY <1>2, <1>3, WriteAnswered

(* A write the server ran is settled.                                      *)
LEMMA RunSettled ==
    ASSUME SessionInv, TabsHold, NEW r \in net, r \notin net', NEW w \in Writes, w = r.kind,
           Admitted(r), Execute(r),
           SettleWrite(r, "success") \/ SettleWrite(r, "broken") \/ SettleWrite(r, "unknown"),
           UNCHANGED <<cookie, bus, changes, outside>>, faults' \in 0 .. MaxFaults
    PROVE  SessionInv'
<1>1. PICK status \in {"success", "broken", "unknown"} : write' = [write EXCEPT ![w].status = status]
  BY DEF SettleWrite
<1>2. /\ write' \in [Writes -> Write] /\ WriteOK(w)'
      /\ \A v \in Writes : v # w => write'[v] = write[v]
  BY <1>1, HasRun
<1>3. /\ ran' \in [Writes -> [times : 0 .. 2, under : SUBSET Contexts]]
      /\ \A v \in Writes : v # w => ran'[v] = ran[v]
  BY Executed
<1>4. cookie' \in Contexts
  BY DEF SessionInv, TypeOK
<1> QED BY <1>2, <1>3, <1>4, WriteAnswered

(* The kind of a write is none of the client's own requests.               *)
LEMMA WriteKind ==
    ASSUME SessionInv, NEW r \in net, r.kind \in Writes
    PROVE  ~r.old /\ r.kind # "change" /\ ~IsMe(r)
<1>1. ~r.old
  BY DEF SessionInv, RequestOK
<1> QED BY <1>1, NamesDiffer DEF Kinds, IsMe

(* A write is answered.                                                    *)
LEMMA WriteArrived ==
    ASSUME SessionInv, NEW r \in net, NEW w \in Writes, w = r.kind, NEW reply,
           reply \in {"ok", "broken"} => Admitted(r), Arrive(r, reply),
           faults' \in 0 .. MaxFaults
    PROVE  SessionInv'
<1>1. ~r.old /\ r.kind # "change" /\ ~IsMe(r)
  BY WriteKind
<1>2. /\ UNCHANGED <<cookie, changes, outside>>
      /\ reply \notin {"ok", "broken"} => UNCHANGED ran
      /\ reply = "broken" => Execute(r) \/ UNCHANGED ran
      /\ reply = "ok" => Execute(r)
  BY <1>1 DEF Arrive
<1>3. ASSUME ArriveMoved(r, reply) PROVE SessionInv'
  <2>1. reply \notin {"ok", "broken"} /\ UNCHANGED bus /\ SettleWrite(r, "error")
    BY <1>1, <1>3 DEF ArriveMoved, Signals, ContextMoved
  <2>2. TabsHold /\ r \notin net'
    BY <1>3, RefusedEffect DEF ArriveMoved
  <2> QED BY <1>2, <2>1, <2>2, UnrunSettled
<1>4. ASSUME ArriveRefused(r, reply) PROVE SessionInv'
  <2>1. /\ reply # "ok" /\ UNCHANGED bus
        /\ \/ SettleWrite(r, "error") /\ reply # "broken"
           \/ SettleBusy(w) /\ reply # "broken"
           \/ SettleWrite(r, "broken") /\ reply = "broken"
    BY <1>4 DEF ArriveRefused, SettleFailed
  <2>2. TabsHold /\ r \notin net'
    BY <1>4, RefusedEffect DEF ArriveRefused
  <2>3. CASE UNCHANGED ran
    BY <1>2, <2>1, <2>2, <2>3, UnrunSettled
  <2>4. CASE reply = "broken" /\ Execute(r)
    BY <1>2, <2>1, <2>2, <2>4, RunSettled
  <2> QED BY <1>2, <2>1, <2>3, <2>4
<1>5. ASSUME ArriveData(r, reply) PROVE SessionInv'
  <2>1. reply = "ok" /\ UNCHANGED bus /\ SettleWrite(r, "success")
    BY <1>5 DEF ArriveData
  <2>2. TabsHold /\ r \notin net'
    BY <1>5, <2>1, DataEffect
  <2> QED BY <1>2, <2>1, <2>2, RunSettled
<1>6. ArriveMoved(r, reply) \/ ArriveRefused(r, reply) \/ ArriveData(r, reply)
  BY <1>1 DEF Arrive, ArriveLate, ArriveChange, ArriveObserved
<1> QED BY <1>3, <1>4, <1>5, <1>6

(* The server answers, as it should or badly.                              *)
LEMMA ReceiveStep ==
    ASSUME SessionInv, NEW r \in net, Receive(r) \/ ReceiveBad(r)
    PROVE  SessionInv'
<1>1. faults \in 0 .. MaxFaults
  BY DEF SessionInv, TypeOK
<1>2. faults' \in 0 .. MaxFaults
  BY <1>1, BoundsAreNatural DEF Receive, ReceiveBad
<1>3. PICK reply \in Answers(r) \cup BadAnswers(r) : Arrive(r, reply)
  BY DEF Receive, ReceiveBad
<1>4. (reply \in {"ok", "broken"} => Admitted(r)) /\ (reply = "busy" => r.kind \in Writes)
  BY <1>3 DEF Answers, BadAnswers
<1>5. CASE r.kind \in Writes
  BY <1>2, <1>3, <1>4, <1>5, WriteArrived
<1>6. CASE r.kind \notin Writes
  BY <1>2, <1>3, <1>4, <1>6, QueryAnswered
<1> QED BY <1>5, <1>6

(* A request is lost: its write may have run or not, and is reported as    *)
(* neither.                                                                *)
LEMMA LoseStep ==
    ASSUME SessionInv, NEW r \in net, Lose(r)
    PROVE  SessionInv'
<1>0. TypeOK /\ RequestOK(r) /\ faults \in 0 .. MaxFaults
  BY DEF SessionInv, TypeOK
<1>1. faults' \in 0 .. MaxFaults /\ UNCHANGED <<changes, outside>>
  BY <1>0, BoundsAreNatural DEF Lose
<1>2. cookie' \in Contexts
  BY <1>0 DEF Lose, RequestOK, TypeOK
<1>3. SettleWrite(r, "unknown") /\ (Execute(r) \/ UNCHANGED ran)
  BY DEF Lose, SettleLost
<1>4. CASE r.kind \in Writes
  <2>1. PICK w \in Writes : w = r.kind
    BY <1>4
  <2>2. r.kind # "change"
    BY <1>4, WriteKind
  <2>3. UNCHANGED <<cookie, bus>>
    BY <2>2 DEF Lose
  <2>4. tab' = [tab EXCEPT ![r.tab] = Failing(r)] /\ net' = net \ {r}
    BY <2>2 DEF Lose
  <2>5. TabsHold /\ r \notin net'
    BY <2>4, RefusedEffect
  <2>6. CASE UNCHANGED ran
    BY <1>1, <1>3, <2>1, <2>3, <2>5, <2>6, UnrunSettled
  <2>7. CASE Execute(r) /\ Admitted(r)
    BY <1>1, <1>3, <2>1, <2>3, <2>5, <2>7, RunSettled
  <2> QED BY <1>3, <2>6, <2>7 DEF Execute
<1>5. CASE r.kind \notin Writes
  <2>1. UNCHANGED <<write, ran>>
    BY <1>3, <1>5 DEF SettleWrite, Execute
  <2>2. TabsHold /\ bus' \subseteq [to : Tabs, data : Contexts \cup {"changed"}]
    <3>1. CASE r.kind = "change" /\ ~r.old
      BY <3>1, OverEffect DEF Lose
    <3>2. CASE ~(r.kind = "change" /\ ~r.old)
      <4>1. /\ tab' = [tab EXCEPT ![r.tab] = Failing(r)] /\ net' = net \ {r}
            /\ UNCHANGED bus
        BY <3>2 DEF Lose
      <4> QED BY <1>0, <4>1, RefusedEffect DEF TypeOK
    <3> QED BY <3>1, <3>2
  <2> QED BY <1>0, <1>1, <1>2, <2>1, <2>2, TabsStep DEF TypeOK
<1> QED BY <1>4, <1>5

(* A tab hears that another one changed the session.                       *)
LEMMA DeliverStep ==
    ASSUME SessionInv, NEW m \in bus, Deliver(m)
    PROVE  SessionInv'
<1>0. /\ TypeOK /\ tab \in [Tabs -> Tab] /\ net \subseteq Request
      /\ bus \subseteq [to : Tabs, data : Contexts \cup {"changed"}]
  BY DEF SessionInv, TypeOK
<1>1. PICK t \in Tabs : t = m.to
  BY <1>0
<1>2. bus' = bus \ {m} /\ UNCHANGED <<cookie, write, ran, changes, faults, outside>>
  BY DEF Deliver
<1>3. CASE Refresh(t, net, tab[t])
  <2>1. tab[t] \in Tab /\ net \in SUBSET net
    BY <1>0
  <2> QED BY <1>3, <2>1, <1>0, <1>2, RefreshEffect, TabsStep DEF TypeOK
<1>4. CASE UNCHANGED <<tab, net>>
  <2>1. \A u \in Tabs : PageOK(u)' /\ TabHolds(u)
    BY <1>4, SameTab
  <2>2. \A q \in net' : QueryOK(q)'
    BY <1>4, SameQuery
  <2>3. TabsHold
    BY <1>0, <1>4, <2>1, <2>2 DEF TabsHold
  <2> QED BY <1>0, <1>2, <2>3, TabsStep DEF TypeOK
<1> QED BY <1>1, <1>3, <1>4 DEF Deliver

-----------------------------------------------------------------------------
(* The theorems *)

(* The tabs start in a state of the invariant.                              *)
LEMMA SessionInit == Init => SessionInv
<1> SUFFICES ASSUME Init PROVE SessionInv
  OBVIOUS
<1>1. Fresh \in Tab /\ Fresh.phase = "loading"
  BY DEF Fresh, Tab, NoChange, Change
<1>2. 0 \in 0 .. MaxChanges /\ 0 \in 0 .. MaxFaults
  BY BoundsAreNatural
<1>3. write \in [Writes -> Write] /\ \A w \in Writes : write[w].status = "idle"
  BY DEF Init, Write
<1>4. /\ ran \in [Writes -> [times : 0 .. 2, under : SUBSET Contexts]]
      /\ \A w \in Writes : ran[w].times = 0 /\ ran[w].under = {}
  BY DEF Init
<1>5. tab \in [Tabs -> Tab] /\ \A t \in Tabs : tab[t].phase = "loading"
  BY <1>1 DEF Init
<1>6. TypeOK
  BY <1>2, <1>3, <1>4, <1>5, FirstIsContext DEF Init, TypeOK
<1>7. \A w \in Writes : WriteOK(w)
  BY <1>3, <1>4 DEF WriteOK
<1> QED BY <1>5, <1>6, <1>7 DEF Init, SessionInv, PageOK, SentOnce

(* Every step of a tab or of the server keeps the invariant.                *)
LEMMA SessionStep == SessionInv /\ [Next]_vars => SessionInv'
<1> SUFFICES ASSUME SessionInv, [Next]_vars PROVE SessionInv'
  OBVIOUS
<1>1. ASSUME NEW t \in Tabs, TabStep(t) PROVE SessionInv'
  BY <1>1, SendStep, QuietStep, WriteStep, ChangeStep, FinishStep DEF TabStep
<1>2. ASSUME NEW w \in Writes, Resend(w) PROVE SessionInv'
  BY <1>2, WriteStep
<1>3. ASSUME NEW c \in Contexts, ChangeOutside(c) PROVE SessionInv'
  BY <1>3, QuietStep
<1>4. ASSUME NEW r \in net, Receive(r) \/ ReceiveBad(r) \/ Lose(r) PROVE SessionInv'
  BY <1>4, ReceiveStep, LoseStep
<1>5. ASSUME NEW m \in bus, Deliver(m) PROVE SessionInv'
  BY <1>5, DeliverStep
<1>6. CASE UNCHANGED vars
  <2>1. UNCHANGED <<cookie, tab, net, write, ran, bus, changes, faults, outside>>
    BY <1>6 DEF vars
  <2>2. \A u \in Tabs : PageOK(u)' /\ TabHolds(u)
    BY <2>1, SameTab
  <2>3. \A q \in net' : QueryOK(q)'
    BY <2>1, SameQuery
  <2>4. TypeOK'
    BY <2>1 DEF SessionInv, TypeOK
  <2> QED BY <2>1, <2>2, <2>3, <2>4, Settling
<1> QED BY <1>1, <1>2, <1>3, <1>4, <1>5, <1>6 DEF Next

(* The invariant holds of every behaviour.                                  *)
LEMMA SessionAlways == Spec => []SessionInv
<1>1. Spec => Init /\ [][Next]_vars
  BY DEF Spec
<1> QED BY <1>1, SessionInit, SessionStep, PTL

(* Every variable keeps its type: contexts, requests, mutations and        *)
(* messages are what client.ts and SessionBoundary hold.                   *)
THEOREM TypeCorrect == Spec => []TypeOK
<1>1. SessionInv => TypeOK
  BY DEF SessionInv
<1> QED BY <1>1, SessionAlways, PTL

(* A write runs only under the session whose page the user made it on,     *)
(* however many tabs share the cookie, whatever changes it, and whether    *)
(* the write is repeated after a 503 or its answer is lost.                *)
THEOREM IntentIsNeverStale == Spec => []NoStaleIntent
<1>1. SessionInv => NoStaleIntent
  BY DEF SessionInv, WriteOK, NoStaleIntent
<1> QED BY <1>1, SessionAlways, PTL

(* No write runs twice; one reported as done ran, one refused or waiting   *)
(* for its retry did not.  Answers that are lost, or are a 5xx of whatever *)
(* is in front of the API, may follow the work and are never repeated.     *)
THEOREM OutcomesAreTruthful == Spec => []TruthfulOutcome
<1>1. SessionInv => TruthfulOutcome
  BY DEF SessionInv, WriteOK, TruthfulOutcome
<1> QED BY <1>1, SessionAlways, PTL
=============================================================================
