--------------------------- MODULE ConsoleSession ---------------------------
(***************************************************************************)
(* The browser side of a session: tabs of the console that share one       *)
(* session cookie.  A tab is the module state of packages/api/src/client.ts *)
(* (sessionContext, sessionGeneration), the SessionBoundary component with  *)
(* its query client, and the Shell that shows a page only once /me was      *)
(* answered.  The server is reduced to SessionContextMiddleware: a request  *)
(* that names a session context other than its cookie's is refused.         *)
(***************************************************************************)
EXTENDS Integers, FiniteSets

CONSTANTS
    Tabs,        \* the console's tabs
    Active,      \* bound: the tabs whose user works and whose requests may fail;
                 \* the others are open, and looked at now and then
    Contexts,    \* session fingerprints: a user, an organization, a session
    Writes,      \* writes a user may ask for, each once
    MaxChanges,  \* bound: changes of the cookie, in the console or outside it
    MaxFaults,   \* bound: lost answers, refusals and proxies
    First,       \* the session the tabs are opened in
    MaxOpen      \* bound: a user asks for more only below this many requests

ASSUME BoundsAreNatural == {MaxChanges, MaxFaults, MaxOpen} \subseteq Nat
ASSUME ActiveAreTabs == Active \subseteq Tabs
ASSUME FirstIsContext == First \in Contexts

None == "none"

VARIABLES
    cookie,   \* the session the shared cookie stands for
    tab,      \* per tab: client.ts module state, boundary and shell
    net,      \* requests between a tab and the server
    write,    \* per write: the mutation in the tab's query client
    ran,      \* writes the server executed: write, and the session it ran under
    bus,      \* BroadcastChannel messages not delivered yet
    changes, faults,
    outside   \* the cookie was changed outside the console

vars == <<cookie, tab, net, write, ran, bus, changes, faults, outside>>

Change == [to: Contexts \cup {None}, announce: BOOLEAN]

Tab == [ctx: Contexts \cup {None},       \* sessionContext
        seen: Contexts \cup {None},      \* observedContext.current
        phase: {"loading", "page", "failed", "finishing", "changing"},
        page: Contexts \cup {None},      \* whose page the Shell shows
        cached: SUBSET Contexts,         \* whose data the query client holds
        change: Change]                  \* what the running transition does

Kinds == {"me", "probe", "poll", "read", "change"}

ASSUME NamesDiffer == None \notin Contexts /\ Kinds \cap Writes = {}

Request == [tab: Tabs, kind: Kinds \cup Writes,
            cookie: Contexts, header: Contexts \cup {None},
            to: Contexts \cup {None},    \* the session a change asks for
            old: BOOLEAN]                \* generation # sessionGeneration

Write == [tab: Tabs \cup {None}, intent: Contexts \cup {None}, tries: 0..1,
          status: {"idle", "pending", "waiting", "success", "error", "broken",
                   "unknown"}]

TypeOK ==
    /\ cookie \in Contexts
    /\ tab \in [Tabs -> Tab]
    /\ net \subseteq Request
    /\ write \in [Writes -> Write]
    /\ ran \in [Writes -> [times: 0..2, under: SUBSET Contexts]]
    /\ bus \subseteq [to: Tabs, data: Contexts \cup {"changed"}]
    /\ changes \in 0..MaxChanges
    /\ faults \in 0..MaxFaults
    /\ outside \in BOOLEAN

NoChange == [to |-> None, announce |-> FALSE]

\* A tab as SessionBoundary and Shell first render it.
Fresh == [ctx |-> None, seen |-> None, phase |-> "loading",
          page |-> None, cached |-> {}, change |-> NoChange]

Init ==
    /\ cookie = First
    /\ tab = [t \in Tabs |-> Fresh]
    /\ net = {}
    /\ write = [w \in Writes |-> [tab |-> None, intent |-> None, tries |-> 0,
                                  status |-> "idle"]]
    /\ ran = [w \in Writes |-> [times |-> 0, under |-> {}]]
    /\ bus = {}
    /\ changes = 0
    /\ faults = 0
    /\ outside = FALSE

-----------------------------------------------------------------------------
(* The transport: request() of client.ts.                                   *)

\* The requests of /me, which carry no header and answer with the context.
IsMe(r) == r.kind \in {"me", "probe", "poll"}

Changing(t) == tab[t].phase \in {"finishing", "changing"}

Outstanding(t, kind) == \E r \in net : r.tab = t /\ r.kind = kind /\ ~r.old

\* One request leaves: the browser adds the cookie it holds now, the client
\* the context it observed, except on /me.
HeaderOf(t, kind) ==
    IF kind \in {"me", "probe", "poll"} THEN None ELSE tab[t].ctx

Sent(t, kind, to) ==
    [tab |-> t, kind |-> kind, cookie |-> cookie, header |-> HeaderOf(t, kind),
     to |-> to, old |-> FALSE]

\* cancelQueries: queries pass their signal on, so the request is gone.
Uncancelled(t, requests) ==
    {r \in requests : ~(r.tab = t /\ r.kind \in {"me", "read"})}

\* transition(): refused while one runs; the page is taken down.
Begin(t, change, requests, tb) ==
    /\ tab' = [tab EXCEPT ![t] = [tb EXCEPT
            !.phase = "finishing", !.change = change, !.page = None]]
    /\ net' = Uncancelled(t, requests)

\* The refresh a changed or observed context asks for; a running transition
\* makes it a no-op (it will ask /me afresh itself).
Refresh(t, requests, tb) ==
    IF tb.phase \in {"finishing", "changing"}
    THEN tab' = [tab EXCEPT ![t] = tb] /\ net' = requests
    ELSE Begin(t, NoChange, requests, tb)

\* The finally block: nothing of the old session survives, whatever happened.
\* The effect's cleanup aborts the probe; requests without a signal go on and
\* belong to an earlier generation.
Conclude(t, requests) ==
    /\ tab' = [tab EXCEPT ![t] = [Fresh EXCEPT !.seen = tab[t].seen]]
    /\ net' = {IF r.tab = t THEN [r EXCEPT !.old = TRUE] ELSE r :
                   r \in {q \in requests : ~(q.tab = t /\ q.kind = "probe")}}
    /\ bus' = bus \cup (IF tab[t].change.announce
                        THEN {[to |-> u, data |-> "changed"] : u \in Tabs \ {t}}
                        ELSE {})

-----------------------------------------------------------------------------
(* What a user and the mounted components do.                               *)

\* useMe of the Shell fetches on mount.
SendMe(t) ==
    /\ tab[t].phase = "loading"
    /\ ~Outstanding(t, "me")
    /\ net' = net \cup {Sent(t, "me", None)}
    /\ UNCHANGED <<cookie, tab, write, ran, bus, changes, faults, outside>>

\* "Retry session verification".
RetryMe(t) ==
    /\ tab[t].phase = "failed"
    /\ tab' = [tab EXCEPT ![t].phase = "loading"]
    /\ UNCHANGED <<cookie, net, write, ran, bus, changes, faults, outside>>

\* checkSession on focus and visibilitychange.
Probe(t) ==
    /\ ~Changing(t)
    /\ ~Outstanding(t, "probe")
    /\ Cardinality(net) < MaxOpen
    /\ net' = net \cup {Sent(t, "probe", None)}
    /\ UNCHANGED <<cookie, tab, write, ran, bus, changes, faults, outside>>

\* CreateOrgScreen polls /me without a signal until the membership arrives.
\* (Its POST before the loop and its switch after it are not followed here: the
\* one is sent outside the query client and its outcome is shown on that screen
\* alone, the other is a ChangeSession.)
Poll(t) ==
    /\ tab[t].phase = "page"
    /\ \A r \in net : ~(r.tab = t /\ r.kind = "poll")
    /\ Cardinality(net) < MaxOpen
    /\ net' = net \cup {Sent(t, "poll", None)}
    /\ UNCHANGED <<cookie, tab, write, ran, bus, changes, faults, outside>>

\* A query of the page.
Read(t) ==
    /\ tab[t].phase = "page"
    /\ ~Outstanding(t, "read")
    /\ Cardinality(net) < MaxOpen
    /\ net' = net \cup {Sent(t, "read", None)}
    /\ UNCHANGED <<cookie, tab, write, ran, bus, changes, faults, outside>>

\* useApiMutation(...).mutate on the page.
Mutate(t, w) ==
    /\ tab[t].phase = "page"
    /\ write[w].status = "idle"
    /\ write' = [write EXCEPT ![w] = [tab |-> t, intent |-> tab[t].page,
                                      tries |-> 0, status |-> "pending"]]
    /\ net' = net \cup {Sent(t, w, None)}
    /\ UNCHANGED <<cookie, tab, ran, bus, changes, faults, outside>>

\* The retry after Retry-After seconds: the mutation, not the page, sends it.
Resend(w) ==
    /\ write[w].status = "waiting"
    /\ write' = [write EXCEPT ![w].status = "pending"]
    /\ net' = net \cup {Sent(write[w].tab, w, None)}
    /\ UNCHANGED <<cookie, tab, ran, bus, changes, faults, outside>>

\* OrgSwitcher, sign out, impersonate, stop impersonating, delete account.
ChangeSession(t, c) ==
    /\ tab[t].phase = "page"
    /\ c # tab[t].page
    /\ changes < MaxChanges
    /\ changes' = changes + 1
    /\ Begin(t, [to |-> c, announce |-> TRUE], net, tab[t])
    /\ UNCHANGED <<cookie, write, ran, bus, faults, outside>>

\* A login or another application changes the cookie and tells nobody.
ChangeOutside(c) ==
    /\ c # cookie
    /\ changes < MaxChanges
    /\ changes' = changes + 1
    /\ cookie' = c
    /\ UNCHANGED <<tab, net, write, ran, bus, faults>>
    /\ outside' = TRUE

\* Bug variant: a mutation that waits for its retry does not count.
UnfinishedSent(t) == {w \in Writes : write[w].tab = t /\ write[w].status = "pending"}

\* isMutating of the tab's query client; a retry that waits is still pending.
Unfinished(t) == {w \in Writes : /\ write[w].tab = t
                                 /\ write[w].status \in {"pending", "waiting"}}

\* transition() after finishMutations: send the change, or just start over.
FinishMutations(t) ==
    /\ tab[t].phase = "finishing"
    /\ Unfinished(t) = {}
    /\ IF tab[t].change.to = None
       THEN Conclude(t, Uncancelled(t, net))
       ELSE /\ tab' = [tab EXCEPT ![t].phase = "changing"]
            /\ net' = Uncancelled(t, net) \cup {Sent(t, "change", tab[t].change.to)}
            /\ UNCHANGED bus
    /\ UNCHANGED <<cookie, write, ran, changes, faults, outside>>

-----------------------------------------------------------------------------
(* The server.                                                              *)

\* SessionContextMiddleware: the named context must be the cookie's.
Admitted(r) == r.header = None \/ r.header = r.cookie

\* What comes back, with a fault or without: a refusal, a 503 that names a delay
\* (the API's own, before it works), a 5xx that names none, of the API or of
\* something in front of it, before or after the work was done, or a /me answer
\* whose context header a proxy stripped.
Answers(r) == IF Admitted(r) THEN {"ok"} ELSE {"mismatch"}

BadAnswers(r) ==
    IF ~Admitted(r) THEN {}
    ELSE {"error", "broken"}
                  \cup (IF r.kind \in Writes THEN {"busy"} ELSE {})
                  \cup (IF IsMe(r) THEN {"bare"} ELSE {})

\* The handler of a write behind the middleware.
Execute(r) ==
    ran' = IF r.kind \in Writes /\ Admitted(r)
           THEN [ran EXCEPT ![r.kind].times = @ + 1,
                            ![r.kind].under = @ \cup {r.cookie}]
           ELSE ran

-----------------------------------------------------------------------------
(* Answers, in the order request() looks at them.                           *)

\* The Shell's query failed (with its one retry): "Could not verify your session".
MeFailed(tb) == IF tb.phase = "loading" THEN [tb EXCEPT !.phase = "failed"] ELSE tb

Failing(r) == IF r.kind = "me" /\ ~r.old THEN MeFailed(tab[r.tab]) ELSE tab[r.tab]

SettleWrite(r, status) ==
    write' = IF r.kind \in Writes THEN [write EXCEPT ![r.kind].status = status]
             ELSE write

\* isTransient: a 503 that names a delay is repeated, once.
SettleBusy(w) ==
    write' = IF write[w].tries = 0
             THEN [write EXCEPT ![w].status = "waiting", ![w].tries = 1]
             ELSE [write EXCEPT ![w].status = "error"]

\* Bug variant: every server error is repeated.
SettleRepeating(r, reply) ==
    IF reply \in {"busy", "broken"} /\ r.kind \in Writes THEN SettleBusy(r.kind)
    ELSE SettleWrite(r, "error")

\* A write that was not accepted: repeated, or over with the error's status.
SettleFailed(r, reply) ==
    IF reply = "busy" THEN SettleBusy(r.kind)
    ELSE SettleWrite(r, IF reply = "broken" THEN "broken" ELSE "error")

\* A transition's own request is over, well or badly: the finally block runs.
Over(r) == Conclude(r.tab, net \ {r})

\* A /me answer of another context than the one in use is not accepted.
ContextMoved(r, reply) ==
    /\ reply = "ok"
    /\ IsMe(r)
    /\ tab[r.tab].ctx \notin {None, r.cookie}

\* SESSION_CONTEXT_CHANGED is dispatched.
Signals(r, reply) ==
    \/ reply = "mismatch"
    \/ ContextMoved(r, reply)
    \/ reply = "bare" /\ tab[r.tab].ctx # None

\* "This response belongs to a previous session."
ArriveLate(r, reply) ==
    /\ r.old
    /\ net' = net \ {r}
    /\ SettleWrite(r, "error")
    /\ UNCHANGED <<tab, bus>>

ArriveChange(r, reply) ==
    /\ ~r.old /\ r.kind = "change"
    /\ Over(r)
    /\ UNCHANGED write

\* "Your session changed.  Please retry in the current organization."
ArriveMoved(r, reply) ==
    /\ ~r.old /\ r.kind # "change" /\ Signals(r, reply)
    /\ SettleWrite(r, "error")
    /\ Refresh(r.tab, net \ {r}, Failing(r))
    /\ UNCHANGED bus

ArriveRefused(r, reply) ==
    /\ ~r.old /\ r.kind # "change" /\ ~Signals(r, reply) /\ reply # "ok"
    /\ SettleFailed(r, reply)
    /\ tab' = [tab EXCEPT ![r.tab] = Failing(r)]
    /\ net' = net \ {r}
    /\ UNCHANGED bus

\* /me: the context is taken over and the other tabs are told; the Shell's own
\* query makes the page appear.
ArriveObserved(r, reply) ==
    LET t == r.tab IN
    /\ ~r.old /\ reply = "ok" /\ IsMe(r) /\ ~Signals(r, reply)
    /\ tab' = [tab EXCEPT
          ![t].ctx = r.cookie, ![t].seen = r.cookie,
          ![t].page = IF r.kind = "me" THEN r.cookie ELSE @,
          ![t].phase = IF r.kind = "me" THEN "page" ELSE @]
    /\ bus' = IF tab[t].ctx = r.cookie THEN bus
              ELSE bus \cup {[to |-> u, data |-> r.cookie] : u \in Tabs \ {t}}
    /\ net' = net \ {r}
    /\ UNCHANGED write

ArriveData(r, reply) ==
    /\ ~r.old /\ reply = "ok" /\ ~IsMe(r) /\ r.kind # "change"
    /\ SettleWrite(r, "success")
    /\ tab' = IF r.kind = "read" THEN [tab EXCEPT ![r.tab].cached = @ \cup {r.cookie}]
              ELSE tab
    /\ net' = net \ {r}
    /\ UNCHANGED bus

\* The browser takes the cookie of an answer whoever still waits for it.
Arrive(r, reply) ==
    /\ cookie' = IF r.kind = "change" /\ reply = "ok" THEN r.to ELSE cookie
    /\ \/ ArriveLate(r, reply)
       \/ ArriveChange(r, reply)
       \/ ArriveMoved(r, reply)
       \/ ArriveRefused(r, reply)
       \/ ArriveObserved(r, reply)
       \/ ArriveData(r, reply)
    /\ \/ reply \in {"ok", "broken"} /\ Execute(r)
       \/ reply # "ok" /\ UNCHANGED ran
    /\ UNCHANGED <<changes, outside>>

\* The server handles the request and its answer is read.  Handling and reading
\* are one step: the answer depends only on what the request carries.
Receive(r) ==
    /\ \E reply \in Answers(r) : Arrive(r, reply)
    /\ UNCHANGED faults

ReceiveBad(r) ==
    /\ faults < MaxFaults
    /\ r.tab \in Active
    /\ faults' = faults + 1
    /\ \E reply \in BadAnswers(r) : Arrive(r, reply)

\* Bug variant: a broken connection counts as a refusal.
SettleLostAsError(r) == SettleWrite(r, "error")

\* outcomeUnknown: after dispatch nobody can say whether a write committed.
SettleLost(r) == SettleWrite(r, "unknown")

\* The deadline passes or the connection breaks; a change may have moved the
\* cookie with the headers of an answer whose body was lost.
Lose(r) ==
    /\ faults < MaxFaults
    /\ r.tab \in Active
    /\ faults' = faults + 1
    /\ cookie' \in IF r.kind = "change" /\ Admitted(r) THEN {cookie, r.to} ELSE {cookie}
    /\ SettleLost(r)
    /\ IF r.kind = "change" /\ ~r.old
       THEN Over(r)
       ELSE /\ tab' = [tab EXCEPT ![r.tab] = Failing(r)]
            /\ net' = net \ {r}
            /\ UNCHANGED bus
    /\ Execute(r) \/ UNCHANGED ran
    /\ UNCHANGED <<changes, outside>>

\* Bug variant: messages are dropped until a context is in use again.
DeliverWhenKnown(m) ==
    /\ bus' = bus \ {m}
    /\ IF m.data # tab[m.to].seen /\ m.data # "changed" /\ tab[m.to].ctx # None
       THEN Refresh(m.to, net, tab[m.to])
       ELSE UNCHANGED <<tab, net>>
    /\ UNCHANGED <<cookie, write, ran, changes, faults, outside>>

\* updates.onmessage.
Deliver(m) ==
    /\ bus' = bus \ {m}
    /\ IF m.data # tab[m.to].seen
       THEN Refresh(m.to, net, tab[m.to])
       ELSE UNCHANGED <<tab, net>>
    /\ UNCHANGED <<cookie, write, ran, changes, faults, outside>>

-----------------------------------------------------------------------------

TabStep(t) ==
    \/ SendMe(t)
    \/ RetryMe(t)
    \/ t \notin Active /\ Probe(t)
    \/ /\ t \in Active
       /\ Poll(t) \/ Read(t) \/ \E w \in Writes : Mutate(t, w)
    \/ \E c \in Contexts : ChangeSession(t, c)
    \/ FinishMutations(t)

Next ==
    \/ \E t \in Tabs : TabStep(t)
    \/ \E w \in Writes : Resend(w)
    \/ \E c \in Contexts : ChangeOutside(c)
    \/ \E r \in net : Receive(r) \/ ReceiveBad(r) \/ Lose(r)
    \/ \E m \in bus : Deliver(m)

\* What browser, server and React do by themselves: the Shell's query is sent
\* on mount, answers come or their 30 second deadline passes, messages are
\* delivered, a transition whose writes are over goes on, a retry whose delay
\* is over is sent.
Fairness ==
    /\ \A t \in Tabs : WF_vars(SendMe(t)) /\ WF_vars(FinishMutations(t))
    /\ \A w \in Writes : WF_vars(Resend(w))
    /\ \A t \in Tabs, k \in Kinds \cup Writes :
         WF_vars(\E r \in net : r.tab = t /\ r.kind = k /\ Receive(r))
    /\ \A t \in Tabs : WF_vars(\E m \in bus : m.to = t /\ Deliver(m))

Spec == Init /\ [][Next]_vars /\ Fairness

-----------------------------------------------------------------------------
(* Properties.                                                              *)

\* A write runs only under the session whose page the user made it on, though
\* the cookie is shared, may change while the write waits for its retry, and
\* the header is left out while no context is known ("never execute stale
\* intent under that cookie", SessionContextMiddleware).
NoStaleIntent == \A w \in Writes : ran[w].under \subseteq {write[w].intent}

\* No write runs twice, and what the client concludes of one is true: success
\* means it ran, a refusal and a wait for the retry that it did not.  A lost
\* answer and a 5xx without a delay prove neither, and are never repeated
\* ("repeating a write on that guess is how a request lands twice", isTransient);
\* the first is reported as unknown, the second like a refusal.
TruthfulOutcome ==
    \A w \in Writes :
        /\ ran[w].times <= 1
        /\ write[w].status = "success" => ran[w].times = 1
        /\ write[w].status \in {"error", "waiting"} => ran[w].times = 0

\* A session change made in one tab reaches every other tab without its user
\* doing anything: in the end each shows the session of the cookie, or could
\* not verify it.  (A change made outside the console tells nobody.)
TabsConverge ==
    <>[](outside \/ \A t \in Tabs : \/ tab[t].phase = "page" /\ tab[t].page = cookie
                                   \/ tab[t].phase = "failed")
=============================================================================
