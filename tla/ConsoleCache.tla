---------------------------- MODULE ConsoleCache ----------------------------
(***************************************************************************)
(* The console's pages over the query cache they share. A page mounts      *)
(* queries; a query caches what the server answered under its key and      *)
(* refetches when it is invalidated, when it is mounted stale, or on its   *)
(* polling interval. A mutation writes server resources, some at once and  *)
(* some later by a worker, and names the key prefixes it dirtied. The      *)
(* cache itself is @tanstack/react-query 5, modelled from how the console  *)
(* uses it: every query function passes its abort signal on, so leaving    *)
(* the last page that shows a query aborts its fetch.                      *)
(*                                                                         *)
(* A behaviour follows one mutation, chosen at the start, on the page that *)
(* offers it, and one other page the person walks to and back. Cached data *)
(* is abstracted to the version of each resource the mutation writes. What *)
(* a handler of the API reads and writes is read off the handler; the      *)
(* audit trail, which most of them append to through the outbox, is left   *)
(* out of what they write.                                                 *)
(***************************************************************************)
EXTENDS Naturals, Sequences, FiniteSets, SequencesExt

CONSTANTS MaxWrites,   \* how often the mutation is submitted
          MaxFaults    \* how many requests fail or lose their answer

ASSUME BoundsAssumption == MaxWrites \in Nat \ {0} /\ MaxFaults \in {0, 1}

-----------------------------------------------------------------------------
\* Queries: a key and the server resources the answer depends on.

\* Some poll as long as they are mounted, some while the answer shows work
\* still under way.

Query(key, reads) == [key |-> key, reads |-> reads, poll |-> "never"]
Polled(key, reads) == [key |-> key, reads |-> reads, poll |-> "always"]
PolledWhileActive(key, reads) == [key |-> key, reads |-> reads, poll |-> "active"]

\* Who is signed in, the name of the organization as the directory has it, and the
\* capabilities the roles, assignments and exceptions come to.
useMe == Query(<<"me">>, {"me", "org", "role", "assignment", "exception"})
useHierarchy == Query(<<"hierarchy">>, {"node"})
useOverlays == Query(<<"overlays", "active">>, {"overlay"})
useSites == Query(<<"sites", "list">>, {"site", "status", "siteRows", "attribute"})
useBasemaps == Query(<<"basemaps">>, {"basemap"})
useSite == Query(<<"site", "s">>, {"site", "status", "attribute"})
useSiteSchedules == Query(<<"schedules", "s">>, {"schedule"})
\* Bug variant: the preview is read once, not polled.
WindowsOnce == Query(<<"windows", "s">>, {"window"})
useSiteWindows == Polled(<<"windows", "s">>, {"window"})
useSiteAttributes == Query(<<"site-attributes">>, {"definition"})
\* The closures are the dates the site's schedules leave out.
useSiteClosures == Query(<<"closures", "s">>, {"closure", "exDates"})
SitePhotos == Query(<<"reports", "photos", "s">>, {"file"})
Entitlements == Query(<<"entitlements">>, {"usage", "quota"})
Roles == Query(<<"roles">>, {"role", "assignment"})
\* An invitation, like a member, is listed with the name of its role.
Invitations == Query(<<"invitations">>, {"invitation", "role"})
ReportQuota == Query(<<"reports", "quota">>, {"quota"})

\* A mutation, or several alike: what it writes before it is answered, what a
\* worker writes after, and the key prefixes its success invalidates. Some
\* invalidate on failure too.
Mutation(names, writes, dirties) ==
    [names |-> names, writes |-> writes, later |-> {}, dirties |-> dirties, onError |-> {},
     shown |-> {}]
Deferred(m, later) == [m EXCEPT !.later = later]
AlsoOnError(m, keys) == [m EXCEPT !.onError = keys]
\* Its control is on the screen once the data under the keys is.
OnceShown(m, keys) == [m EXCEPT !.shown = keys]

\* Every page stands in the shell, which mounts useMe.
Page(path, queries, mutations) ==
    [path |-> path, queries |-> queries \cup {useMe}, mutations |-> mutations]

-----------------------------------------------------------------------------
\* The pages: the queries each mounts and the mutations it offers to someone
\* holding every capability.

\* useRefreshSite: what an edit of the site or its hours makes stale.
RefreshSite == {<<"site", "s">>, <<"schedules", "s">>, <<"windows", "s">>}

DashboardPage ==
    Page("/", {Entitlements, Invitations, useHierarchy,
               Query(<<"sites", "summary">>, {"status", "siteRows"}),
               Query(<<"members", "count">>, {"member"})}, {})

NewSiteDialog == Mutation({"create"}, {"siteRows", "usage"}, {<<"sites">>})

\* The bar over the sites ticked in the list.
BulkStatus == OnceShown(Mutation({"bulkStatus"}, {"status"}, {<<"sites">>}), {<<"sites", "list">>})

SitesPage ==
    Page("/sites", {useSites, useHierarchy, useBasemaps, useOverlays}, {NewSiteDialog, BulkStatus})

\* A schedule removed takes its closed dates along.
OperatingHours ==
    {Deferred(Mutation({"addSchedule"}, {"schedule"}, RefreshSite), {"window"}),
     Deferred(Mutation({"removeSchedule"}, {"schedule", "exDates"}, RefreshSite), {"window"})}

HolidayClosures ==
    Deferred(Mutation({"addClosure", "removeClosure"}, {"closure", "schedule"},
                      RefreshSite \cup {<<"closures", "s">>}), {"window"})

SiteHours == OperatingHours \cup {HolidayClosures}

\* A library of files; an upload refreshes when it settles, either way, and is
\* scanned later.
FileLibrary(refresh) ==
    {AlsoOnError(Deferred(Mutation({"upload"}, {"file"}, refresh), {"file"}), refresh),
     Mutation({"hold", "erase", "restore"}, {"file"}, {<<"files">>})}

SiteDetailPage ==
    Page("/sites/s",
         {useSite, useSiteAttributes, useSiteSchedules, useSiteWindows, useSiteClosures,
          Query(<<"files", "list", "s">>, {"file"})},
         SiteHours
           \cup FileLibrary({<<"files">>, <<"reports", "photos", "s">>})
           \cup {OnceShown(AlsoOnError(Deferred(Mutation({"update"}, {"site", "status", "attribute"}, RefreshSite),
                                                {"window"}), RefreshSite),
                           {<<"site", "s">>})})

FilesPage ==
    Page("/files", {Query(<<"files", "list", "all">>, {"file"})}, FileLibrary({<<"files">>}))

NewLayerDialog == Mutation({"create"}, {"overlay"}, {<<"overlays">>})

UploadShapesDialog == Mutation({"upload"}, {"overlay"}, {<<"overlays">>})

OverlaysPage ==
    Page("/overlays", {useOverlays, useHierarchy},
         {Mutation({"remove", "restore"}, {"overlay"}, {<<"overlays">>}),
          NewLayerDialog, UploadShapesDialog})

HierarchyPage ==
    Page("/hierarchy", {useHierarchy, Entitlements},
         {Mutation({"provision", "renameLevels"}, {"node", "usage"}, {<<"hierarchy">>}),
          Mutation({"addNode", "rename", "removeNode"}, {"node"}, {<<"hierarchy">>})})

TemplatesCard == Mutation({"create", "remove"}, {"template"}, {<<"checklists">>})

ChecklistsPage ==
    Page("/checklists",
         {useSites, Query(<<"checklists", "today", "s">>, {"tick", "template", "site"}),
          Query(<<"checklists", "templates">>, {"template"})},
         {Mutation({"check"}, {"tick"}, {<<"checklists", "today", "s">>}), TemplatesCard})

ConnectorsCard ==
    {Mutation({"save", "remove"}, {"connector"}, {<<"connectors">>}),
     Deferred(Mutation({"sync"}, {}, {<<"ingest-batches">>}), {"batchRows", "connector"})}

UploadCsv == Mutation({"stage"}, {"batchRows"}, {})

\* The button under the preview of the batch: the commit asks for the changes,
\* and the sites change when a worker applies them.
DiffPreview ==
    OnceShown(Deferred(Mutation({"commit"}, {"batch"},
                                {<<"ingest-batch", "b">>, <<"ingest-batches">>, <<"sites">>}),
                       {"site", "status", "siteRows", "usage"}),
              {<<"ingest-batch", "b">>})

\* A control in the rows of the batches.
Batches ==
    OnceShown(Mutation({"discard"}, {"batchRows"}, {<<"ingest-batches">>}),
              {<<"ingest-batches">>})

IngestPage ==
    Page("/ingest",
         {Query(<<"ingest-batch", "b">>, {"batch"}),
          Query(<<"ingest-batches">>, {"batch", "batchRows"}),
          Query(<<"connectors">>, {"connector"})},
         ConnectorsCard \cup {UploadCsv, DiffPreview, Batches})

\* Controls in the rows of the people.
People ==
    {OnceShown(m, {<<"members", "list">>}) :
        m \in {Mutation({"remove"}, {"member", "assignment", "exception"}, {<<"members">>}),
               Mutation({"unassign"}, {"assignment"}, {<<"members">>})}}

PendingInvitations == Mutation({"invite", "revoke"}, {"invitation"}, {<<"invitations">>})

Contacts == Mutation({"inviteContact", "revokeContact"}, {"contact"}, {<<"contacts">>})

MembersPage ==
    Page("/members",
         {Query(<<"members", "list">>, {"member", "assignment", "role", "me"}), Roles, Invitations,
          Query(<<"contacts">>, {"contact"})},
         People \cup {PendingInvitations, Contacts})

RoleEditor == Mutation({"save"}, {"role"}, {<<"roles">>})

AssignDialog == Mutation({"assign"}, {"assignment"}, {<<"roles">>, <<"members">>})

ExceptionsCard == Mutation({"grant", "revoke"}, {"exception"}, {<<"grant-exceptions">>})

RolesPage ==
    Page("/roles",
         {Roles, Query(<<"members", "picker">>, {"member", "me"}), useHierarchy,
          Query(<<"grant-exceptions">>, {"exception"})},
         {Mutation({"remove"}, {"role"}, {<<"roles">>}), RoleEditor, AssignDialog, ExceptionsCard})

ReportsPage ==
    Page("/reports",
         {ReportQuota, PolledWhileActive(<<"reports", "list">>, {"run", "runRows", "site"})}, {})

\* The page of one run, which polls the run and not the list.
ReportDetails ==
    Page("/reports/r",
         {ReportQuota, PolledWhileActive(<<"reports", "r">>, {"run", "site"}),
          Query(<<"reports", "list">>, {"run", "runRows", "site"})},
         {OnceShown(Deferred(Mutation({"cancel", "retry"}, {"run", "quota"}, {<<"reports">>}),
                             {"run"}),
                    {<<"reports", "r">>})})

\* The request form, opened over the sites page or a site.
ReportRequestForm ==
    Page("/report-form",
         {ReportQuota, SitePhotos, Query(<<"reports", "types">>, {"configuration"}),
          Query(<<"reports", "basemaps">>, {"configuration"}),
          Query(<<"reports", "overlays">>, {"overlay"})},
         {Deferred(Mutation({"submit"}, {"runRows", "quota"},
                            {<<"reports", "list">>, <<"reports", "quota">>}), {"runRows"})})

WebhooksCard ==
    {Mutation({"create", "remove", "rotateSecret"}, {"webhook"}, {<<"webhooks">>}),
     Deferred(Mutation({"ping"}, {}, {<<"webhooks">>}), {"webhook"})}

ApiKeysCard == Mutation({"create", "revoke", "rotate"}, {"apiKey"}, {<<"api-keys">>})

DevelopersPage ==
    Page("/developers",
         {Query(<<"api-keys">>, {"apiKey", "role"}), Roles, Query(<<"webhooks">>, {"webhook"})},
         {ApiKeysCard} \cup WebhooksCard)

SiteAttributesCard ==
    {Mutation({"create"}, {"definition"}, {<<"site-attributes">>}),
     Mutation({"remove"}, {"definition", "attribute"}, {<<"site-attributes">>, <<"site">>})}

MapBasemapsCard == Mutation({"save"}, {"basemap"}, {<<"basemaps">>})

\* Tabs that read, and send the person to a provider's own pages.
Billing == Query(<<"billing">>, {"billing"})
SingleSignOn == Query(<<"sso">>, {"sso"})
PublicLocator == Query(<<"public-url">>, {"slug"})

\* The archive is written by a worker, and nothing is invalidated.
YourData == Deferred(Mutation({"exportData"}, {}, {}), {"file"})

CloseOrganization == Mutation({"requestClose", "cancelClose"}, {"orgClosure"}, {<<"closure">>})

\* The directory that useMe reads learns of the new name later.
OrgRename == Deferred(Mutation({"rename"}, {}, {<<"me">>}), {"org"})

SettingsPage ==
    Page("/settings",
         {Billing, SingleSignOn, PublicLocator,
          Query(<<"closure">>, {"orgClosure"}), useSiteAttributes,
          Query(<<"basemaps", "settings">>, {"basemap"})},
         {OrgRename, YourData, CloseOrganization, MapBasemapsCard}
         \cup SiteAttributesCard)

AccountPage ==
    Page("/account", {Query(<<"sessions">>, {"session"})},
         {Mutation({"rename"}, {"me"}, {<<"me">>}),
          Mutation({"revoke", "revokeOthers"}, {"session"}, {<<"sessions">>})})

OrganizationControls ==
    {Mutation({"transition"}, {"operatedOrg"}, {<<"operator-orgs">>}),
     Deferred(Mutation({"offboard"}, {"operatedOrg"}, {<<"operator-orgs">>}), {"operatedOrg"})}

OrgEntitlements == Mutation({"set"}, {"limits"}, {<<"operator-entitlements", "o">>})

DeadLetters ==
    {Deferred(Mutation({"replay"}, {"deadLetter"}, {<<"dead-letters">>}), {"deadLetter"}),
     Mutation({"discard"}, {"deadLetter"}, {<<"dead-letters">>})}

Suppressions == Mutation({"unsuppress"}, {"suppression"}, {<<"suppressions">>})

PlatformOverview == Polled(<<"operator-overview">>, {"operatedOrg", "deadLetter", "orgClosure"})

OperatorPage ==
    Page("/operator",
         {PlatformOverview,
          Query(<<"operator-orgs">>, {"operatedOrg"}), Query(<<"suppressions">>, {"suppression"}),
          Polled(<<"dead-letters">>, {"deadLetter"}),
          Query(<<"operator-entitlements", "o">>, {"limits"})},
         {OrgEntitlements, Suppressions} \cup OrganizationControls \cup DeadLetters)

AuditPage == Page("/audit", {Query(<<"audit">>, {"trail"})}, {})

Pages == {DashboardPage, SitesPage, SiteDetailPage, FilesPage, OverlaysPage, HierarchyPage,
          ChecklistsPage, IngestPage, MembersPage, RolesPage, ReportsPage, ReportDetails,
          ReportRequestForm, DevelopersPage, SettingsPage, AccountPage, OperatorPage, AuditPage}

\* What there is to follow of a mutation, the page offering it and another page:
\* only the keys whose answer depends on what the mutation writes. Mutations
\* that differ in name only are followed once.
Follow(m, own, other) ==
    LET resources == m.writes \cup m.later
        queries(page) == {q \in page.queries : q.reads \cap resources # {}}
        poll(page) == [k \in {q.key : q \in queries(page)} |->
                         (CHOOSE q \in queries(page) : q.key = k).poll]
        all == queries(own) \cup queries(other)
    IN  [path |-> own.path, mutation |-> [m EXCEPT !.names = {}], resources |-> resources,
         reads |-> [k \in {q.key : q \in all} |->
                      (CHOOSE q \in all : q.key = k).reads \cap resources],
         poll |-> [own |-> poll(own), other |-> poll(other)]]

Followed ==
    UNION {{Follow(m, pair[1], pair[2]) : m \in pair[1].mutations} :
              pair \in {p \in Pages \X Pages : p[1] # p[2]}}

Matches(k, prefixes) == \E p \in prefixes : IsPrefix(p, k)

\* What the code leaves out of the dirtied keys: a page, what its mutation
\* writes, and a key that reads it and is not invalidated.
Forgotten ==
    {<<"/sites", "usage", <<"entitlements">> >>, <<"/hierarchy", "usage", <<"entitlements">> >>,
     <<"/report-form", "quota", <<"entitlements">> >>, <<"/reports/r", "quota", <<"entitlements">> >>,
     <<"/ingest", "batchRows", <<"ingest-batches">> >>,
     <<"/sites", "status", <<"site", "s">> >>,
     <<"/sites/s", "site", <<"sites", "list">> >>, <<"/sites/s", "status", <<"sites", "list">> >>,
     <<"/sites/s", "status", <<"sites", "summary">> >>, <<"/sites/s", "attribute", <<"sites", "list">> >>,
     <<"/sites/s", "site", <<"checklists", "today", "s">> >>,
     <<"/sites/s", "site", <<"reports", "list">> >>, <<"/sites/s", "site", <<"reports", "r">> >>,
     <<"/sites/s", "exDates", <<"closures", "s">> >>,
     <<"/sites/s", "file", <<"reports", "photos", "s">> >>,
     <<"/files", "file", <<"reports", "photos", "s">> >>,
     <<"/settings", "attribute", <<"sites", "list">> >>,
     <<"/settings", "orgClosure", <<"operator-overview">> >>,
     <<"/members", "assignment", <<"roles">> >>, <<"/members", "assignment", <<"me">> >>,
     <<"/members", "exception", <<"grant-exceptions">> >>, <<"/members", "exception", <<"me">> >>,
     <<"/roles", "role", <<"me">> >>, <<"/roles", "role", <<"members", "list">> >>,
     <<"/roles", "role", <<"invitations">> >>, <<"/roles", "role", <<"api-keys">> >>,
     <<"/roles", "assignment", <<"me">> >>, <<"/roles", "exception", <<"me">> >>,
     <<"/account", "me", <<"members", "list">> >>, <<"/account", "me", <<"members", "picker">> >>,
     <<"/overlays", "overlay", <<"reports", "overlays">> >>,
     <<"/operator", "operatedOrg", <<"operator-overview">> >>,
     <<"/operator", "deadLetter", <<"operator-overview">> >>}

\* What the table above comes to: a page polls keys that are followed, reads only
\* what is followed, and but for the keys just listed, a key that reads what a
\* mutation writes is among those it invalidates, on failure too if it
\* invalidates any then.
ASSUME TableAssumption ==
    \A w \in Followed :
        /\ \A p \in {"own", "other"} : DOMAIN w.poll[p] \subseteq DOMAIN w.reads
        /\ \A k \in DOMAIN w.reads : w.reads[k] \subseteq w.resources
        /\ \A k \in DOMAIN w.reads : \A r \in w.reads[k] \cap w.mutation.writes :
             \/ <<w.path, r, k>> \in Forgotten
             \/ /\ Matches(k, w.mutation.dirties)
                /\ w.mutation.onError = {} \/ Matches(k, w.mutation.onError)

-----------------------------------------------------------------------------
VARIABLES
    focus,     \* the mutation followed and the queries of the two pages
    here,      \* the page shown: "own" or "other"
    server,    \* the version of each resource the mutation writes
    pending,   \* resources a worker still has to write
    cache,     \* key -> what the cache holds
    fetch,     \* key -> the fetch under way
    mutation,  \* "idle", "sent" or "handled"
    told,      \* the versions the console has undertaken to show
    submits, faults

cacheVars == <<focus, here, server, pending, cache, fetch, mutation, told, submits, faults>>

Resources == focus.resources
Keys == DOMAIN focus.reads
Mounted == DOMAIN focus.poll[here]
Reads(k) == focus.reads[k]
PollOf(k) == focus.poll[here][k]

NoData == [r \in Resources |-> 0]

Idle == [phase |-> "idle", data |-> NoData, active |-> FALSE]
Sent == [Idle EXCEPT !.phase = "sent"]

Empty == [has |-> FALSE, data |-> NoData, active |-> FALSE,
          invalid |-> FALSE, raced |-> FALSE]

\* The queries a mounting page fetches at once: no data, invalidated data, or
\* data older than its staleTime (30 seconds unless the query says otherwise).
OnMount(there, old) ==
    [k \in Keys |->
        IF /\ k \in DOMAIN focus.poll[there]
           /\ ~cache[k].has \/ cache[k].invalid \/ k \in old
        THEN Sent ELSE Idle]

\* Bug variant: invalidating lets a fetch under way finish.
InvalidateKeepsFetch(c, f, prefixes) ==
    /\ cache' = [k \in Keys |-> IF Matches(k, prefixes)
                                THEN [c[k] EXCEPT !.invalid = TRUE] ELSE c[k]]
    /\ fetch' = [k \in Keys |->
                    IF Matches(k, prefixes) /\ k \in Mounted /\ f[k].phase = "idle"
                    THEN Sent ELSE f[k]]

\* invalidateQueries: a matching entry is stale at once; a mounted one is
\* fetched again, dropping a fetch under way, unless that fetch is the first
\* load, which is left to finish.
Invalidate(c, f, prefixes) ==
    /\ cache' = [k \in Keys |->
                    IF Matches(k, prefixes)
                    THEN [c[k] EXCEPT !.invalid = TRUE,
                                      !.raced = @ \/ (~c[k].has /\ f[k].phase # "idle")]
                    ELSE c[k]]
    /\ fetch' = [k \in Keys |->
                    IF /\ Matches(k, prefixes) /\ k \in Mounted
                       /\ c[k].has \/ f[k].phase = "idle"
                    THEN Sent ELSE f[k]]

-----------------------------------------------------------------------------
CacheInit ==
    /\ focus \in Followed
    /\ Keys # {}
    /\ here = "own"
    /\ server = NoData /\ told = NoData /\ pending = {}
    /\ cache = [k \in Keys |-> Empty]
    /\ fetch = OnMount("own", {})
    /\ mutation = "idle" /\ submits = 0 /\ faults = 0

\* The control is disabled while its mutation is pending.
Submit ==
    /\ here = "own" /\ mutation = "idle" /\ submits < MaxWrites
    /\ \A k \in focus.mutation.shown : cache[k].has
    /\ mutation' = "sent" /\ submits' = submits + 1
    /\ UNCHANGED <<focus, here, server, pending, cache, fetch, told, faults>>

Handle ==
    /\ mutation = "sent"
    /\ mutation' = "handled"
    /\ server' = [r \in Resources |-> IF r \in focus.mutation.writes THEN server[r] + 1
                                                                      ELSE server[r]]
    /\ pending' = pending \cup focus.mutation.later
    /\ UNCHANGED <<focus, here, cache, fetch, told, submits, faults>>

\* Bug variant: the cache hears of it only while the page is still shown.
SucceedWhileShown ==
    /\ mutation = "handled"
    /\ mutation' = "idle"
    /\ told' = [r \in Resources |-> IF r \in focus.mutation.writes THEN server[r] ELSE 0]
    /\ Invalidate(cache, fetch, IF here = "own" THEN focus.mutation.dirties ELSE {})
    /\ UNCHANGED <<focus, here, server, pending, submits, faults>>

\* onSuccess of useApiMutation: it runs whichever page is shown by then.
Succeed ==
    /\ mutation = "handled"
    /\ mutation' = "idle"
    /\ told' = [r \in Resources |-> IF r \in focus.mutation.writes THEN server[r] ELSE 0]
    /\ Invalidate(cache, fetch, focus.mutation.dirties)
    /\ UNCHANGED <<focus, here, server, pending, submits, faults>>

\* The request is refused, or its answer is lost after the server acted.
Error ==
    /\ mutation # "idle" /\ faults < MaxFaults
    /\ mutation' = "idle" /\ faults' = faults + 1
    /\ told' = IF focus.mutation.onError = {} THEN told
               ELSE [r \in Resources |-> IF r \in focus.mutation.writes THEN server[r] ELSE 0]
    /\ Invalidate(cache, fetch, focus.mutation.onError)
    /\ UNCHANGED <<focus, here, server, pending, submits>>

\* A worker finishes what the request left to it.
Work(r) ==
    /\ r \in pending
    /\ server' = [server EXCEPT ![r] = @ + 1]
    /\ pending' = pending \ {r}
    /\ UNCHANGED <<focus, here, cache, fetch, mutation, told, submits, faults>>

\* What an answer of the reports shows to be still under way.
UnderWay == {"run", "runRows"}

\* The server reads the rows for a fetch.
Serve(k) ==
    /\ fetch[k].phase = "sent"
    /\ fetch' = [fetch EXCEPT ![k] =
                   [phase |-> "served",
                    data |-> [r \in Resources |-> IF r \in Reads(k) THEN server[r] ELSE 0],
                    active |-> Reads(k) \cap pending \cap UnderWay # {}]]
    /\ UNCHANGED <<focus, here, server, pending, cache, mutation, told, submits, faults>>

\* The run page refreshes the list and the allowance when its run, the only
\* poller there, is first seen to have ended.
RunEnded(k, entry) ==
    /\ k = <<"reports", "r">> /\ ~entry.active
    /\ ~cache[k].has \/ cache[k].active

Answer(k) ==
    /\ fetch[k].phase = "served"
    /\ LET entry == [Empty EXCEPT !.has = TRUE, !.data = fetch[k].data,
                                  !.active = fetch[k].active,
                                  !.raced = cache[k].raced /\ ~cache[k].has]
       IN  Invalidate([cache EXCEPT ![k] = entry], [fetch EXCEPT ![k] = Idle],
                      IF RunEnded(k, entry)
                      THEN {<<"reports", "list">>, <<"reports", "quota">>} ELSE {})
    /\ UNCHANGED <<focus, here, server, pending, mutation, told, submits, faults>>

\* A read that fails is tried once more (retry: 1); the bound on faults keeps
\* a second failure, which would show the error over the data held, away.
RetryFetch(k) ==
    /\ fetch[k].phase = "served" /\ faults < MaxFaults
    /\ fetch' = [fetch EXCEPT ![k] = Sent]
    /\ faults' = faults + 1
    /\ UNCHANGED <<focus, here, server, pending, cache, mutation, told, submits>>

\* refetchInterval.
Poll(k) ==
    /\ k \in Mounted /\ fetch[k].phase = "idle"
    /\ \/ PollOf(k) = "always"
       \/ PollOf(k) = "active" /\ cache[k].has /\ cache[k].active
    /\ fetch' = [fetch EXCEPT ![k] = Sent]
    /\ UNCHANGED <<focus, here, server, pending, cache, mutation, told, submits, faults>>

\* Walking to the other page: the queries of the page left lose their last
\* observer, which aborts what they were fetching; those of the page entered
\* mount.
Go ==
    /\ here' = IF here = "own" THEN "other" ELSE "own"
    /\ \E old \in SUBSET {k \in Keys : cache[k].has} : fetch' = OnMount(here', old)
    /\ UNCHANGED <<focus, server, pending, cache, mutation, told, submits, faults>>

CacheNext ==
    \/ Submit \/ Handle \/ Succeed \/ Error \/ Go
    \/ \E r \in pending : Work(r)
    \/ \E k \in Keys : Serve(k) \/ Answer(k) \/ RetryFetch(k) \/ Poll(k)

\* The keys that show what workers finish.
AwaitedKeys == {<<"windows", "s">>, <<"operator-overview">>, <<"dead-letters">>,
                <<"reports", "list">>, <<"reports", "r">>}

\* The server answers, workers finish, timers fire; nobody has to press a
\* button or walk, and only a bounded number of requests fail.
CacheFairness ==
    /\ WF_cacheVars(Handle) /\ WF_cacheVars(Succeed)
    /\ WF_cacheVars(\E r \in pending : Work(r))
    /\ \A k \in AwaitedKeys : WF_cacheVars(k \in Keys /\ (Poll(k) \/ Serve(k) \/ Answer(k)))

CacheSpec == CacheInit /\ [][CacheNext]_cacheVars /\ CacheFairness

-----------------------------------------------------------------------------
Resting(k) == cache[k].has /\ ~cache[k].raced /\ fetch[k].phase = "idle"

\* A query at rest on the screen shows at least what the console has undertaken
\* to show: the versions of its last mutation to succeed, on the page that
\* sent it, on the page walked to meanwhile, and back. Left out are the keys
\* listed above and a first load that was under way when the mutation
\* succeeded.
ShownIsSaved ==
    \A k \in Mounted : Resting(k) =>
        \A r \in Reads(k) : <<focus.path, r, k>> \in Forgotten
                            \/ cache[k].data[r] >= told[r]

\* What an awaited key has to catch up with: everything it reads, or, of the
\* reports, the work under way.
Owed(k) == IF k[1] = "reports" THEN Reads(k) \cap UnderWay ELSE Reads(k)

\* Work a worker finishes after the answer reaches the screen of whoever stays
\* on the page: the hours preview, the operator's counts and a report's run
\* poll. Reports poll only while the answer shows a run under way, so they may
\* miss one whose submission was never acknowledged, or acknowledged during
\* their first load. The list beside a run is left out: it is refreshed when
\* the run is seen to change state, so a retry that fails again before the run
\* is read leaves it showing the run under way.
CaughtUp(k) ==
    \/ k[1] = "reports" /\ (told = NoData \/ cache[k].raced)
    \/ k = <<"reports", "list">> /\ PollOf(k) = "never"
    \/ pending = {} /\ \A r \in Owed(k) : cache[k].data[r] = server[r]

DeferredIsShown ==
    (\E p \in {"own", "other"} : <>[](here = p))
        => []<>(\A k \in Mounted \cap AwaitedKeys : CaughtUp(k))
=============================================================================
