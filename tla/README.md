# Formal model of Premise

Premise is a multi-tenant site-management service: a C# modular monolith over
one PostgreSQL database, an object store, an authentication provider and a
durable message outbox (Wolverine), and a React console with a component
library of its own. This directory holds TLA+ models of the parts where order,
failure and shared state decide, the TLC configurations that check them on
small instances, and TLAPS proofs of their most important properties.
`PROJECT.json` lists the runs, the source lines every definition stands for,
the hazards and the theorems. Backend paths below are relative to
`src/src/`, console paths to `src/web/`.

## 1. The system

### 1.1 Components

| Component | State | Operations that change it | Talks to |
| --- | --- | --- | --- |
| **Reporting** | jobs, items, artifacts, quota entries; objects | submit, retry, cancel; the leased runner; maintenance sweep; purge | Storage (`PublishGeneratedFile`), Entitlements (limit), offboarding |
| **Storage** | file rows, objects and previews, export admissions, purge fence | create, upload, complete, scan, derive, hold, delete, restore, two sweeps, publish, exports, purge | object store, scanner, Reporting, Tenancy and Audit (exports), offboarding |
| **Tenancy: organizations** | organization row with its xmin version | create, rename, suspend, reactivate, request and cancel closure, closure sweep, offboard | everyone, through `OrganizationUpserted`, the purge fan-out, `OrganizationDeleted` |
| **Tenancy: hierarchy, sites** | nodes, sites with versions, schedules, windows | create, move, update, schedule, occurrence rebuild | Ingest, Entitlements, console |
| **Ingest** | batches, staged rows, connectors | upload, map, commit, connector sync | Tenancy sites, capacity reservations |
| **Identity** | users, memberships, roles, API keys, sessions, `org_directory` | log in, invite, grant, revoke, directory sync, projections | auth provider, Tenancy events |
| **Entitlements, Audit, Webhooks, Checklists, Spatial** | plans and usage; trail; deliveries; single-row verticals | assign, meter; record; deliver with retries; CRUD | everyone |
| **Platform** | advisory locks, capacity reservations, sweep leases, projection versions, tenant session | used by all modules | PostgreSQL |
| **API host** | idempotency records, sessions | idempotency, session context check, suspension middleware | Identity's `org_directory`, console |
| **Console: session and client** | session context and generation per tab, query client, boundary | change session, probe, poll, read, mutate, retry, transition | API host, the other tabs (BroadcastChannel) |
| **Console: pages** | query cache, forms, dialogs, filter bar, map viewport | fetch, mutate, invalidate, poll, edit, submit a report, filter, move the map | client, component library |
| **Component library** | cascader, data grid, filters, code block, date selector | the gestures, timers, answers and effects of each | pages, through props and callbacks |
| **Integrations, public site, deployment** | none of their own | adapters, read-only pages | external services |

Backend modules share no tables. They interact by messages that leave with the
publishing transaction (outbox) and are delivered **at least once, in parallel
and in any order**, by read models fed from those messages (`org_directory`),
and by three shared mechanisms: PostgreSQL advisory locks (`AggregateLock`),
capacity reservations, and periodic sweeps. The console talks to the API host
by requests that may be lost, refused or answered late; its components talk to
their page by props that arrive with the next render and callbacks the page may
refuse.

### 1.2 What is hard

* **Leases and stale workers.** A report runner works for minutes outside any
  transaction under a lease; it may crash or stall and come back when another
  runner owns the job.
* **Objects are not transactional.** Bytes written or deleted before a
  rollback stay written or deleted.
* **Read, decide, save.** Handlers read a row, return early, and save under a
  row version (`xmin`, `Revision`) or not at all under a lock.
* **Lagging copies.** Requests are admitted from a projection of the
  organization row; pages show a query cache; components keep refs, measured
  rectangles and drafts from an earlier render.
* **Purge beside everything.** Offboarding runs next to all the above, module
  by module, without the locks of the rows it removes.
* **Late answers.** Option lists, tree levels, highlight passes, fetches and
  mutations answer after what they were asked for has changed.
* **One cookie, several tabs.** A session changes under a page that is open.

What makes each component correct is stated by the properties of section 3;
`PROJECT.json` lists the hazards at their lines.

## 2. Modules

| Module | What it is |
| --- | --- |
| `Reporting` | report jobs of one organization: endpoints, quota, runner, sweep, purge |
| `ReportLedger` | abstract promise of Reporting: deliver once, charge exactly for what is delivered, stay within the limit |
| `StoredFiles` | files of one organization: tickets, pipeline, trash, exports, purge |
| `OrgLifecycle` | the organization row, the messages about it, Identity's projection, suspension, offboarding |
| `ConsoleSession` | tabs, cookie, API client, session boundary and the server's context check |
| `ConsoleCache` | the console's pages, queries and mutations over the shared query cache |
| `ReportRequest`, `SiteEditor`, `SitesPage` | the report form with the idempotency middleware; the site dialog with the versioned update; the site library's bar, list and map |
| `CascaderTree`, `CascaderLoader`, `Cascader` | the cascader: pure index, request machinery, the panel that composes them |
| `DataGridCells`, `DataGridColumns`, `DataGridRows` | the grid's spreadsheet controller, its widths and columns, its virtual body |
| `FilterQuery`, `FilterTree`, `FilterRow`, `FilterOptions` | the filter tree as pure operators, its edits and drags, the building of one condition, option lists |
| `CodeBlock`, `CodeBlockView` | streaming and highlighting; folds, selection and line actions |
| `DateSelector` | picking, typing and the two effects that exchange values with the page |
| `MC*` | instances for TLC; several explore parts that share no state, one at a time (`part`) |
| `*Proofs` | theorems (section 5) |

Definitions whose comment begins "Bug variant", and the operators listed as
`as` in the `mutants` of `PROJECT.json`, are deliberate mistakes: replacing the
definition they are a variant of must break the property they are paired with.
They take part in no specification.

### 2.1 Reporting

State: `job`, `item`, `entry` (quota) and `art` (artifacts) are the rows;
`bytes` is the object store; `queue` holds `GenerateReport` and `publish`
`PublishGeneratedFile` messages; `run` and `sweep` the local state of the
runner and of the maintenance handler.

* **A run is one call of `RunAsync`**; its name is the lease owner, a fresh
  Guid, so runs are never restarted. Its steps (`Claim`, `Load`, `PickItem`,
  `Start`, `Render`, `Settle`, `SettleCommit`, `StartBundle`, `WriteZip`,
  `ZipReady`, `ZipCommit`, `Finish`, `Release`) are the transactions, reads and
  object calls of the code, in its order; `Crash` and `Abort` end it anywhere.
* `Read` of the runner is a split query: the job comes first (`Load`), items
  and artifacts later (`Pick*`).
* Every transaction of `Change` holds the job's advisory lock and checks
  ownership; only the two that leave the job row untouched (settling an item,
  marking the ZIP ready) are split into check and commit, because only there
  can the purge, which takes no lock, come between. Elsewhere the `Revision`
  concurrency token turns that order into an exception.
* Clock values are reduced to what the guards compare: `leased` (LeaseUntil is
  in the future) and `retention` (unset, kept, expired, forgotten). The age
  test on queued jobs in the sweep is left out: a resume may come earlier.
* `Stall` is a process that outlives its lease. While it writes an object this
  takes a stopped process, since the lease is `ItemTimeoutSeconds + 60`:
  `Pauses` says whether that may happen. With `Pauses` a stalled writer can
  leave bytes that no row names, so `NoOrphanBytes` is claimed only without it.
* `Submit` and `Retry` stay enabled after the purge, since the request pipeline
  learns of the offboarding later.
* Rendering, file names, layout and the read-only endpoints are left out.

### 2.2 StoredFiles

State: `file` (rows), `content` and `previews` (objects), `age`, `lapsed`
(time), `claimed` (used tickets), `scan`, `derive`, `deriving`, `publish`,
`export` (messages and their handlers), `dead` and `discarded` (exports whose
message is a dead letter, or was one), `reserved` (export admissions), `sweep`
(the two sweeps' transactions), `purge`, and `store`, the kind of object store,
which decides what a ticket can still do.

* Each handler that writes or deletes objects has a failing form whose object
  calls stay done (`DeriveFails`, `DeleteFails`, `SweepFails`, `PurgeFails`).
  Handlers that only read objects are one step.
* A sweep selects without locks, takes file after file under its lock with a
  re-check (`SweepTake`), and commits or fails the whole batch.
* The purge holds the organization's lock and no file's: `PurgeObjects`, then
  `PurgeCommit`.
* The trash window may be configured to zero days and lapses independently of
  the ticket's age. The 15-minute wait of generated files is left out. A ticket
  upload is atomic.
* With the local development store an unused ticket can still write after the
  file is erased; `ErasedHasNoBytes` speaks of S3 and Azure.
* An export that fails becomes a dead letter that keeps its admission
  (`ExportFails`: only `CapacityBusyException` is retried); the operator replays
  it (`ReplayLetter`) or discards it (`DiscardLetter`). `ExportsEnd` speaks of
  exports that are neither dead nor discarded.
* Exports without an admission id (sent before admissions existed) and the
  stray archive of a crashed export are left out.

### 2.3 OrgLifecycle

State: `org` (status, closing, number of writes), `tx` (per overlapping writer
the operation and the version it read), `inbox` (messages), `directory`
(`org_directory`), `owner` (the founder's membership and roles), `provider`,
`data` (per module: rows left).

* `ReadRow` takes a handler's snapshot with its early returns; `Save` commits only
  if the row still has the `xmin` that was read (`TenancyDbContext` declares it
  a concurrency token), and its messages leave with the commit; `Conflict` is
  the other case. Every write of the row is one `Save`.
* `Xmin` maps the number of writes to a transaction id that wraps and skips the
  reserved ids; `IsNewer` is the signed 32-bit comparison of `ProjectionVersion`
  with the width as `Modulus`. The assumption on the constants says that the
  versions in flight span less than half the ids, and that there is at least
  one write: creating the organization.
* `DeliverMessage` acknowledges a message, `RedeliverMessage` handles it and
  leaves it.
* `Admits` is the request pipeline of a member: the suspension middleware on
  `org_directory` (an absent entry passes) and the role check.
* Names, slugs, audit records, notices, logins, directory webhooks and the
  platform organization (which none of the operations accepts) are left out.
* The operator's offboarding publishes no `OrganizationUpserted`, so the
  directory keeps saying Suspended; a message handled after the deletion
  recreates the entry, the membership or the rows; a request admitted from a
  lagging directory writes after the purge. `DirectoryAgrees` and
  `SuspensionReachesRequests` therefore end with the deletion.

### 2.4 The console

*ConsoleSession.* A tab is the module state of `packages/api/src/client.ts`,
the `SessionBoundary` with its query client, and the Shell. The browser adds the
cookie it holds when a request leaves; the server is reduced to the context
check. Handling a request and reading its answer are one step: the answer
depends only on what the request carries. A 5xx without a delay may come from
something in front of the API, before or after the work (`client.ts:42`): a write
may have run behind it, so it ends the mutation and is not repeated
(`SettleFailed`). The pause of a retry while the tab is hidden, the wording of
alerts, and of the page that creates an organization everything but its polling
of `/me` (the request that creates it; its switch is `ChangeSession`) are left
out.

*ConsoleCache.* `@tanstack/react-query` is external, modelled from how the
console uses it: abort on last unmount, `retry: 1` (which absorbs the one fault
of a run), refetch on mount when stale, invalidation by key prefix, polling. A
behaviour follows one mutation on its page and one other page. The table says
of each query what its endpoint reads and of each mutation what its handler
writes before the answer and what a worker writes later (`later`): the commit of
an ingest batch, for one, only queues the changes of the sites. `Handle`, `Work`
and `Serve` stand for all endpoints and workers; their map entries name one of
each. Writes of the audit trail, garbage collection by time, the keys of searches
and pick lists, missing capabilities, and the 300-second end of a report's
polling are left out. `Forgotten` lists the pairs of mutation and query the code
does not refresh, and `raced` the first load that is answered before a write and
kept after it: `ShownIsSaved` speaks of the rest. `DeferredIsShown` speaks of the
keys that poll (`AwaitedKeys`): what a worker writes after its only invalidation
(the sites of an ingest batch) reaches other queries when their page is entered
again.

*ReportRequest, SiteEditor, SitesPage.* The form keeps one key per request body;
the middleware records a key before it runs the endpoint. A record expires after
a day (`Expire`; a request under an expired key is answered with a conflict) and
the daily cleanup deletes it, after which the key runs again: `lapses` counts
those, and `OneRunPerRequest` grants each one run more. A record does not expire
while its request is worked on. The dialog keeps the fields it was opened with.
The site library hands text over 250 ms after the last key and chips at once; the
map reports its viewport by a timer; geography is a set of areas. A list that
fails takes bar and map off the page until it recovers, and the bar comes back
empty (`ListFails`, `ListRecovers`).

### 2.5 The component library

One step is one event (a press, a key, a timer, an answer) with the effects
React runs after it, except where the order of effect and event matters: the
grid's `Render`/`Commit` and the date selector's two effects are steps of their
own. Styling, focus rings, announcements and DOM measurements are left out.

*Cascader.* `CascaderTree` holds the pure index and selection, `CascaderLoader`
the request machinery as operators on one record, `Cascader` the panel. Keyboard
movement inside a list, virtualization and column layout are left out.

*Data grid.* Rows are addressed by id, widths are small integers, one pointing
device is in use. `GestureSets` and `RowGestures` say which gestures one
behaviour may mix. The table library and the virtualizer are external. What a
moving row does to an open editor is a choice (`Watched`): the observer that
cancels the edit is replaced by every render of the overlay, so its record of the
move is delivered or dropped. A
body is frozen while cells are dragged over or a column is resized (`Frozen`).
Rows pinned at the top accumulate; they push the others down by their height,
which the virtualizer is not told, so with more of them than the overscan a row
on screen is not mounted: `RowsReached` is claimed up to that many.

*Filters.* A condition is a node of a tree; `FilterTree` edits trees under a
page that may veto, lock or replace them, `FilterRow` builds one row through its
popovers, `FilterOptions` loads option lists. `Reload` is the page loaded again
over a query it kept, under an id factory that starts over; once an id is handed
out twice (`clashed`) edits are not followed further. Touched marks are left out,
keyboard edits during a pointer drag, and a page that changes an operator under
an open editor.

*Code block.* A text is a sequence of words; a stream's texts are prefixes of
its document. Tokens, copying, downloading and wrapping are left out.

*Date selector.* Days, quarters and years over a small calendar. The console
does not use the component today; the page is any page that stores at once what
it is told and may set a value of its own at any time, also before the effects of
an earlier render have run. The effects see the value and the picks of their own
render (`render`). A person acts only between renders, when nothing is under way.

## 3. Runs

All runs set `CHECK_DEADLOCK FALSE`: the bounded systems come to rest when
every job, file, write or gesture of the instance has been used, and nobody has
to press anything.

| Run | Instance | Shows |
| --- | --- | --- |
| `report` | *bulk*: 1 job, 2 PDFs and a ZIP, 2 runs, 1 fault, 1 retry or cancel; *expiry*: 1 PDF and a ZIP, 1 sweep, revisions to 2, 1 purge; pauses allowed | one PDF per success (`OnePdfPerSuccess`), the downloadable bundle is exactly the current PDFs (`DownloadIsCurrent`), a run that lost the job never regains it (`LostStaysLost`), refinement of `ReportLedger` (`ImplementsLedger`) |
| `report_cleanup` | *quota*: 2 jobs, limit 1, queue 1, 2 months; *cleanup*: 1 job, 1 purge, 2 concurrent sweeps or 1 sweep and 1 fault; no pauses | the monthly limit (`QuotaWithinLimit`), no object without a row (`NoOrphanBytes`) |
| `report_live` | 1 job, 3 runs, 1 sweep, 1 fault, 1 retry, 1 purge, fair | `EveryJobSettles`, `LeftoversCollected`, `PurgeCompletes` |
| `files` | *upload*: 1 upload, 3 kinds of store, 2 faults, purge; *budget*: 2 uploads of sizes 1 and 2, byte budget 2; *generated*: 1 report, 1 organization and 1 audit export, purge; *exports*: the two exports, failures, replay and discard; fair | `ErasedHasNoBytes`, `HeldIsKept`, `VerdictIsFinal`, `OutstandingWithinBudget`, `NothingGeneratedAfterPurge`, an admission never outlives its export (`AdmissionHasWork`), and that uploads and admissions drain (`UploadsDrain`, `ExportsEnd`) |
| `tenancy` | *lifecycle*: 2 writers, 3 writes, ids that wrap at the third; *session*: 2 tabs, 2 sessions, 1 write, 1 change of session, 1 fault; fair | `DirectoryAgrees`, `OffboardIsDeliberate`, `SuspensionReachesRequests`; no write runs under another session (`NoStaleIntent`), what the client concludes of a write is true (`TruthfulOutcome`), `TabsConverge` |
| `console_pages` | each mutation of the console on its page and one other page, up to 3 queries (a fault with up to 2); a stream of 2 documents with 2 passes; a surface of up to 3 lines, the first at the margin; a report form with 2 bodies, 2 keys, 1 lost answer and 1 cleanup | `ShownIsSaved`, `DeferredIsShown`, `StreamReads`, `SurfaceAgrees`, `OneRunPerRequest` |
| `cascader` | 7 sets of props, a small tree with a disabled and a lazy branch and a branch of two selectable leaves, 1 fault, 1 reset | `LevelIsPrefix`, `CascadeClosed`, `PanelSettles` |
| `grid` | *cells*: 3 rows (1 pinned), 3 columns (1 opted out, 1 numeric), pages of 1, 1 batch, 1 live update, copied blocks of up to 2 cells; *columns*: 3 columns, 2 container widths, 3 gestures; *rows*: 5 rows in pages of 1 under a viewport of 2, 3 gestures | what a batch writes is on rendered rows and participating columns (`OnlyShownWritten`), `WidthsHold`, `RowsReached` |
| `list_page` | trees of up to 4 nodes with 2 new ids (3 under a menu or a drag), 2 rows, 3 requests of one option list, 2 days, 2 quarters and 3 values of the page, 3 sites in 2 areas, 1 failing list | `EditsKeepTree`, `RowsHold`, `OptionsHold`, `PicksAreKept`, `ListFollowsPage` |
| `site_edit` | 2 fields, 2 people, 3 versions | **finding**: `NeverAClobber` is violated |
| `grid_drag` | the rows of `grid` with a drag over cells | **finding**: `SelectingShowsRows` is violated |
| `filter_ids` | the instance of `list_page` | **finding**: `IdsAreFresh` is violated |

**Why the bounds are enough to be interesting.** `MaxRevision` 1 or 2 allows a
retry, a cancel or a purge after a failure, the events that make an older
bundle or run stale. Two runs are one stale and one current; `report_live` has
three so that a crash, a stall and a retry each find a fresh name. One fault is
a crash, stall, abort or failed object call at any step; two in `files` allow a
rollback of a sweep and of a delete in one history. Two writers are what a lost
update takes. In `tenancy` the first write has position 10 of 13 usable
ids, so the third write wraps to a smaller id, which is what breaks a plain
comparison. In the console one change of session beside one write, one probe and
one poll is what makes a page stale; three requests of an option list are one
shown, one overtaken and one retried; four nodes are a group within a group with
a sibling on each side. Two selectable leaves under one branch of the cascader
tell "all" from "some", so a half-checked branch occurs. Of the pages followed in
`console_pages`, 2 combinations of 103 read more than three queries and are left
out. `report_live` has no bulk job, so the liveness of a bundle is not exercised,
and the count half of the upload budget never binds in `files` (the theorem
covers it). A bound that is reached disables further new work, never
a step that finishes work under way (`MaxWrites` does not stop the closure
sweep).

No symmetry is used: `Claim` picks fresh runs by `CHOOSE`, and most instances
check liveness or have one element per set. Parts of one instance that share no
state are explored one at a time, which loses no behaviour of any of them. The
fairness of a part is guarded by it, or its idle state enables no step that is
assumed fair.

**Fairness.** Weak fairness is assumed of what the process does by itself: the
steps of a live handler, delivery of durable messages, the periodic sweeps
(every minute for reports, daily for files and closures), timers, answers (or
the 30-second deadline that stands for one), React's own commits and effects,
and time that passes. Strong fairness is used for the file sweeps: a duplicate
message can take the file's lock again and again, and PostgreSQL grants
advisory locks in the order they are asked for. Crashes are bounded by
`MaxFaults`, and a crashed run is not fair: its lease lapses. Nothing is assumed
of users, operators, faults or the start of a purge. In `OrgLifecycle` only
`OrganizationUpserted` has to be delivered, each started transaction to end, and
the daily sweep to come round.

## 4. Findings

Each is a disagreement between a comment and the code, shown by a run of its own.

`site_edit`: `apps/console/.../site-detail-page.tsx:46` sends the version of the site cached
when Save is pressed with fields copied when the dialog was opened, so a refetch
in between, and always the one that follows a conflict, makes an out-of-date
form pass the check of `SiteEndpoints.cs:149`, "409, never a clobber".

`grid_drag`: "the virtualizer re-renders itself from inside the memo boundary"
(`data-grid-table-virtual.tsx:647`), but `useVirtualizer` is called in the parent
(line 760): during a drag over cells the body is not rendered again, and rows
scrolled to are blank until the drag ends.

`filter_ids`: ids are the seed of `useId` and a counter that starts over at each
load (`filters-lib.tsx:467`, `filters.tsx:303`), and a query the page kept is not
given new ones: the next node added shares an id with one of the query, against
"Fresh id from the SSR-safe factory" (`filters-context.tsx:141`) and "two live
nodes one id, and every lookup here is by id" (`filters-query.tsx:442`).

Met while modelling, and part of the models but of no run of their own:

*Backend.* `FileTrash.cs:59` deletes objects before the transaction that saves
the rows; after a rollback a file is restorable without bytes
(`Data/FileObject.cs:7` calls it downloadable). `Storage/Offboarding.cs:178`
deletes objects and rows without the files' locks, so an upload in flight leaves
an object. `OperatorEndpoints.cs:124` lets Suspend and Reactivate change an
Offboarding organization whose purges are queued, though
`Tenancy/Organizations/Offboarding.cs:237` calls that "the point of no return".
A preview written by a transaction that rolls back is named by no row if the
file is deleted before the retry. Discarding the dead letter of a failed export
(`DeadLetterEndpoints.cs:87`) leaves its admission (`discarded`), which nothing
but a purge of the organization consumes: it is told for ever that an export is
already queued or running.

*Report request.* Asking for A, losing the answer, asking for B and for A again
makes a second run: the form remembers one key. A refusal stays pinned to its
key until the body changes; a retry of a lost answer after the cleanup of its
record runs again. A busy answer is recorded, so the client's retry is
told of a conflict (`mutation.ts:27` against `IdempotencyMiddleware.cs:149`).

*Console client.* A bare 5xx is reported like a refusal, though the write may have
run (`client.ts:298` against its own comment at 42).

*Query cache.* A role's new name does not reach the lists of members, invitations
and API keys (`role-editor.tsx:21`); the sites an ingest batch changes are
refetched when it is committed, before a worker has applied it (`ingest.tsx:64`).

*Sites page.* "Fit to scope" is lost when the whole-scope list is not cached
(`sites-page.tsx:428`); a pending viewport report undoes the dropped box; a text
handed over by a chip and typed back within 250 ms leaves the list on the other
text (`early`); the success of a bulk change clears picks made meanwhile.

*Cascader.* A later page of a level is taken unchecked; a level stubbed by a
resolved value reads as loaded; the paging latch stays closed after closing in
mid-page; a deep-search hit below a disabled branch can be committed
(`cascader-item.tsx:261` against `cascader-lib.tsx:385`); a held navigation is
orphaned by an invalidation; the prefetch timer survives the close.

*Data grid.* A column whose `maxSize` is below what it needs keeps growing; a
paste counts hidden rows; Ctrl+X clears the region selected when the clipboard
resolves; a failed page is not asked for again at the same count; a pending
reveal is dropped when a drag froze the body; rows pinned at the top beyond the
overscan leave rows on screen unmounted; a thumb drag that is unmounted
leaves the text unselectable. The observer that cancels an open editor
("nothing is written that the user cannot see",
`data-grid-cell-selection.tsx:2423`) is disconnected and made anew by each render
of the overlay, whose `onCancel` is a new function every time (line 2320), and
`disconnect()` drops what was not yet delivered: a commit that moves the rows and
renders the overlay in one go may leave the editor open over another row.

*Filters.* A vetoed add points the focus at an id that never existed
(`filters.tsx:800`); removing a rule drops untouched empty sibling groups; picking the field again keeps
`negated`; Enter between a re-sort and the restored pin ticks the neighbour
(`filters-editors.tsx:686`).

*Code block.* The fold marker toggles its own line, not the region's start
(`code-block.tsx:655`); a failed engine import is kept for good
(`code-block-highlight.tsx:490`); a last chunk that ends the stream is not
followed and unsticks the next one.

*Date selector.* A range of one day cannot be picked; a keyboard press before
the start hands on the wrong day; a preset change keeps a range under a single
operator; a value the page sets while a report is on its way is copied by the
render that reports the older one, and the two may then change places for ever
(`date-selector.tsx:475` and 499). No line promises otherwise, so `PicksAreKept`
excepts it (`crossed`) and keeps what must hold even then.

## 5. Proofs

The theorems hold for every value of the constants allowed by the named
assumptions of the modules: finite sets, disjoint ids and names, documents that
are sequences of non-empty words, day numbers that are positive and, in
`OrgLifecycle`, a width that exceeds the writes in flight. TLC evaluates every
assumption in each run of its module. Two modules carry tables of the code as
data, `FilterRow` the operators per attribute type (`CATALOG`) and
`ConsoleCache` the queries, mutations and pages; what their proofs need of the
tables is stated once as a closed fact that TLC evaluates (`CatalogAssumption`,
`SchemaAssumption`: every inverse is the inverse of its operator with the same
arity, every attribute of the schema offers an operator; `TableAssumption`: a
mutation invalidates every followed query that reads what it writes, but for
those listed in `Forgotten`).

| Module | Theorem | Property | Argument |
| --- | --- | --- | --- |
| `ReportingProofs` | `TypeCorrect` | `TypeOK` | with locals typed by program counter; one lemma per group of steps |
| | `QuotaIsStrict` | `QuotaWithinLimit` | only `Reserve` adds units and it checks the sum (`ReserveWithinLimit`); every other step keeps or removes units of a month (`NoNewUnits`) |
| | `StaleRunsStayStale` | `LostStaysLost` | revisions only grow and owners are only set to fresh names, so neither half of `Owns` can come back (`NoWayBack`) while the run keeps its locals (`HoldingKeepsLocals`) |
| `ReportOutcomeProofs` | `SuccessHasOnePdf` | `OnePdfPerSuccess` | `Outcome` below |
| | `ReportingImplementsLedger` | `ImplementsLedger` | each step, in a state with `Outcome`, is a step of `ReportLedger` or leaves its variables alone |
| | `ChargesMatchOutcomes` | (`ChargeMatchesOutcome`, not a run's property) | `Outcome` below |
| | `DownloadsAreCurrent` | `DownloadIsCurrent` | `Bundles` below |
| | `ObjectsAreNamed` (no pauses) | `NoOrphanBytes` | `Objects` below |
| | `WritersAreAlone` (no pauses) | (`OneWriter`, not a run's property) | `Objects` below |
| `StoredFilesProofs` | `TypeCorrect` | `TypeOK` | |
| | `ErasureIsFinal` | `ErasedHasNoBytes` | `Safe` below |
| | `VerdictsAreFinal` | `VerdictIsFinal` | the relation `Moves` on statuses, which each step keeps |
| | `HoldsAreKept` | `HeldIsKept` | a file in a sweep's transaction is locked, and was not held when taken |
| | `FenceHolds` | `NothingGeneratedAfterPurge` | the fence is written in the purge's transaction and read by every publication |
| | `AdmissionsHaveWork` | `AdmissionHasWork` | the message and its admission leave in one transaction, or the letter keeps it |
| | `UploadsStayWithinBudget` | `OutstandingWithinBudget` | only `Create` adds to what is counted (`Moves`), and one more upload adds its size (`BytesAdd`) |
| `OrgLifecycleProofs` | `TypeCorrect` | `OrgTypeOK` | `XminIsId`: wrapped ids stay in range |
| | `OffboardingIsDeliberate` | `OffboardIsDeliberate` | `Safe` below |
| | `DirectoryCatchesUp` | `DirectoryAgrees` | `DirectoryInv` below |
| `ListPageProofs` | `FilterRowsHold` | `RowsHold` | `RowInv` below |
| | `DateSelectorKeepsPicks` | `PicksAreKept` | `DateInv` below |
| | `ListIsAskedForWhatIsShown` | `ListFollowsPage` | `SitesInv` below |
| `ConsolePagesProofs` | `CacheShowsSaved` | `ShownIsSaved` | `CacheInv` below |
| | `BlockStreamReads` | `StreamReads` | `BlockInv` below |
| | `SurfaceShowsLatest` | (`ActionsOfLatest`, half of `SurfaceAgrees`) | inductive as it stands |
| | `RequestsRunOnce` | `OneRunPerRequest` | `RequestInv` below |
| `DataGridProofs` | `GridOnlyShownWritten` | `OnlyShownWritten` | `FillInv` below |
| `ConsoleSessionProofs` | `TypeCorrect` | (`TypeOK`, not a run's property) | part of `SessionInv` |
| | `IntentIsNeverStale` | `NoStaleIntent` | `SessionInv` below |
| | `OutcomesAreTruthful` | `TruthfulOutcome` | `SessionInv` below |

*Reporting: outcomes.* `Outcome` ties each item to its quota entry and its PDFs
(`UnitOK`, `PdfOK`), says what a run knows at each point of `RunAsync` as long as
it owns its job (`RunOK`, `Knows`), what the states of the row and of the job
rule out (`RowOK`, `JobOK`), and that a job a sweep is about to abandon is still
the one it read (`SweepOK`). The checked property alone is not inductive: a run
that settles an item must be known not to have settled it before. The same
invariant carries the refinement: the ledger's usage and reserve are read off
the quota entries, so each step has to be matched with what it does to them.

*Reporting: objects.* `Bundles` follows a ZIP from the rows its builder read to
the row that offers it: the builder's list is still the job's as long as it owns
the job (`BuilderOK`), and a Ready bundle of a settled job is whole (`BundleOK`).
`Objects` says which keys a run may be writing (`WriterOK`) and that a sweep
deletes a row only after its object (`CollectOK`). `NoOrphanBytes` and `OneWriter`
are proved under the hypothesis that no process is suspended past its lease in
the middle of a write (`~Pauses`, the setting of the run `report_cleanup`): the
code bounds every write by `ItemTimeoutSeconds` and makes the lease 60 seconds
longer, and its ownership checks come before and after the write, not during it.

*ConsoleSession.* `SessionInv` says that a page is shown only under the context
in use (`PageOK`); that a request of `/me` that counts and a running transition
exclude each other, and a session change is under way exactly in the phase that
asks for it (`RequestOK`); that a write under way keeps its tab in the session it
was meant for and has not run, one that succeeded ran once, one that was refused
not at all, and any other at most once (`WriteOK`); and that a write has one request at a time (`SentOnce`). The heart is
`TabHolds`: no step takes a tab with an unfinished mutation out of its context,
because `transition()` waits in `finishMutations`, and a context observed
elsewhere only starts a transition.

*StoredFiles.* The inductive invariant `Safe` adds to the types that a reserved
admission has no archive yet (`ReservedIsFresh`), a Gone row means a purge
(`GoneIsPurged`), a file whose object a sweep deleted is still locked by it
(`ErasingIsLocked`), and the key of a tombstone can no longer be written
(`TombsAreSealed`). `ErasedHasNoBytes` alone is not inductive: a ticket could
refill the key if nothing said that it is spent or too old. The budget counts the
sum of sizes as the number of bytes (`BytesOf`), so that the theorems on finite
sets apply where a fold over the set would need induction; `Budgeted` adds that
the set counted is finite.

*OrgLifecycle.* `OffboardIsDeliberate` is a property of steps and needs to know
what a writer checked when it read. `Safe` says that no writer has read a
version newer than the row (`SeenIsPast`), that nothing happens before creation
(`Born`), and that what an offboarding writer checked holds **as long as its
token is current** (`TokenGuards`). A save makes every other writer's token
stale, because the count of writes grows past everything seen.
`DirectoryAgrees` compares wrapped ids, so it needs `DirectoryInv`: the row has
been written at most as often as the assumption allows (`WithinBound`), and the
directory and every message still undelivered stem from writes of the row, the
newest among them being the present one (`Told`, `ToldUpTo`, `NewsOf`). Within
that window `IsNewer` on ids is the order of the writes (`IdsAreOrdered`, from
`DivMod`, `ModIs`, `ModAdd`, `XminDiffers`), so the directory never steps back
and ends at the newest message.

*SitesPage.* `SitesInv` says besides the types that the list's parameters are
what the bar handed over (`Handed`), that a bar taken off the page by a failed
list holds nothing (`BarGone`), that a map not mounted reports nothing
(`Mounted`), and that the box asked for is the viewport reported last or the one
a timer still holds (`ListFollowsMap`).

*ReportRequest.* `RequestInv`: every key in use was made by the form
(`KeysAreMade`), a request is worked on only under a record, and a record that says
a run was made is right (`UnderRecord`), and requests with one body share one key,
whose runs are one more than the cleanups that forgot it, and no more than those
while its record is missing or still being worked on (`StreakCounts`).

*FilterRow.* `RowsHold` alone is not inductive: a draft, an open editor or a
segment that is about to open can still write to a row. `RowInv` says that every
row, panel and draft says something its attribute offers, in the shape its
operator takes (`RowsSay`, `DraftFits`), that the tab stop and the menu that is
leaving belong to live rows (`FocusLives`), and that nothing else is open over a
row that is being amended (`AmendAlone`), so what a draft commits is about the row
it was opened on. The lemmas on the catalog (`CatalogFacts`) and on
`coerceFilterValue` (`CoerceFits`) carry the value from one operator to the next.

*DateSelector.* The selector copies the page's value in one effect and reports its
own in another. `DateInv` says what the render whose effects are to run saw
(`RenderOK`), that, unless a value of the page crossed a report, the two never
disagree both ways (`OneWay`), that a report that was made is what the page holds (`Kept`), where the value typed
or set last is on its way (`Underway`), that an imposed operator has arrived
(`Imposed`), and that the renders so far and those still to come (`Remaining`) are
three at most, which makes the bound on the renders an invariant.

*ConsoleCache.* `CacheInv` speaks of every key, shown or not: what the console
undertook to show the server holds (`ToldIsHeld`); a fetch is under way only for
what is on the screen, what a key holds is up to date or marked stale, and a stale
key on the screen is being fetched (`KeysHold`). The table of pages enters through
`TableAssumption` alone.

*CodeBlock.* `BlockInv`: every text is a sequence of words and none is empty
(`BlockTypeOK`), a stream has handed over a prefix of its document
(`StreamUnderway`), and a pass that was not let go reads the code of the last render
(`PassIsCurrent`), so what it answers replaces plain lines by the same lines. That a
stream takes nothing back rests on `startsWith` being an order (`BeginsOn`) and on
`CatchUpGrows`: a result that fits the new code and did not fit the old one is
never shorter in a line the old code had.

*DataGridCells.* The rows of a drag are those rendered in the order it began with
(`FillInv`). The targets of a paste and of a fill are sets of rows with their
place counted among the rendered ones, as the code skips rows that are not rendered.

**Only model-checked.** All liveness under fairness, which the prover does not
support: `EveryJobSettles`, `LeftoversCollected`, `PurgeCompletes`, `UploadsDrain`,
`ExportsEnd`, `SuspensionReachesRequests`, `TabsConverge`, `PanelSettles`,
`DeferredIsShown` and the half of `WidthsHold` that says a filling column settles.
What is computed over sequences, trees and sums of any size, which takes induction
over data: the levels and the cascade of `Cascader` (`LevelIsPrefix`,
`CascadeClosed`: recursive walks of the tree and folds over its levels),
the query tree (`EditsKeepTree`), the merged option lists (`OptionsHold`), the folds
of a code block (the half of `SurfaceAgrees` called `FoldsAreBlocks`), the rows of the
virtual body (`RowsReached`) and the shares of the columns (the other half of
`WidthsHold`), which are counted by filtering sequences and adding up widths.

## 6. Plan

In this order; each is one module with its instance and, where named, proofs.

1. `SiteCapacity`: `CapacityReservations` with the site ceiling, ingest commit
   and apply, connector queue. Sites plus reservations never exceed the limit;
   no reservation outlives its batch. Provable by counting, like the quota.
2. `SweepLease`: one process per period, repair of a lost period; composed with
   the sweeps of the existing modules.
3. `WebhookDelivery`: retry chain and admissions; at-least-once delivery.
4. `Metering` and `Subscriptions`: compaction neither loses nor doubles usage;
   out-of-order billing events.
5. `Managers`: last manager, directory synchronisation, first owner.
6. `Hierarchy` (acyclic, paths agree with parents under concurrent moves) and
   `Occurrences` (no doubled windows).
7. Composition of `Reporting`, `StoredFiles` and `OrgLifecycle`: publication of
   a report across the purge of both modules.
8. Proofs: the safety of the modules above, and a version of `CascaderTree`
   without recursive walks, in which the closure of the cascade could be proved.

## 7. Not modelled

Rendering and layout, parsers, geometry, recurrence rules and encryption (pure
functions over strings, floats and bytes, with unit tests); row-level security
and the tenant session (each model is one organization, which is what they
promise to handlers); the append-only audit trail; organization settings,
checklists and overlays (independent single-row writes); read-only endpoints;
adapters to external services beyond what the models say of them; start-up and
deployment; of the web code, the static pages, the stories, the generated API
types and the components that only draw. `PROJECT.json` gives the reason per
component.
