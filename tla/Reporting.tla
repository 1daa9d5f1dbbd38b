----------------------------- MODULE Reporting -----------------------------
(***************************************************************************)
(* Report execution: admission and monthly quota (ReportEndpoints,         *)
(* ReportQuota), the leased runner that renders PDFs and the ZIP bundle    *)
(* (ReportRunner), the maintenance sweep (MaintainReportsHandler) and the  *)
(* organization purge (PurgeOrgReportingHandler), of ONE organization.     *)
(*                                                                         *)
(* PostgreSQL rows are job, item, entry and art; the object store is       *)
(* bytes; the outbox is queue (GenerateReport) and publish                 *)
(* (PublishGeneratedFile).  A run is one call of RunAsync, and its name is *)
(* the lease owner: every call draws a fresh Guid, so a run is never       *)
(* restarted.  A step of a run or of a sweep is one transaction, one read  *)
(* or one object-store call of the code.                                   *)
(*                                                                         *)
(* Clock values are abstracted to what the guards compare: LeaseUntil to   *)
(* job.leased (it lies in the future), ExpiresAt and MetadataExpiresAt to  *)
(* job.retention.                                                          *)
(***************************************************************************)
EXTENDS Naturals, FiniteSets

CONSTANTS
    Jobs,           \* ids a submitted job may get
    Items,          \* ids of the PDF items
    JobOf,          \* the job an item belongs to
    BulkJobs,       \* jobs submitted with ReportMode.Bulk: they also get a ZIP
    Runs,           \* calls of ReportRunner.RunAsync that win a claim
    Sweeps,         \* concurrent MaintainReports handlers
    Bundle,         \* the part a ZIP artifact has instead of an item
    None,           \* a null lease owner, job or part
    Limit,          \* reports.monthly
    MaxQueuedJobs,  \* ReportLimits.MaxQueuedJobsPerOrg
    Pauses,         \* TRUE: a process may stall past its lease while it writes
    MaxMonth, MaxRevision, MaxFaults, MaxPurges    \* bounds of the model

ASSUME ConstantsAssumption ==
    /\ IsFiniteSet(Items)
    /\ IsFiniteSet(Jobs)
    /\ JobOf \in [Items -> Jobs]
    /\ BulkJobs \subseteq Jobs
    /\ Bundle \notin Items
    /\ None \notin Jobs \cup Runs \cup Items \cup {Bundle}
    /\ Pauses \in BOOLEAN
    /\ {Limit, MaxQueuedJobs, MaxMonth, MaxRevision, MaxFaults,
        MaxPurges} \subseteq Nat

VARIABLES job, item, entry, art, bytes, queue, publish, run, sweep,
          month, purges, faults

vars == <<job, item, entry, art, bytes, queue, publish, run, sweep,
          month, purges, faults>>

rows == <<item, entry, art, bytes>>
outbox == <<queue, publish>>
world == <<month, purges, faults>>

-----------------------------------------------------------------------------
(* The rows *)

JobStates == {"Queued", "Running", "Completed", "CompletedWithErrors",
              "Failed", "Canceled", "Expired", "Purging"}
ItemStates == {"Queued", "Running", "Succeeded", "Failed", "Canceled"}
Months == 0 .. MaxMonth

(* ExpiresAt null / in the future / past, then MetadataExpiresAt past: the *)
(* second never lies before the first.                                     *)
Retentions == {"unset", "kept", "expired", "forgotten"}

Job == [state : JobStates \cup {"None", "Gone"}, revision : Nat,
        owner : Runs \cup {None}, leased : BOOLEAN,
        retention : Retentions]

Parts == Items \cup {Bundle}
Keys == Runs \X Parts

(* An artifact row: absent, inserted before its bytes, Ready, and for a    *)
(* PDF FilePublished.  "of" is what a ZIP holds: the keys of its PDFs.     *)
Row == [state : {"none", "pending", "ready", "filed"}, rev : Nat,
        of : SUBSET Keys]
NoRow == [state |-> "none", rev |-> 0, of |-> {}]

Entry == [charge : {"none", "reserved", "consumed"}, month : Months]
NoEntry == [charge |-> "none", month |-> 0]

RunLabels == {"new", "load", "pick", "start", "render", "settle", "settling",
              "bundle", "zip", "zipready", "zipping", "finish", "release",
              "done"}
Run == [pc : RunLabels, job : Jobs \cup {None}, rev : Nat,
        part : Parts \cup {None}, good : SUBSET Items, pdfs : SUBSET Keys,
        ok : BOOLEAN,
        verdict : {"Completed", "CompletedWithErrors", "Failed"}]
NewRun == [pc |-> "new", job |-> None, rev |-> 0, part |-> None,
           good |-> {}, pdfs |-> {}, ok |-> FALSE, verdict |-> "Failed"]

Sweep == [pc : {"idle", "expire", "collect", "delete", "row"},
          job : Jobs \cup {None}, purging : BOOLEAN, forget : BOOLEAN,
          keys : SUBSET Keys, todo : SUBSET Keys]
IdleSweep == [pc |-> "idle", job |-> None, purging |-> FALSE,
              forget |-> FALSE, keys |-> {}, todo |-> {}]

ItemsOf(j) == {i \in Items : JobOf[i] = j}
KeysOf(j) == {k \in Keys : run[k[1]].job = j /\ art[k].state # "none"}
Ready(k) == art[k].state \in {"ready", "filed"}
ReadyPdfs(j) == {k \in KeysOf(j) : k[2] \in Items /\ Ready(k)}
Exists(j) == job[j].state \in JobStates
Live(j) == job[j].state \in {"Queued", "Running"}
Closed == purges > 0
Expired(j) == job[j].retention \in {"expired", "forgotten"}

(* The advisory lock Change takes on the job id.  Only the two             *)
(* transactions that do not touch the job row are split into a checked     *)
(* read and a commit, because only there can the purge, which takes no     *)
(* lock, come between: everywhere else the Revision concurrency token      *)
(* turns that order into an exception.                                     *)
InTx(j) == \E r \in Runs : run[r].job = j /\ run[r].pc \in {"settling", "zipping"}

-----------------------------------------------------------------------------
(* Quota: one entry per PDF item, keyed by the item's id *)

EntriesIn(m) == {i \in Items : entry[i].charge # "none" /\ entry[i].month = m}

(* Bug variant: the units asked for are not added.                         *)
HasRoomForIgnoringRequest(S) == Cardinality(EntriesIn(month)) <= Limit

HasRoomFor(S) ==
    S = {} \/ Cardinality(EntriesIn(month)) + Cardinality(S) <= Limit

(* An entry's primary key is the item id: an insert over one fails.        *)
Reserve(S) ==
    /\ HasRoomFor(S)
    /\ \A i \in S : entry[i].charge = "none"
    /\ entry' = [i \in Items |->
                   IF i \in S THEN [charge |-> "reserved", month |-> month]
                              ELSE entry[i]]

ReleaseQuota(j) ==
    entry' = [i \in Items |->
                IF JobOf[i] = j /\ entry[i].charge = "reserved"
                THEN NoEntry ELSE entry[i]]

(* Bug variant: the unit is charged whatever the outcome.                  *)
SettleAlwaysCharges(i, succeeded) ==
    entry' = IF entry[i].charge # "none"
             THEN [entry EXCEPT ![i].charge = "consumed"] ELSE entry

SettleQuota(i, succeeded) ==
    entry' = CASE succeeded /\ entry[i].charge # "none" ->
                    [entry EXCEPT ![i].charge = "consumed"]
               [] ~succeeded /\ entry[i].charge = "reserved" ->
                    [entry EXCEPT ![i] = NoEntry]
               [] OTHER -> entry

HasQueueRoom == Cardinality({j \in Jobs : Live(j)}) < MaxQueuedJobs

-----------------------------------------------------------------------------
(* The endpoints *)

(* One transaction: job, items, quota entries and the outbox message.      *)
(* After the purge too: the request pipeline learns of the offboarding     *)
(* from a projection that may lag behind it.                               *)
Submit(j) ==
    /\ job[j].state = "None"
    /\ HasQueueRoom
    /\ Reserve(ItemsOf(j))
    /\ job' = [job EXCEPT ![j].state = "Queued"]
    /\ item' = [i \in Items |-> IF JobOf[i] = j THEN "Queued" ELSE item[i]]
    /\ queue' = queue \cup {j}
    /\ UNCHANGED <<art, bytes, publish, run, sweep, world>>

(* ExpiresAt ??= and MetadataExpiresAt ??=: a retry never extends them.    *)
Finished(state, jobRow) ==
    [jobRow EXCEPT !.state = state,
                   !.retention = IF @ = "unset" THEN "kept" ELSE @]

(* The lease is left to the run that holds it.                             *)
Cancel(j) ==
    /\ ~InTx(j)
    /\ Live(j)
    /\ job[j].revision < MaxRevision
    /\ job' = [job EXCEPT ![j] =
                 Finished("Canceled", [job[j] EXCEPT !.revision = @ + 1])]
    /\ ReleaseQuota(j)
    /\ item' = [i \in Items |->
                  IF JobOf[i] = j /\ item[i] \in {"Queued", "Running"}
                  THEN "Canceled" ELSE item[i]]
    /\ UNCHANGED <<art, bytes, outbox, run, sweep, world>>

FailedItems(j) == {i \in ItemsOf(j) : item[i] = "Failed"}

(* Bug variant: a retry keeps the revision.                                *)
RetryKeepsRevision(j) ==
    /\ ~InTx(j)
    /\ job[j].state \in {"Failed", "CompletedWithErrors"}
    /\ ~Expired(j)
    /\ HasQueueRoom
    /\ Reserve(FailedItems(j))
    /\ item' = [i \in Items |->
                  IF i \in FailedItems(j) THEN "Queued" ELSE item[i]]
    /\ job' = [job EXCEPT ![j].state = "Queued",
                          ![j].owner = None, ![j].leased = FALSE]
    /\ queue' = queue \cup {j}
    /\ UNCHANGED <<art, bytes, publish, run, sweep, world>>

(* With no failed item only the bundle is rebuilt, and nothing reserved.   *)
Retry(j) ==
    /\ ~InTx(j)
    /\ job[j].state \in {"Failed", "CompletedWithErrors"}
    /\ ~Expired(j)
    /\ HasQueueRoom
    /\ job[j].revision < MaxRevision
    /\ Reserve(FailedItems(j))
    /\ item' = [i \in Items |->
                  IF i \in FailedItems(j) THEN "Queued" ELSE item[i]]
    /\ job' = [job EXCEPT ![j].state = "Queued", ![j].revision = @ + 1,
                          ![j].owner = None, ![j].leased = FALSE]
    /\ queue' = queue \cup {j}
    /\ UNCHANGED <<art, bytes, publish, run, sweep, world>>

(* What Download hands out: the bundle of the current revision only.       *)
Downloadable(k) ==
    LET j == run[k[1]].job IN
    /\ k[2] = Bundle
    /\ Ready(k)
    /\ Exists(j) /\ job[j].state # "Purging"
    /\ art[k].rev = job[j].revision
    /\ \/ job[j].retention = "kept"
       \/ job[j].retention = "unset" /\ Live(j)
    /\ \E i \in ItemsOf(j) : item[i] = "Succeeded"

-----------------------------------------------------------------------------
(* The runner *)

Goto(r, label) == run' = [run EXCEPT ![r].pc = label]

(* Leave the loop body: its locals die.                                    *)
Leave(r, label) ==
    run' = [run EXCEPT ![r] = [NewRun EXCEPT !.pc = label, !.job = run[r].job]]

(* Bug variant: a live lease is taken for one's own.                       *)
OwnsByLease(r) ==
    LET row == job[run[r].job] IN
    row.state = "Running" /\ row.revision = run[r].rev /\ row.leased

Owns(r) ==
    LET row == job[run[r].job] IN
    /\ row.state = "Running"
    /\ row.revision = run[r].rev
    /\ row.owner = r

Claimable(j) == Live(j) /\ ~job[j].leased /\ ~Expired(j)

(* The new lease owner; which unused name it gets makes no difference.     *)
Fresh == CHOOSE r \in Runs : run[r].pc = "new"

(* A delivery is at least once: the message may come again.                *)
Claim(j) ==
    LET r == Fresh IN
    /\ \E q \in Runs : run[q].pc = "new"
    /\ j \in queue
    /\ ~InTx(j)
    /\ Claimable(j)
    /\ queue' \in {queue, queue \ {j}}
    /\ job' = [job EXCEPT ![j].state = "Running", ![j].owner = r,
                          ![j].leased = TRUE]
    /\ item' = [i \in Items |->
                  IF JobOf[i] = j /\ item[i] = "Running"
                  THEN "Queued" ELSE item[i]]
    /\ run' = [run EXCEPT ![r].pc = "load", ![r].job = j]
    /\ UNCHANGED <<entry, art, bytes, publish, sweep, world>>

(* A delivery that finds nothing to claim is acknowledged.                 *)
IgnoredDelivery(j) ==
    /\ j \in queue
    /\ ~InTx(j)
    /\ ~Claimable(j)
    /\ queue' = queue \ {j}
    /\ UNCHANGED <<job, rows, publish, run, sweep, world>>

(* Read is a split query: the job row comes first, items and artifacts in  *)
(* later statements (Pick), with no transaction around them.               *)
Load(r) ==
    /\ run[r].pc = "load"
    /\ IF job[run[r].job].state = "Running" /\ job[run[r].job].owner = r
       THEN run' = [run EXCEPT ![r].pc = "pick",
                               ![r].rev = job[run[r].job].revision]
       ELSE Leave(r, "release")
    /\ UNCHANGED <<job, rows, outbox, sweep, world>>

Succeeded(j) == {i \in ItemsOf(j) : item[i] = "Succeeded"}

Verdict(j) ==
    CASE Succeeded(j) = {}         -> "Failed"
      [] Succeeded(j) = ItemsOf(j) -> "Completed"
      [] OTHER                     -> "CompletedWithErrors"

(* A bundle of this revision that a crashed run left Ready is kept.        *)
NeedsBundle(r) ==
    LET j == run[r].job IN
    /\ j \in BulkJobs
    /\ Succeeded(j) # {}
    /\ ~ \E k \in KeysOf(j) :
            k[2] = Bundle /\ Ready(k) /\ art[k].rev = run[r].rev

PickItem(r) ==
    /\ run[r].pc = "pick"
    /\ \E i \in ItemsOf(run[r].job) :
          /\ item[i] = "Queued"
          /\ run' = [run EXCEPT ![r].pc = "start", ![r].part = i]
    /\ UNCHANGED <<job, rows, outbox, sweep, world>>

PickNone(r) ==
    LET j == run[r].job IN
    /\ run[r].pc = "pick"
    /\ \A i \in ItemsOf(j) : item[i] # "Queued"
    /\ run' = [run EXCEPT
                 ![r].pc = IF NeedsBundle(r) THEN "bundle" ELSE "finish",
                 ![r].part = Bundle,
                 ![r].good = Succeeded(j),
                 ![r].pdfs = {k \in ReadyPdfs(j) : k[2] \in Succeeded(j)},
                 ![r].verdict = Verdict(j)]
    /\ UNCHANGED <<job, rows, outbox, sweep, world>>

Key(r) == <<r, run[r].part>>

(* An object of the run is being produced and written.                     *)
Writing(r) == run[r].pc \in {"render", "zip"}

(* A write that is cut short may have taken effect.                        *)
CutShort(r) ==
    bytes' \in IF Writing(r) THEN {bytes, bytes \cup {Key(r)}} ELSE {bytes}

(* The intended object key is a row before a byte is written, and the      *)
(* lease is renewed for the whole write.                                   *)
Intend(r, of) ==
    /\ art' = [art EXCEPT ![Key(r)] =
                 [state |-> "pending", rev |-> run[r].rev, of |-> of]]
    /\ job' = [job EXCEPT ![run[r].job].leased = TRUE]

Start(r) ==
    /\ run[r].pc = "start"
    /\ ~InTx(run[r].job)
    /\ Owns(r)
    /\ item' = [item EXCEPT ![run[r].part] = "Running"]
    /\ Intend(r, {})
    /\ Goto(r, "render")
    /\ UNCHANGED <<entry, bytes, outbox, sweep, world>>

(* Render and store.  Lost access, an unavailable definition, a timeout    *)
(* and a failed render or write all end as an error; a write may have      *)
(* taken effect all the same.                                              *)
Render(r) ==
    /\ run[r].pc = "render"
    /\ \/ /\ bytes' = bytes \cup {Key(r)}
          /\ run' = [run EXCEPT ![r].pc = "settle", ![r].ok = TRUE]
       \/ /\ CutShort(r)
          /\ run' = [run EXCEPT ![r].pc = "settle", ![r].ok = FALSE]
    /\ UNCHANGED <<job, item, entry, art, outbox, sweep, world>>

(* Bug variant: the settling transaction does not check ownership.         *)
SettleUnchecked(r) ==
    /\ run[r].pc = "settle"
    /\ ~InTx(run[r].job)
    /\ Goto(r, "settling")
    /\ UNCHANGED <<job, rows, outbox, sweep, world>>

(* The check of the settling transaction, under the advisory lock.         *)
Settle(r) ==
    /\ run[r].pc = "settle"
    /\ ~InTx(run[r].job)
    /\ Owns(r)
    /\ Goto(r, "settling")
    /\ UNCHANGED <<job, rows, outbox, sweep, world>>

(* Its writes: item, quota entry, artifact and outbox message commit       *)
(* together.                                                               *)
SettleCommit(r) ==
    /\ run[r].pc = "settling"
    /\ SettleQuota(run[r].part, run[r].ok)
    /\ item' = [item EXCEPT ![run[r].part] =
                  IF run[r].ok THEN "Succeeded" ELSE "Failed"]
    /\ IF run[r].ok
       THEN /\ art' = [art EXCEPT ![Key(r)].state = "ready"]
            /\ publish' = publish \cup {Key(r)}
       ELSE UNCHANGED <<art, publish>>
    /\ Leave(r, "load")
    /\ UNCHANGED <<job, bytes, queue, sweep, world>>

StartBundle(r) ==
    /\ run[r].pc = "bundle"
    /\ ~InTx(run[r].job)
    /\ Owns(r)
    /\ Intend(r, run[r].pdfs)
    /\ Goto(r, "zip")
    /\ UNCHANGED <<item, entry, bytes, outbox, sweep, world>>

(* Each succeeded item must have one Ready PDF in the snapshot (Single     *)
(* throws otherwise), whose object can be read.                            *)
ZipReadable(r) ==
    /\ run[r].pdfs \subseteq bytes
    /\ \A i \in run[r].good : Cardinality({k \in run[r].pdfs : k[2] = i}) = 1

WriteZip(r) ==
    /\ run[r].pc = "zip"
    /\ ZipReadable(r)
    /\ bytes' = bytes \cup {Key(r)}
    /\ Goto(r, "zipready")
    /\ UNCHANGED <<job, item, entry, art, outbox, sweep, world>>

(* Any exception on the way becomes the verdict Failed/bundle_failed.      *)
BundleFails(r) ==
    /\ run[r].pc \in {"zip", "zipready", "zipping"}
    /\ run' = [run EXCEPT ![r].pc = "finish", ![r].verdict = "Failed"]
    /\ CutShort(r)
    /\ UNCHANGED <<job, item, entry, art, outbox, sweep, world>>

(* The result of this Change is not looked at: a run that lost the job     *)
(* goes on to the finishing transaction.                                   *)
ZipReady(r) ==
    /\ run[r].pc = "zipready"
    /\ ~InTx(run[r].job)
    /\ Goto(r, IF Owns(r) THEN "zipping" ELSE "finish")
    /\ UNCHANGED <<job, rows, outbox, sweep, world>>

(* The commit may succeed and still be reported as an exception.           *)
ZipCommit(r) ==
    /\ run[r].pc = "zipping"
    /\ art' = [art EXCEPT ![Key(r)].state = "ready"]
    /\ \E v \in {run[r].verdict, "Failed"} :
          run' = [run EXCEPT ![r].pc = "finish", ![r].verdict = v]
    /\ UNCHANGED <<job, item, entry, bytes, outbox, sweep, world>>

Finish(r) ==
    /\ run[r].pc = "finish"
    /\ ~InTx(run[r].job)
    /\ Owns(r)
    /\ job' = [job EXCEPT ![run[r].job] =
                 Finished(run[r].verdict, job[run[r].job])]
    /\ Leave(r, "release")
    /\ UNCHANGED <<rows, outbox, sweep, world>>

(* Every Change but the ZIP's ends the run when Owns fails.                *)
LostOwnership(r) ==
    /\ run[r].pc \in {"start", "settle", "bundle", "finish"}
    /\ ~InTx(run[r].job)
    /\ ~Owns(r)
    /\ Leave(r, "release")
    /\ UNCHANGED <<job, rows, outbox, sweep, world>>

(* The finally block.                                                      *)
Release(r) ==
    /\ run[r].pc = "release"
    /\ ~InTx(run[r].job)
    /\ job' = IF job[run[r].job].owner = r
              THEN [job EXCEPT ![run[r].job].owner = None,
                               ![run[r].job].leased = FALSE]
              ELSE job
    /\ Leave(r, "done")
    /\ UNCHANGED <<rows, outbox, sweep, world>>

Active(r) == run[r].pc \notin {"new", "done"}

Fault == faults < MaxFaults /\ faults' = faults + 1

(* The process dies: no finally block, the lease must lapse.  An open      *)
(* transaction is rolled back.                                             *)
Crash(r) ==
    /\ Active(r)
    /\ Fault
    /\ Leave(r, "done")
    /\ CutShort(r)
    /\ UNCHANGED <<job, item, entry, art, outbox, sweep, month, purges>>

(* Shutdown or an exception outside the caught block: finally runs.        *)
Abort(r) ==
    /\ Active(r)
    /\ run[r].pc # "release"
    /\ Fault
    /\ Leave(r, "release")
    /\ CutShort(r)
    /\ UNCHANGED <<job, item, entry, art, outbox, sweep, month, purges>>

-----------------------------------------------------------------------------
(* Storage's answer to PublishGeneratedFile (GeneratedFilePublished).  The *)
(* Storage handler is silent once the organization's files are purged.     *)

FilePublished(k) ==
    /\ k \in publish
    /\ publish' = publish \ {k}
    /\ \/ art' = [art EXCEPT ![k].state = IF Ready(k) THEN "filed" ELSE @]
       \/ Closed /\ UNCHANGED art
    /\ UNCHANGED <<job, item, entry, bytes, queue, run, sweep, world>>

-----------------------------------------------------------------------------
(* The sweep, one job at a time *)

Disposable(k) == art[k].state = "pending" \/ k[2] = Bundle

(* Bug variant: an expired job with leftovers is not selected.             *)
SelectedWithoutExpired(j) ==
    /\ Exists(j)
    /\ \/ job[j].state \in {"Queued", "Running", "Purging"}
       \/ \E k \in ReadyPdfs(j) : art[k].state = "ready"

Selected(j) ==
    /\ Exists(j)
    /\ \/ job[j].state \in {"Queued", "Running", "Purging"}
       \/ \E k \in ReadyPdfs(j) : art[k].state = "ready"
       \/ Expired(j) /\ \E k \in KeysOf(j) : Disposable(k)
       \/ job[j].retention = "forgotten" /\ ReadyPdfs(j) = {}

Unfiled(j) == {k \in ReadyPdfs(j) : art[k].state = "ready"}

Republished(j) ==
    IF job[j].state = "Purging" THEN publish ELSE publish \cup Unfiled(j)

(* Bug variant: only Queued jobs are delivered again.                      *)
SweepResumeQueuedOnly(j) ==
    /\ Selected(j)
    /\ ~job[j].leased
    /\ job[j].state = "Queued"
    /\ ~Expired(j)
    /\ publish' = Republished(j)
    /\ queue' = queue \cup {j}
    /\ UNCHANGED <<job, rows, run, sweep, world>>

(* A Running job with no live lease lost its worker; a Queued one is       *)
(* delivered again once it is older than a sweep interval (a sweep that    *)
(* comes earlier passes it by, which is a stuttering step here).           *)
SweepResume(j) ==
    /\ Selected(j)
    /\ ~job[j].leased
    /\ job[j].state # "Purging"
    /\ ~Expired(j)
    /\ publish' = Republished(j)
    /\ queue' = IF Live(j) THEN queue \cup {j} ELSE queue
    /\ UNCHANGED <<job, rows, run, sweep, world>>

(* Everything else goes through expiry.  The handler keeps the snapshot's  *)
(* state and retention and decides by them later on.                       *)
SweepRead(s, j) ==
    /\ sweep[s].pc = "idle"
    /\ Selected(j)
    /\ ~job[j].leased
    /\ job[j].state = "Purging" \/ Expired(j)
    /\ publish' = Republished(j)
    /\ sweep' = [sweep EXCEPT
                   ![s].pc = "expire", ![s].job = j,
                   ![s].purging = (job[j].state = "Purging"),
                   ![s].forget = (job[j].retention = "forgotten")]
    /\ UNCHANGED <<job, rows, queue, run, world>>

(* Sweeps may find the same expired job any number of times.  At the bound *)
(* the model stops counting: nothing owns, retries or downloads an expired *)
(* job, so nothing compares its revision any more.                         *)
SweepExpire(s) ==
    LET j == sweep[s].job IN
    /\ sweep[s].pc = "expire"
    /\ ~InTx(j)
    /\ Exists(j) /\ ~job[j].leased
    /\ ReleaseQuota(j)
    /\ job' = [job EXCEPT
                 ![j].state = IF Live(j) THEN "Expired" ELSE @,
                 ![j].revision = IF @ < MaxRevision THEN @ + 1 ELSE @,
                 ![j].owner = None,
                 ![j].leased = FALSE]
    /\ sweep' = [sweep EXCEPT ![s].pc = "collect"]
    /\ UNCHANGED <<item, art, bytes, outbox, run, world>>

(* Deleted meanwhile, or leased again: continue with the next job.         *)
SweepSkip(s) ==
    LET j == sweep[s].job IN
    /\ sweep[s].pc = "expire"
    /\ ~InTx(j)
    /\ ~Exists(j) \/ job[j].leased
    /\ sweep' = [sweep EXCEPT ![s] = IdleSweep]
    /\ UNCHANGED <<job, rows, outbox, run, world>>

(* Bug variant: a purge leaves the published PDFs.                         *)
SweepCollectUnpublished(s) ==
    LET keys == {k \in KeysOf(sweep[s].job) : Disposable(k)} IN
    /\ sweep[s].pc = "collect"
    /\ sweep' = [sweep EXCEPT ![s].pc = "delete", ![s].keys = keys,
                              ![s].todo = keys]
    /\ UNCHANGED <<job, rows, outbox, run, world>>

SweepCollect(s) ==
    LET keys == {k \in KeysOf(sweep[s].job) : sweep[s].purging \/ Disposable(k)}
    IN
    /\ sweep[s].pc = "collect"
    /\ sweep' = [sweep EXCEPT ![s].pc = "delete", ![s].keys = keys,
                              ![s].todo = keys]
    /\ UNCHANGED <<job, rows, outbox, run, world>>

SweepDelete(s) ==
    /\ sweep[s].pc = "delete"
    /\ \E k \in sweep[s].todo :
          /\ bytes' = bytes \ {k}
          /\ sweep' = [sweep EXCEPT ![s].todo = @ \ {k}]
    /\ UNCHANGED <<job, item, entry, art, outbox, run, world>>

SweepRows(s) ==
    /\ sweep[s].pc = "delete"
    /\ sweep[s].todo = {}
    /\ art' = [k \in Keys |-> IF k \in sweep[s].keys THEN NoRow ELSE art[k]]
    /\ sweep' = [sweep EXCEPT ![s].pc = "row"]
    /\ UNCHANGED <<job, item, entry, bytes, outbox, run, world>>

(* Deleting the job cascades to its items and artifacts, never to quota.   *)
SweepForget(s) ==
    LET j == sweep[s].job IN
    /\ sweep[s].pc = "row"
    /\ IF sweep[s].forget /\ Exists(j) /\ ReadyPdfs(j) = {}
       THEN /\ job' = [job EXCEPT ![j].state = "Gone", ![j].owner = None,
                                  ![j].leased = FALSE]
            /\ item' = [i \in Items |->
                          IF JobOf[i] = j THEN "None" ELSE item[i]]
            /\ art' = [k \in Keys |-> IF k \in KeysOf(j) THEN NoRow ELSE art[k]]
       ELSE UNCHANGED <<job, item, art>>
    /\ sweep' = [sweep EXCEPT ![s] = IdleSweep]
    /\ UNCHANGED <<entry, bytes, outbox, run, world>>

(* An unreachable object or a poisoned row: the job is skipped this time.  *)
SweepFails(s) ==
    /\ sweep[s].pc # "idle"
    /\ Fault
    /\ sweep' = [sweep EXCEPT ![s] = IdleSweep]
    /\ UNCHANGED <<job, rows, outbox, run, month, purges>>

-----------------------------------------------------------------------------
(* Organization purge.  It takes no job lock and leaves the leases, so a   *)
(* run under way drains first; the order may be delivered again.           *)

(* Bug variant: the purge takes the leases away.                           *)
PurgeDropsLeases ==
    /\ \A j \in Jobs : Exists(j) => job[j].revision < MaxRevision
    /\ purges < MaxPurges
    /\ purges' = purges + 1
    /\ job' = [j \in Jobs |->
                 IF Exists(j)
                 THEN [job[j] EXCEPT !.state = "Purging", !.revision = @ + 1,
                                     !.retention = "forgotten", !.owner = None,
                                     !.leased = FALSE]
                 ELSE job[j]]
    /\ entry' = [i \in Items |-> NoEntry]
    /\ UNCHANGED <<item, art, bytes, outbox, run, sweep, month, faults>>

PurgeOrg ==
    /\ \A j \in Jobs : Exists(j) => job[j].revision < MaxRevision
    /\ purges < MaxPurges
    /\ purges' = purges + 1
    /\ job' = [j \in Jobs |->
                 IF Exists(j)
                 THEN [job[j] EXCEPT !.state = "Purging", !.revision = @ + 1,
                                     !.retention = "forgotten"]
                 ELSE job[j]]
    /\ entry' = [i \in Items |-> NoEntry]
    /\ UNCHANGED <<item, art, bytes, outbox, run, sweep, month, faults>>

-----------------------------------------------------------------------------
(* Time *)

HeldByActiveRun(j) == \E r \in Runs : job[j].owner = r /\ Active(r)

(* The lease of a run that is gone.                                        *)
LeaseLapses(j) ==
    /\ job[j].leased
    /\ ~HeldByActiveRun(j)
    /\ job' = [job EXCEPT ![j].leased = FALSE]
    /\ UNCHANGED <<rows, outbox, run, sweep, world>>

(* A run outlives its lease.  ItemTimeoutSeconds bounds a render and its   *)
(* write, and the lease is renewed for 60 seconds more: there only a       *)
(* process that is itself stopped for that long (Pauses) outlives it.      *)
Stall(j) ==
    /\ job[j].leased
    /\ HeldByActiveRun(j)
    /\ Pauses \/ ~ \E r \in Runs : job[j].owner = r /\ Writing(r)
    /\ Fault
    /\ job' = [job EXCEPT ![j].leased = FALSE]
    /\ UNCHANGED <<rows, outbox, run, sweep, month, purges>>

RetentionPasses(j) ==
    /\ Exists(j)
    /\ job[j].retention \in {"kept", "expired"}
    /\ job' = [job EXCEPT ![j].retention =
                 IF @ = "kept" THEN "expired" ELSE "forgotten"]
    /\ UNCHANGED <<rows, outbox, run, sweep, world>>

NextMonth ==
    /\ month < MaxMonth
    /\ month' = month + 1
    /\ UNCHANGED <<job, rows, outbox, run, sweep, purges, faults>>

-----------------------------------------------------------------------------
Init ==
    /\ job = [j \in Jobs |->
                [state |-> "None", revision |-> 0, owner |-> None,
                 leased |-> FALSE, retention |-> "unset"]]
    /\ item = [i \in Items |-> "None"]
    /\ entry = [i \in Items |-> NoEntry]
    /\ art = [k \in Keys |-> NoRow]
    /\ bytes = {}
    /\ queue = {}
    /\ publish = {}
    /\ run = [r \in Runs |-> NewRun]
    /\ sweep = [s \in Sweeps |-> IdleSweep]
    /\ month = 0
    /\ purges = 0
    /\ faults = 0

RunStep(r) ==
    \/ Load(r) \/ PickItem(r) \/ PickNone(r) \/ Start(r) \/ Render(r)
    \/ Settle(r) \/ SettleCommit(r) \/ StartBundle(r) \/ WriteZip(r)
    \/ BundleFails(r) \/ ZipReady(r) \/ ZipCommit(r) \/ Finish(r)
    \/ LostOwnership(r) \/ Release(r)

SweepStep(s) ==
    \/ SweepExpire(s) \/ SweepSkip(s) \/ SweepCollect(s) \/ SweepDelete(s)
    \/ SweepRows(s) \/ SweepForget(s)

Next ==
    \/ \E j \in Jobs :
          \/ Submit(j) \/ Cancel(j) \/ Retry(j)
          \/ Claim(j) \/ IgnoredDelivery(j) \/ SweepResume(j)
          \/ LeaseLapses(j) \/ Stall(j) \/ RetentionPasses(j)
    \/ \E r \in Runs :
          RunStep(r) \/ Crash(r) \/ Abort(r)
    \/ \E k \in Keys : FilePublished(k)
    \/ \E s \in Sweeps :
          \/ SweepStep(s) \/ SweepFails(s)
          \/ \E j \in Jobs : SweepRead(s, j)
    \/ PurgeOrg
    \/ NextMonth

Spec == Init /\ [][Next]_vars

-----------------------------------------------------------------------------
TypeOK ==
    /\ job \in [Jobs -> Job]
    /\ item \in [Items -> ItemStates \cup {"None"}]
    /\ entry \in [Items -> Entry]
    /\ art \in [Keys -> Row]
    /\ bytes \subseteq Keys
    /\ queue \subseteq Jobs
    /\ publish \subseteq Keys
    /\ run \in [Runs -> Run]
    /\ sweep \in [Sweeps -> Sweep]
    /\ month \in Months
    /\ purges \in 0 .. MaxPurges
    /\ faults \in 0 .. MaxFaults

(* "reports.monthly is a strict Limit": reserved and consumed units of a   *)
(* month together never exceed it, whatever retries, releases and month    *)
(* rollovers do.                                                           *)
QuotaWithinLimit == \A m \in Months : Cardinality(EntriesIn(m)) <= Limit

(* An item and its quota entry agree: a succeeded PDF is charged, a failed *)
(* or canceled one holds no unit, and a unit is held in reserve exactly    *)
(* while the item's job can still produce it.                              *)
ChargeMatchesOutcome ==
    \A i \in Items :
        LET j == JobOf[i] IN
        /\ entry[i].charge = "reserved" => Live(j)
        /\ Exists(j) /\ job[j].state # "Purging" =>
              /\ item[i] = "Succeeded" <=> entry[i].charge = "consumed"
              /\ Live(j) /\ item[i] \in {"Queued", "Running"}
                    => entry[i].charge = "reserved"

(* Duplicate deliveries, stale runs and retries leave exactly one Ready    *)
(* PDF for a succeeded item and none for any other: what Complete relies   *)
(* on when it bundles with Single.                                         *)
OnePdfPerSuccess ==
    \A i \in Items :
        LET j == JobOf[i] IN
        Exists(j) /\ job[j].state # "Purging" =>
            Cardinality({k \in ReadyPdfs(j) : k[2] = i})
                = IF item[i] = "Succeeded" THEN 1 ELSE 0

(* The bundle Download hands out exists in the object store and holds      *)
(* exactly the PDFs of the items that have succeeded by now: a retry hides *)
(* the old one, a stale run cannot publish one.                            *)
DownloadIsCurrent ==
    \A k \in Keys : Downloadable(k) =>
        k \in bytes /\ art[k].of = ReadyPdfs(run[k[1]].job)

(* No object without an artifact row that names it, so the sweep can find  *)
(* it: keys are persisted first and deleted last.                          *)
NoOrphanBytes == \A k \in bytes : art[k].state # "none"

(* Two runs never write objects for the same job at the same time.         *)
OneWriter ==
    \A q, r \in Runs :
        Writing(q) /\ Writing(r) /\ run[q].job = run[r].job => q = r

(* Once a run has lost its job it never owns it again, so the unchecked    *)
(* result of the ZIP's Change is harmless.                                 *)
Holding(r) == run[r].pc \in {"start", "render", "settle", "bundle", "zip",
                             "zipready", "finish"}
LostStaysLost ==
    [][\A r \in Runs : Holding(r) /\ ~Owns(r) /\ Holding(r)' => ~Owns(r)']_vars

(* Reporting keeps the promise of ReportLedger, with a PDF delivered when  *)
(* it has a Ready artifact.                                                *)
Delivered == {i \in Items : \E k \in Keys : k[2] = i /\ Ready(k)}

Ledger == INSTANCE ReportLedger WITH delivered <- Delivered, closed <- Closed

ImplementsLedger == Ledger!LSpec

-----------------------------------------------------------------------------
(* Liveness.  Messages are delivered at least once and handlers run; the   *)
(* maintenance tick comes every minute and takes every job it selects;     *)
(* time passes.  Nothing is assumed of users, of faults or of the purge.   *)
Fairness ==
    /\ \A r \in Runs : WF_vars(RunStep(r))
    /\ \A j \in Jobs :
          /\ WF_vars(Claim(j))
          /\ WF_vars(SweepResume(j))
          /\ WF_vars(\E s \in Sweeps : SweepRead(s, j))
          /\ WF_vars(LeaseLapses(j))
    /\ \A s \in Sweeps : WF_vars(SweepStep(s))
    /\ WF_vars(\E k \in Keys : FilePublished(k))

FairSpec == Spec /\ Fairness

(* An accepted job does not stay Queued or Running for ever: crashed runs, *)
(* lapsed leases, lost ownership and expiry under it all lead to an end.   *)
EveryJobSettles == \A j \in Jobs : Live(j) ~> ~Live(j)

(* A purge that found a job, even one with a run in the middle of a write, *)
(* removes its row, its artifact rows and its objects.                     *)
Erased(j) ==
    /\ job[j].state = "Gone"
    /\ \A k \in Keys : run[k[1]].job = j => k \notin bytes
PurgeCompletes == \A j \in Jobs : job[j].state = "Purging" ~> Erased(j)

(* Once its retention has passed, what a job's unpublished attempts and    *)
(* bundles left in the object store is collected for good, also when a run *)
(* is still writing at that moment.                                        *)
Leftovers(j) == {k \in bytes : run[k[1]].job = j /\ Disposable(k)}
LeftoversCollected == \A j \in Jobs : Expired(j) ~> [](Leftovers(j) = {})
=============================================================================
