---------------------------- MODULE StoredFiles ----------------------------
(***************************************************************************)
(* The Storage module, for ONE organization: upload tickets and admission  *)
(* (FileEndpoints, BoundedUploadEndpoint), the scan and derivative         *)
(* pipeline, trash, legal hold and erasure, the two cleanup sweeps, the    *)
(* publication of generated reports, the data exports and the purge.       *)
(*                                                                         *)
(* file holds the rows, content and previews the object store under a      *)
(* file's key and its preview key.  An object call cannot be rolled back,  *)
(* so what a transaction did to the store before it failed stays done:     *)
(* each handler that deletes or writes objects has a second, failing form. *)
(* Handlers that only read objects are one step: they hold the file's      *)
(* advisory lock, and the purge, which does not take it, makes their       *)
(* commit fail by deleting the row.                                        *)
(*                                                                         *)
(* CreatedAt is abstracted to age, DeletedAt to lapsed (trash retention    *)
(* may be configured down to 0 days, so it lapses independently of age).   *)
(***************************************************************************)
EXTENDS Naturals, FiniteSets

CONSTANTS
    Uploads,        \* ids of files created with an upload ticket
    Reports,        \* ids of files Reporting publishes
    Exports,        \* export admissions; each names the archive it produces
    AuditExports,   \* those of the audit trail, the others are of org data
    Size,           \* declared bytes of an upload
    Stores,         \* object stores a deployment may run with
    MaxFiles, MaxBytes,     \* outstanding upload budget of an organization
    Closes,                 \* TRUE: the organization may be offboarded
    MaxFaults               \* bound of the model

ASSUME StoredFilesAssumption ==
    /\ IsFiniteSet(Uploads)
    /\ Uploads \cap Reports = {} /\ Uploads \cap Exports = {}
    /\ Reports \cap Exports = {}
    /\ AuditExports \subseteq Exports
    /\ Size \in [Uploads -> Nat \ {0}]
    /\ Stores \subseteq {"s3", "azure", "local"}
    /\ Closes \in BOOLEAN
    /\ {MaxFiles, MaxBytes, MaxFaults} \subseteq Nat

VARIABLES store, file, content, previews, age, lapsed, claimed, scan, derive,
          deriving, publish, export, reserved, dead, discarded, sweep,
          purge, faults

vars == <<store, file, content, previews, age, lapsed, claimed, scan, derive,
          deriving, publish, export, reserved, dead, discarded, sweep,
          purge, faults>>

objects == <<content, previews>>
clock == <<age, lapsed>>
tickets == <<store, claimed>>
pipeline == <<scan, derive, deriving>>
letters == <<dead, discarded>>
generated == <<publish, export, reserved, letters>>

-----------------------------------------------------------------------------
Files == Uploads \cup Reports \cup Exports

Outstanding == {"PendingUpload", "Uploaded", "Quarantined"}
Statuses == Outstanding \cup {"Clean", "Erased", "Deleted"}

FileRow == [status : Statuses \cup {"None", "Gone"}, hold : BOOLEAN,
            preview : BOOLEAN]
NoFile == [status |-> "None", hold |-> FALSE, preview |-> FALSE]
GoneFile == [NoFile EXCEPT !.status = "Gone"]

(* What an object holds: something the scanner passes, something it does   *)
(* not, or more bytes than declared.                                       *)
Contents == {"none", "good", "bad", "big"}

(* An upload is younger than the 15 minutes of its ticket, than the hour   *)
(* of the upload sweep, or older.  Generated files never had a ticket.     *)
Ages == {"ticket", "aged", "old"}

Sweepers == {"trash", "uploads"}
SweepTx == [busy : BOOLEAN, todo : SUBSET Files, held : SUBSET Files,
            erased : SUBSET Files]
IdleTx == [busy |-> FALSE, todo |-> {}, held |-> {}, erased |-> {}]

Exists(f) == file[f].status \in Statuses
Is(f, status) == file[f].status = status
SetStatus(f, status) == file' = [file EXCEPT ![f].status = status]

(* The advisory lock on the file id.                                       *)
Locked(f) == f \in deriving \/ \E s \in Sweepers : f \in sweep[s].held

(* The lock on the organization id: PurgeOrgFiles holds it between its     *)
(* object deletes and its commit.                                          *)
OrgLocked == purge = "working"
Purged == purge = "done"

Fault ==
    /\ faults < MaxFaults
    /\ faults' = faults + 1

(* Delete the object, and the preview if the row names one.                *)
DeleteObjects(S) ==
    /\ content' = [f \in Files |-> IF f \in S THEN "none" ELSE content[f]]
    /\ previews' = {f \in previews : ~(f \in S /\ file[f].preview)}

-----------------------------------------------------------------------------
(* Admission and upload *)

(* Bug variant: what was refused no longer counts.                         *)
InFlightUnrefused ==
    {f \in Uploads : file[f].status \in {"PendingUpload", "Uploaded"}}

InFlight == {f \in Uploads : file[f].status \in Outstanding}

(* The sum of the declared sizes, as a count of bytes.                     *)
BytesOf(S) == UNION {{f} \X (1 .. Size[f]) : f \in S}

TotalSize(S) == Cardinality(BytesOf(S))

HasUploadRoom(f) ==
    /\ Cardinality(InFlight) < MaxFiles
    /\ TotalSize(InFlight) + Size[f] <= MaxBytes

(* Contention on the admission lock is refused, so admission is one step.  *)
Create(f) ==
    /\ Is(f, "None")
    /\ HasUploadRoom(f)
    /\ SetStatus(f, "PendingUpload")
    /\ UNCHANGED <<objects, clock, tickets, pipeline, generated, sweep,
                   purge, faults>>

(* The ticket is create-only and outlives the row.  S3-compatible stores   *)
(* take the size as a hint; the local store lets a ticket be used once,    *)
(* also when the body is then refused.                                     *)
Upload(f, c) ==
    /\ store # "azure"
    /\ ~Is(f, "None")
    /\ age[f] = "ticket"
    /\ content[f] = "none"
    /\ \/ store = "s3" /\ c # "none" /\ UNCHANGED claimed
       \/ /\ store = "local" /\ c # "big"
          /\ f \notin claimed
          /\ claimed' = claimed \cup {f}
    /\ content' = [content EXCEPT ![f] = c]
    /\ UNCHANGED <<store, file, previews, clock, pipeline, generated, sweep,
                   purge, faults>>

(* The relay writes a staged, bounded body under the file's lock.          *)
Put(f, c) ==
    /\ store = "azure"
    /\ ~Locked(f)
    /\ Is(f, "PendingUpload")
    /\ age[f] = "ticket"
    /\ content[f] = "none"
    /\ c \in {"good", "bad"}
    /\ content' = [content EXCEPT ![f] = c]
    /\ UNCHANGED <<file, previews, clock, tickets, pipeline, generated,
                   sweep, purge, faults>>

Complete(f) ==
    /\ ~Locked(f)
    /\ Is(f, "PendingUpload")
    /\ content[f] # "none"
    /\ IF content[f] = "big"
       THEN SetStatus(f, "Quarantined") /\ UNCHANGED scan
       ELSE SetStatus(f, "Uploaded") /\ scan' = scan \cup {f}
    /\ UNCHANGED <<objects, clock, tickets, derive, deriving, generated,
                   sweep, purge, faults>>

-----------------------------------------------------------------------------
(* The pipeline.  A handled message may be delivered again.                *)

(* Bug variant: the verdict is applied whatever the row has become.        *)
ScanAnyStatus(f) ==
    /\ f \in scan
    /\ ~Locked(f)
    /\ Exists(f)
    /\ content[f] # "none"
    /\ scan' \in {scan, scan \ {f}}
    /\ IF content[f] = "good"
       THEN SetStatus(f, "Clean") /\ derive' = derive \cup {f}
       ELSE SetStatus(f, "Quarantined") /\ UNCHANGED derive
    /\ UNCHANGED <<objects, clock, tickets, deriving, generated, sweep,
                   purge, faults>>

(* With no object to read the handler throws: the message is a dead letter *)
(* until an operator replays it.                                           *)
Scan(f) ==
    /\ f \in scan
    /\ ~Locked(f)
    /\ Is(f, "Uploaded")
    /\ content[f] # "none"
    /\ scan' \in {scan, scan \ {f}}
    /\ IF content[f] = "good"
       THEN SetStatus(f, "Clean") /\ derive' = derive \cup {f}
       ELSE SetStatus(f, "Quarantined") /\ UNCHANGED derive
    /\ UNCHANGED <<objects, clock, tickets, deriving, generated, sweep,
                   purge, faults>>

IgnoredScan(f) ==
    /\ f \in scan
    /\ ~Locked(f)
    /\ ~Is(f, "Uploaded")
    /\ scan' = scan \ {f}
    /\ UNCHANGED <<file, objects, clock, tickets, derive, deriving,
                   generated, sweep, purge, faults>>

(* Not clean any more, or not a small text file.                           *)
IgnoredDerive(f) ==
    /\ f \in derive
    /\ ~Locked(f)
    /\ derive' = derive \ {f}
    /\ UNCHANGED <<file, objects, clock, tickets, scan, deriving, generated,
                   sweep, purge, faults>>

DeriveWrite(f) ==
    /\ f \in derive
    /\ ~Locked(f)
    /\ Is(f, "Clean")
    /\ content[f] # "none"
    /\ previews' = previews \cup {f}
    /\ deriving' = deriving \cup {f}
    /\ UNCHANGED <<file, content, clock, tickets, scan, derive, generated,
                   sweep, purge, faults>>

(* An update of a row the purge has deleted fails.                         *)
DeriveCommit(f) ==
    /\ f \in deriving
    /\ deriving' = deriving \ {f}
    /\ IF Exists(f)
       THEN /\ file' = [file EXCEPT ![f].preview = TRUE]
            /\ derive' \in {derive, derive \ {f}}
       ELSE UNCHANGED <<file, derive>>
    /\ UNCHANGED <<objects, clock, tickets, scan, generated, sweep, purge,
                   faults>>

DeriveFails(f) ==
    /\ f \in deriving
    /\ Fault
    /\ deriving' = deriving \ {f}
    /\ UNCHANGED <<file, objects, clock, tickets, scan, derive, generated,
                   sweep, purge>>

-----------------------------------------------------------------------------
(* Hold, trash and erasure by the user *)

SetHold(f, hold) ==
    /\ ~Locked(f)
    /\ Exists(f)
    /\ file' = [file EXCEPT ![f].hold = hold]
    /\ UNCHANGED <<objects, clock, tickets, pipeline, generated, sweep,
                   purge, faults>>

(* Bug variant: tickets are not considered.                                *)
NoTicketLives(f) == FALSE

(* A direct cloud ticket can still create the object.                      *)
TicketLives(f) == store = "s3" /\ f \in Uploads /\ age[f] = "ticket"

Delete(f) ==
    /\ ~Locked(f)
    /\ ~file[f].hold
    /\ \/ /\ Is(f, "Clean")
          /\ SetStatus(f, "Deleted")
          /\ lapsed' = lapsed \ {f}
          /\ UNCHANGED objects
       \/ /\ file[f].status \in Outstanding
          /\ TicketLives(f)
          /\ SetStatus(f, "Quarantined")
          /\ UNCHANGED <<objects, lapsed>>
       \/ /\ file[f].status \in Outstanding
          /\ ~TicketLives(f)
          /\ DeleteObjects({f})
          /\ file' = [file EXCEPT ![f].status = "Erased", ![f].preview = FALSE]
          /\ UNCHANGED lapsed
    /\ UNCHANGED <<age, tickets, pipeline, generated, sweep, purge, faults>>

(* The erasing branch, with the transaction rolled back.                   *)
DeleteFails(f) ==
    /\ ~Locked(f)
    /\ ~file[f].hold
    /\ file[f].status \in Outstanding
    /\ ~TicketLives(f)
    /\ Fault
    /\ DeleteObjects({f})
    /\ UNCHANGED <<file, clock, tickets, pipeline, generated, sweep, purge>>

Restore(f) ==
    /\ ~Locked(f)
    /\ Is(f, "Deleted")
    /\ SetStatus(f, "Clean")
    /\ UNCHANGED <<objects, clock, tickets, pipeline, generated, sweep,
                   purge, faults>>

-----------------------------------------------------------------------------
(* The sweeps: PurgeFileTrash and ExpirePendingUploads.  One transaction   *)
(* over all selected files: locks and row changes wait for its end.        *)

(* Bug variant: only tickets nobody completed expire.                      *)
DuePendingOnly(s, f) ==
    /\ Exists(f)
    /\ ~file[f].hold
    /\ IF s = "trash"
       THEN Is(f, "Deleted") /\ f \in lapsed /\ ~TicketLives(f)
       ELSE Is(f, "PendingUpload") /\ age[f] = "old"

(* Bug variant: the trash window is never seen to close.                   *)
DueUploadsOnly(s, f) ==
    /\ Exists(f)
    /\ ~file[f].hold
    /\ s = "uploads"
    /\ file[f].status \in Outstanding
    /\ age[f] = "old"

Due(s, f) ==
    /\ Exists(f)
    /\ ~file[f].hold
    /\ IF s = "trash"
       THEN Is(f, "Deleted") /\ f \in lapsed /\ ~TicketLives(f)
       ELSE file[f].status \in Outstanding /\ age[f] = "old"

SweepSelect(s) ==
    /\ ~sweep[s].busy
    /\ \E f \in Files : Due(s, f)
    /\ sweep' = [sweep EXCEPT ![s] =
                   [IdleTx EXCEPT !.busy = TRUE,
                                  !.todo = {f \in Files : Due(s, f)}]]
    /\ UNCHANGED <<file, objects, clock, tickets, pipeline, generated,
                   purge, faults>>

Take(s, f, erase) ==
    LET tx == sweep[s] IN
    sweep' = [sweep EXCEPT ![s] =
                [busy |-> TRUE, todo |-> tx.todo \ {f},
                 held |-> tx.held \cup {f},
                 erased |-> IF erase THEN tx.erased \cup {f} ELSE tx.erased]]

(* Bug variant: the selection is trusted once the lock is held.            *)
SweepTakeTrusting(s, f) ==
    /\ f \in sweep[s].todo
    /\ ~Locked(f)
    /\ DeleteObjects({f})
    /\ Take(s, f, TRUE)
    /\ UNCHANGED <<file, clock, tickets, pipeline, generated, purge, faults>>

(* Lock, reload and check again.  A row the purge has deleted meanwhile is *)
(* detached, and its objects are gone already.                             *)
SweepTake(s, f) ==
    /\ f \in sweep[s].todo
    /\ ~Locked(f)
    /\ IF Due(s, f)
       THEN DeleteObjects({f}) /\ Take(s, f, TRUE)
       ELSE UNCHANGED objects /\ Take(s, f, FALSE)
    /\ UNCHANGED <<file, clock, tickets, pipeline, generated, purge, faults>>

(* One missing row fails the whole batch.                                  *)
SweepCommit(s) ==
    /\ sweep[s].busy
    /\ sweep[s].todo = {}
    /\ file' = IF \A f \in sweep[s].erased : Exists(f)
               THEN [f \in Files |->
                       IF f \in sweep[s].erased
                       THEN [file[f] EXCEPT !.status = "Erased",
                                            !.preview = FALSE]
                       ELSE file[f]]
               ELSE file
    /\ sweep' = [sweep EXCEPT ![s] = IdleTx]
    /\ UNCHANGED <<objects, clock, tickets, pipeline, generated, purge,
                   faults>>

SweepFails(s) ==
    /\ sweep[s].busy
    /\ Fault
    /\ sweep' = [sweep EXCEPT ![s] = IdleTx]
    /\ UNCHANGED <<file, objects, clock, tickets, pipeline, generated, purge>>

-----------------------------------------------------------------------------
(* Generated files *)

(* Reporting has stored a PDF and asks for its publication: its settling   *)
(* transaction, and again for every sweep that finds it unpublished.       *)
ReportReady(f) ==
    /\ Is(f, "None") \/ Is(f, "Gone")
    /\ f \notin publish
    /\ publish' = publish \cup {f}
    /\ content' = [content EXCEPT ![f] = "good"]
    /\ UNCHANGED <<file, previews, clock, tickets, pipeline, export,
                   reserved, letters, sweep, purge, faults>>

(* Bug variant: the purge fence is not consulted.                          *)
PublishGeneratedFileUnfenced(f) ==
    /\ f \in publish
    /\ ~OrgLocked
    /\ publish' \in {publish, publish \ {f}}
    /\ IF ~Exists(f)
       THEN SetStatus(f, "Clean")
       ELSE UNCHANGED file
    /\ UNCHANGED <<objects, clock, tickets, pipeline, export, reserved,
                   letters, sweep, purge, faults>>

(* Bug variant: a redelivery resets the row.                               *)
PublishGeneratedFileResets(f) ==
    /\ f \in publish
    /\ ~OrgLocked
    /\ publish' \in {publish, publish \ {f}}
    /\ IF ~Purged
       THEN SetStatus(f, "Clean")
       ELSE UNCHANGED file
    /\ UNCHANGED <<objects, clock, tickets, pipeline, export, reserved,
                   letters, sweep, purge, faults>>

PublishGeneratedFile(f) ==
    /\ f \in publish
    /\ ~OrgLocked
    /\ publish' \in {publish, publish \ {f}}
    /\ IF ~Purged /\ ~Exists(f)
       THEN SetStatus(f, "Clean")
       ELSE UNCHANGED file
    /\ UNCHANGED <<objects, clock, tickets, pipeline, export, reserved,
                   letters, sweep, purge, faults>>

(* One admission code for both kinds of export.                            *)
AdmissionFree == reserved = {}

(* The admission and its message commit together.                          *)
Reserve(a) ==
    /\ Is(a, "None")
    /\ a \notin export \cup dead \cup discarded
    /\ AdmissionFree
    /\ reserved' = reserved \cup {a}
    /\ export' = export \cup {a}
    /\ UNCHANGED <<file, objects, clock, tickets, pipeline, publish, letters,
                   sweep, purge, faults>>

RequestOrgExport(a) == a \notin AuditExports /\ Reserve(a)
RequestAuditExport(a) == a \in AuditExports /\ Reserve(a)

(* Bug variant: an export of a purged organization keeps its admission.    *)
LeakingExport(a) ==
    /\ a \in export
    /\ ~OrgLocked
    /\ export' \in {export, export \ {a}}
    /\ reserved' = IF Purged THEN reserved ELSE reserved \ {a}
    /\ \/ /\ ~Purged /\ a \in reserved
          /\ SetStatus(a, "Clean")
          /\ content' = [content EXCEPT ![a] = "good"]
       \/ UNCHANGED <<file, content>>
    /\ UNCHANGED <<previews, clock, tickets, pipeline, publish, letters,
                   sweep, purge, faults>>

(* The archive and the end of its admission commit together; an export     *)
(* over budget, or of a purged organization, only ends it.                 *)
HandleExport(a) ==
    /\ a \in export
    /\ ~OrgLocked
    /\ export' \in {export, export \ {a}}
    /\ reserved' = reserved \ {a}
    /\ \/ /\ ~Purged /\ a \in reserved
          /\ SetStatus(a, "Clean")
          /\ content' = [content EXCEPT ![a] = "good"]
       \/ UNCHANGED <<file, content>>
    /\ UNCHANGED <<previews, clock, tickets, pipeline, publish, letters,
                   sweep, purge, faults>>

ExportOrgData(a) == a \notin AuditExports /\ HandleExport(a)
ExportAuditTrail(a) == a \in AuditExports /\ HandleExport(a)

(* Any other exception: the transaction is rolled back and the message     *)
(* becomes a dead letter, whose admission stays.  An archive that was      *)
(* already written stays under a key of its own that no row names.         *)
ExportFails(a) ==
    /\ a \in export
    /\ ~OrgLocked
    /\ Fault
    /\ export' = export \ {a}
    /\ dead' = dead \cup {a}
    /\ UNCHANGED <<file, objects, clock, tickets, pipeline, publish, reserved,
                   discarded, sweep, purge>>

(* The operator's two answers to a dead letter.  Neither looks at the      *)
(* admission of the export.                                                *)
ReplayLetter(a) ==
    /\ a \in dead
    /\ dead' = dead \ {a}
    /\ export' = export \cup {a}
    /\ UNCHANGED <<file, objects, clock, tickets, pipeline, publish, reserved,
                   discarded, sweep, purge, faults>>

DiscardLetter(a) ==
    /\ a \in dead
    /\ dead' = dead \ {a}
    /\ discarded' = discarded \cup {a}
    /\ UNCHANGED <<file, objects, clock, tickets, pipeline, publish, export,
                   reserved, sweep, purge, faults>>

-----------------------------------------------------------------------------
(* The purge: objects first, then fence and rows in one commit             *)

PurgeObjects ==
    /\ Closes
    /\ purge \in {"none", "failed"}
    /\ purge' = "working"
    /\ DeleteObjects({f \in Files : Exists(f)})
    /\ UNCHANGED <<file, clock, tickets, pipeline, generated, sweep, faults>>

PurgeCommit ==
    /\ purge = "working"
    /\ purge' = "done"
    /\ file' = [f \in Files |-> IF Exists(f) THEN GoneFile ELSE file[f]]
    /\ reserved' = {}
    /\ UNCHANGED <<objects, clock, tickets, pipeline, publish, export,
                   letters, sweep, faults>>

PurgeFails ==
    /\ purge = "working"
    /\ Fault
    /\ purge' = "failed"
    /\ UNCHANGED <<file, objects, clock, tickets, pipeline, generated, sweep>>

-----------------------------------------------------------------------------
(* Time *)

Grow(f) ==
    /\ ~Is(f, "None")
    /\ age[f] # "old"
    /\ age' = [age EXCEPT ![f] = IF @ = "ticket" THEN "aged" ELSE "old"]
    /\ UNCHANGED <<file, objects, lapsed, tickets, pipeline, generated,
                   sweep, purge, faults>>

Lapse(f) ==
    /\ Is(f, "Deleted")
    /\ f \notin lapsed
    /\ lapsed' = lapsed \cup {f}
    /\ UNCHANGED <<file, objects, age, tickets, pipeline, generated, sweep,
                   purge, faults>>

-----------------------------------------------------------------------------
Init ==
    /\ store \in Stores
    /\ file = [f \in Files |-> NoFile]
    /\ content = [f \in Files |-> "none"]
    /\ previews = {}
    /\ age = [f \in Uploads |-> "ticket"]
    /\ lapsed = {}
    /\ claimed = {}
    /\ scan = {} /\ derive = {} /\ deriving = {}
    /\ publish = {} /\ export = {} /\ reserved = {}
    /\ dead = {} /\ discarded = {}
    /\ sweep = [s \in Sweepers |-> IdleTx]
    /\ purge = "none"
    /\ faults = 0

SweepStep(s) ==
    SweepSelect(s) \/ SweepCommit(s) \/ \E f \in Files : SweepTake(s, f)

Next ==
    \/ \E f \in Uploads :
          \/ Create(f) \/ Complete(f)
          \/ \E c \in Contents : Upload(f, c) \/ Put(f, c)
          \/ Scan(f) \/ IgnoredScan(f) \/ Grow(f)
          \/ IgnoredDerive(f) \/ DeriveWrite(f) \/ DeriveCommit(f)
          \/ DeriveFails(f) \/ DeleteFails(f)
    \/ \E f \in Files :
          \/ Delete(f) \/ Restore(f) \/ Lapse(f)
          \/ \E hold \in BOOLEAN : SetHold(f, hold)
    \/ \E f \in Reports : ReportReady(f) \/ PublishGeneratedFile(f)
    \/ \E a \in Exports :
          \/ RequestOrgExport(a) \/ RequestAuditExport(a)
          \/ ExportOrgData(a) \/ ExportAuditTrail(a) \/ ExportFails(a)
          \/ ReplayLetter(a) \/ DiscardLetter(a)
    \/ \E s \in Sweepers : SweepStep(s) \/ SweepFails(s)
    \/ PurgeObjects \/ PurgeCommit \/ PurgeFails

Spec == Init /\ [][Next]_vars

-----------------------------------------------------------------------------
TypeOK ==
    /\ store \in Stores
    /\ file \in [Files -> FileRow]
    /\ content \in [Files -> Contents]
    /\ age \in [Uploads -> Ages]
    /\ previews \subseteq Files /\ lapsed \subseteq Files
    /\ claimed \subseteq Uploads /\ scan \subseteq Uploads
    /\ derive \subseteq Uploads /\ deriving \subseteq Uploads
    /\ publish \subseteq Reports
    /\ export \subseteq Exports /\ reserved \subseteq Exports
    /\ dead \subseteq Exports /\ discarded \subseteq Exports
    /\ sweep \in [Sweepers -> SweepTx]
    /\ purge \in {"none", "working", "failed", "done"}
    /\ faults \in 0 .. MaxFaults

(* Admission: uploads without a verdict never exceed 20 files or 500 MiB,  *)
(* although rows leave and stay in that state by scans, deletes and sweeps *)
(* that do not take the admission lock.                                    *)
OutstandingWithinBudget ==
    LET S == {f \in Uploads : file[f].status \in Outstanding} IN
    Cardinality(S) <= MaxFiles /\ TotalSize(S) <= MaxBytes

(* The tombstone of an erased file has no object, now or later: a deletion *)
(* keeps the key occupied while a cloud ticket could still create it.  The *)
(* local development store is left out: there an unused ticket can.        *)
ErasedHasNoBytes ==
    store # "local" =>
        \A f \in Files : Is(f, "Erased") => content[f] = "none"

(* Legal hold: only the purge of the organization deletes a held file's    *)
(* object, also when the hold came after a sweep selected the file.        *)
HeldIsKept ==
    [][\A f \in Files :
         /\ file[f].hold
         /\ content[f] # "none" /\ content'[f] = "none"
         => purge' # purge]_vars

(* A refused upload and an erased file never become downloadable again,    *)
(* whatever scans, publications and exports are delivered again.           *)
VerdictIsFinal ==
    [][\A f \in Files :
         /\ Is(f, "Quarantined") =>
               file'[f].status \in {"Quarantined", "Erased", "Gone"}
         /\ Is(f, "Erased") => file'[f].status \in {"Erased", "Gone"}]_vars

(* The purge fence: a publication or an export delivered after the purge   *)
(* does not bring a generated file back.                                   *)
NothingGeneratedAfterPurge ==
    Purged => \A f \in Reports \cup Exports : ~Exists(f)

(* An admission has no end of its own, so it must not outlive its work:    *)
(* through redelivery, failure, replay and purge it belongs to an export   *)
(* that is queued, running or a dead letter.  Only a letter an operator    *)
(* discarded leaves its admission behind.                                  *)
AdmissionHasWork == reserved \subseteq export \cup dead \cup discarded

-----------------------------------------------------------------------------
(* Liveness.  Time passes, the sweeps come every day and the durable       *)
(* messages are handled.  A sweep that waits for a file's lock gets it,    *)
(* however often a duplicate message takes it in between: PostgreSQL       *)
(* grants an advisory lock in the order of the requests.  Nothing is       *)
(* assumed of users, faults or the start of a purge.                       *)
Fairness ==
    /\ \A s \in Sweepers : SF_vars(SweepStep(s))
    /\ \A f \in Files : WF_vars(Lapse(f))
    /\ \A f \in Uploads : WF_vars(Grow(f)) /\ WF_vars(DeriveCommit(f))
    /\ \A a \in Exports : WF_vars(HandleExport(a))
    /\ WF_vars(PurgeCommit)

FairSpec == Spec /\ Fairness

(* Every upload that got no verdict, for whatever reason, and every one in *)
(* the trash is erased in the end, unless it is held or restored: the      *)
(* budget and the trash do not fill up, whatever the sweeps met.           *)
Draining == Outstanding \cup {"Deleted"}
UploadsDrain ==
    \A f \in Uploads : file[f].status \in Draining
        ~> (file[f].status \notin Draining \/ file[f].hold)

(* An admission ends, so the next export can be asked for, unless its      *)
(* export failed and no operator replayed it: also when the organization   *)
(* was purged before the export was handled, or after its letter died.     *)
ExportsEnd ==
    \A a \in Exports :
        a \in reserved ~> a \notin reserved \/ a \in dead \cup discarded
=============================================================================
