------------------------- MODULE StoredFilesProofs -------------------------
(***************************************************************************)
(* Theorems about StoredFiles for every set of uploads, reports and        *)
(* exports, every store and every number of faults.                        *)
(***************************************************************************)
EXTENDS StoredFiles, FiniteSetTheorems, TLAPS

(* The initial state is well typed.                                        *)
LEMMA InitType == Init => TypeOK
BY StoredFilesAssumption
   DEF Init, TypeOK, Files, FileRow, NoFile, Contents, Ages, SweepTx, IdleTx,
       Sweepers

(* A status change touches one field of one row.                           *)
LEMMA StatusType ==
    ASSUME TypeOK, NEW f \in Files, NEW status \in Statuses,
           SetStatus(f, status)
    PROVE  /\ file' \in [Files -> FileRow]
           /\ file'[f].status = status
           /\ \A g \in Files : g # f => file'[g] = file[g]
<1> DEFINE row == [file[f] EXCEPT !.status = status]
<1>1. row \in FileRow /\ row.status = status
  BY DEF TypeOK, FileRow
<1>2. file' = [file EXCEPT ![f] = row]
  BY DEF SetStatus
<1> HIDE DEF row
<1> QED BY <1>1, <1>2 DEF TypeOK

(* Erasing a row sets its status and forgets its preview.                  *)
LEMMA EraseType ==
    ASSUME TypeOK, NEW f \in Files,
           file' = [file EXCEPT ![f].status = "Erased", ![f].preview = FALSE]
    PROVE  /\ file' \in [Files -> FileRow]
           /\ file'[f].status = "Erased"
           /\ \A g \in Files : g # f => file'[g] = file[g]
<1> DEFINE row == [file[f] EXCEPT !.status = "Erased", !.preview = FALSE]
<1>1. row \in FileRow /\ row.status = "Erased"
  BY DEF TypeOK, FileRow, Statuses
<1>2. file' = [file EXCEPT ![f] = row]
  BY DEF TypeOK, FileRow
<1> HIDE DEF row
<1> QED BY <1>1, <1>2 DEF TypeOK

(* Deleting objects leaves a well-typed store, empty where asked.          *)
LEMMA ObjectsType ==
    ASSUME TypeOK, NEW S, DeleteObjects(S)
    PROVE  /\ content' \in [Files -> Contents]
           /\ previews' \subseteq Files
           /\ \A f \in Files : f \in S => content'[f] = "none"
           /\ \A f \in Files : f \notin S => content'[f] = content[f]
BY DEF TypeOK, DeleteObjects, Contents

(* Taking a file moves it from the list of a sweep to its locks.           *)
LEMMA TakeType ==
    ASSUME TypeOK, NEW s \in Sweepers, NEW f \in Files, NEW erase \in BOOLEAN,
           Take(s, f, erase)
    PROVE  /\ sweep' \in [Sweepers -> SweepTx]
           /\ sweep'[s].held = sweep[s].held \cup {f}
           /\ sweep'[s].erased = IF erase THEN sweep[s].erased \cup {f}
                                          ELSE sweep[s].erased
           /\ \A t \in Sweepers : t # s => sweep'[t] = sweep[t]
<1> DEFINE tx == [busy |-> TRUE, todo |-> sweep[s].todo \ {f},
                  held |-> sweep[s].held \cup {f},
                  erased |-> IF erase THEN sweep[s].erased \cup {f}
                                      ELSE sweep[s].erased]
<1>0. sweep[s] \in SweepTx
  BY DEF TypeOK
<1>1. /\ tx \in SweepTx
      /\ tx.held = sweep[s].held \cup {f}
      /\ tx.erased = IF erase THEN sweep[s].erased \cup {f} ELSE sweep[s].erased
  BY <1>0 DEF SweepTx
<1>2. sweep' = [sweep EXCEPT ![s] = tx]
  BY DEF Take
<1> HIDE DEF tx
<1> QED BY <1>1, <1>2 DEF TypeOK

(* A fault is counted within its bound.                                    *)
LEMMA FaultType ==
    ASSUME TypeOK, Fault
    PROVE  faults' \in 0 .. MaxFaults
BY StoredFilesAssumption DEF TypeOK, Fault

(* A preview and a hold are single fields as well.                         *)
LEMMA PreviewType ==
    ASSUME TypeOK, NEW f \in Files,
           file' = [file EXCEPT ![f].preview = TRUE]
    PROVE  /\ file' \in [Files -> FileRow]
           /\ \A g \in Files : file'[g].status = file[g].status
<1> DEFINE row == [file[f] EXCEPT !.preview = TRUE]
<1>1. row \in FileRow /\ row.status = file[f].status
  BY DEF TypeOK, FileRow
<1>2. file' = [file EXCEPT ![f] = row]
  OBVIOUS
<1> HIDE DEF row
<1> QED BY <1>1, <1>2 DEF TypeOK

(* What a hold and its release leave is well typed.                         *)
LEMMA HoldType ==
    ASSUME TypeOK, NEW f \in Files, NEW hold \in BOOLEAN,
           file' = [file EXCEPT ![f].hold = hold]
    PROVE  /\ file' \in [Files -> FileRow]
           /\ \A g \in Files : file'[g].status = file[g].status
<1> DEFINE row == [file[f] EXCEPT !.hold = hold]
<1>1. row \in FileRow /\ row.status = file[f].status
  BY DEF TypeOK, FileRow
<1>2. file' = [file EXCEPT ![f] = row]
  OBVIOUS
<1> HIDE DEF row
<1> QED BY <1>1, <1>2 DEF TypeOK

(* The end of a sweep frees its locks.                                     *)
LEMMA IdleType ==
    ASSUME TypeOK, NEW s \in Sweepers, sweep' = [sweep EXCEPT ![s] = IdleTx]
    PROVE  /\ sweep' \in [Sweepers -> SweepTx]
           /\ sweep'[s].erased = {} /\ sweep'[s].held = {}
           /\ \A t \in Sweepers : t # s => sweep'[t] = sweep[t]
<1>1. IdleTx \in SweepTx /\ IdleTx.erased = {} /\ IdleTx.held = {}
  BY DEF IdleTx, SweepTx
<1> QED BY <1>1 DEF TypeOK

(* A committed sweep erases what it took, and nothing else.                *)
LEMMA CommitType ==
    ASSUME TypeOK, NEW s \in Sweepers, SweepCommit(s)
    PROVE  /\ file' \in [Files -> FileRow]
           /\ \A f \in Files :
                 \/ file'[f] = file[f]
                 \/ /\ file'[f].status = "Erased"
                    /\ f \in sweep[s].erased
                    /\ Exists(f)
<1> DEFINE row(f) == [file[f] EXCEPT !.status = "Erased", !.preview = FALSE]
<1>1. \A f \in Files : row(f) \in FileRow /\ row(f).status = "Erased"
  BY DEF TypeOK, FileRow, Statuses
<1>2. file' = IF \A f \in sweep[s].erased : Exists(f)
              THEN [f \in Files |-> IF f \in sweep[s].erased
                                    THEN row(f) ELSE file[f]]
              ELSE file
  BY DEF SweepCommit
<1> HIDE DEF row
<1> QED BY <1>1, <1>2 DEF TypeOK

(* Every step keeps the types: one step of the proof per action.           *)
LEMMA NextType == TypeOK /\ [Next]_vars => TypeOK'
<1> SUFFICES ASSUME TypeOK, [Next]_vars PROVE TypeOK'
  OBVIOUS
<1> USE DEF objects, clock, tickets, pipeline, generated, letters
<1>a. Uploads \subseteq Files /\ Reports \subseteq Files /\ Exports \subseteq Files
  BY DEF Files
<1>1. CASE UNCHANGED vars
  BY <1>1 DEF TypeOK, vars
<1>2. ASSUME NEW f \in Uploads, Create(f) PROVE TypeOK'
  BY <1>2, <1>a, StatusType DEF Create, TypeOK, Statuses, Outstanding
<1>3. ASSUME NEW f \in Uploads, Complete(f) PROVE TypeOK'
  BY <1>3, <1>a, StatusType DEF Complete, TypeOK, Statuses, Outstanding
<1>4. ASSUME NEW f \in Uploads, NEW c \in Contents, Upload(f, c) PROVE TypeOK'
  BY <1>4, <1>a DEF Upload, TypeOK
<1>5. ASSUME NEW f \in Uploads, NEW c \in Contents, Put(f, c) PROVE TypeOK'
  BY <1>5, <1>a DEF Put, TypeOK
<1>6. ASSUME NEW f \in Uploads, Scan(f) PROVE TypeOK'
  BY <1>6, <1>a, StatusType DEF Scan, TypeOK, Statuses, Outstanding
<1>7. ASSUME NEW f \in Uploads, IgnoredScan(f) \/ IgnoredDerive(f) PROVE TypeOK'
  BY <1>7 DEF IgnoredScan, IgnoredDerive, TypeOK
<1>8. ASSUME NEW f \in Uploads, Grow(f) PROVE TypeOK'
  BY <1>8 DEF Grow, TypeOK, Ages
<1>9. ASSUME NEW f \in Uploads, DeriveWrite(f) PROVE TypeOK'
  BY <1>9, <1>a DEF DeriveWrite, TypeOK
<1>10. ASSUME NEW f \in Uploads, DeriveCommit(f) PROVE TypeOK'
  <2>1. file' \in [Files -> FileRow]
    BY <1>10, <1>a, PreviewType DEF DeriveCommit, TypeOK
  <2> QED BY <1>10, <2>1 DEF DeriveCommit, TypeOK
<1>11. ASSUME NEW f \in Uploads, DeriveFails(f) PROVE TypeOK'
  BY <1>11, FaultType DEF DeriveFails, TypeOK
<1>12. ASSUME NEW f \in Uploads, DeleteFails(f) PROVE TypeOK'
  BY <1>12, FaultType, ObjectsType DEF DeleteFails, TypeOK
<1>13. ASSUME NEW f \in Files, Delete(f) PROVE TypeOK'
  <2>1. file' \in [Files -> FileRow]
    BY <1>13, StatusType, EraseType DEF Delete, Statuses, Outstanding
  <2>2. content' \in [Files -> Contents] /\ previews' \subseteq Files
    BY <1>13, ObjectsType DEF Delete, TypeOK
  <2> QED BY <1>13, <2>1, <2>2 DEF Delete, TypeOK
<1>14. ASSUME NEW f \in Files, Restore(f) PROVE TypeOK'
  BY <1>14, StatusType DEF Restore, TypeOK, Statuses, Outstanding
<1>15. ASSUME NEW f \in Files, Lapse(f) PROVE TypeOK'
  BY <1>15 DEF Lapse, TypeOK
<1>16. ASSUME NEW f \in Files, NEW hold \in BOOLEAN, SetHold(f, hold)
       PROVE  TypeOK'
  BY <1>16, HoldType DEF SetHold, TypeOK
<1>17. ASSUME NEW f \in Reports, ReportReady(f) PROVE TypeOK'
  BY <1>17, <1>a DEF ReportReady, TypeOK, Contents
<1>18. ASSUME NEW f \in Reports, PublishGeneratedFile(f) PROVE TypeOK'
  BY <1>18, <1>a, StatusType DEF PublishGeneratedFile, TypeOK, Statuses
<1>19. ASSUME NEW a \in Exports, Reserve(a) PROVE TypeOK'
  BY <1>19 DEF Reserve, TypeOK
<1>20. ASSUME NEW a \in Exports, HandleExport(a) PROVE TypeOK'
  BY <1>20, <1>a, StatusType DEF HandleExport, TypeOK, Statuses, Contents
<1>30. ASSUME NEW a \in Exports,
              ExportFails(a) \/ ReplayLetter(a) \/ DiscardLetter(a)
       PROVE  TypeOK'
  BY <1>30, FaultType DEF ExportFails, ReplayLetter, DiscardLetter, TypeOK
<1>21. ASSUME NEW s \in Sweepers, SweepSelect(s) PROVE TypeOK'
  <2> DEFINE tx == [IdleTx EXCEPT !.busy = TRUE,
                                  !.todo = {f \in Files : Due(s, f)}]
  <2>1. tx \in SweepTx
    BY DEF SweepTx, IdleTx
  <2>2. sweep' = [sweep EXCEPT ![s] = tx]
    BY <1>21 DEF SweepSelect
  <2> HIDE DEF tx
  <2> QED BY <1>21, <2>1, <2>2 DEF SweepSelect, TypeOK
<1>22. ASSUME NEW s \in Sweepers, NEW f \in Files, SweepTake(s, f) PROVE TypeOK'
  <2>1. sweep' \in [Sweepers -> SweepTx]
    BY <1>22, TakeType DEF SweepTake
  <2>2. content' \in [Files -> Contents] /\ previews' \subseteq Files
    BY <1>22, ObjectsType DEF SweepTake, TypeOK
  <2> QED BY <1>22, <2>1, <2>2 DEF SweepTake, TypeOK
<1>23. ASSUME NEW s \in Sweepers, SweepCommit(s) PROVE TypeOK'
  BY <1>23, CommitType, IdleType DEF SweepCommit, TypeOK
<1>24. ASSUME NEW s \in Sweepers, SweepFails(s) PROVE TypeOK'
  BY <1>24, FaultType, IdleType DEF SweepFails, TypeOK
<1>25. CASE PurgeObjects
  BY <1>25, ObjectsType DEF PurgeObjects, TypeOK
<1>26. CASE PurgeCommit
  <2>1. GoneFile \in FileRow
    BY DEF GoneFile, NoFile, FileRow
  <2> QED BY <1>26, <2>1 DEF PurgeCommit, TypeOK
<1>27. CASE PurgeFails
  BY <1>27, FaultType DEF PurgeFails, TypeOK
<1> QED
  BY <1>1, <1>2, <1>3, <1>4, <1>5, <1>6, <1>7, <1>8, <1>9, <1>10, <1>11,
     <1>12, <1>13, <1>14, <1>15, <1>16, <1>17, <1>18, <1>19, <1>20, <1>21,
     <1>22, <1>23, <1>24, <1>25, <1>26, <1>27, <1>30
  DEF Next, SweepStep, RequestOrgExport, RequestAuditExport, ExportOrgData,
      ExportAuditTrail

(* Every variable keeps its type, for every instance.                      *)
THEOREM TypeCorrect == Spec => []TypeOK
BY InitType, NextType, PTL DEF Spec

-----------------------------------------------------------------------------
(* The facts that make the safety properties inductive.                    *)

(* An admitted export has produced nothing yet, so handling it cannot      *)
(* overwrite a row.                                                        *)
ReservedIsFresh == \A a \in reserved : Is(a, "None")

(* Only the purge removes rows.                                            *)
GoneIsPurged == \A f \in Files : Is(f, "Gone") => Purged

(* A sweep holds the lock of every file it is erasing, and each of them    *)
(* had a row when it was taken.                                            *)
ErasingIsLocked ==
    \A s \in Sweepers : \A f \in sweep[s].erased :
        f \in sweep[s].held /\ ~Is(f, "None")

Erasing(f) == Exists(f) /\ \E s \in Sweepers : f \in sweep[s].erased

(* No ticket can create the object of a file that is erased or is being    *)
(* erased: in a cloud store it has expired, and the relay asks for a       *)
(* pending row and the lock the sweep holds.                               *)
TombsAreSealed ==
    store # "local" =>
        \A f \in Files : Is(f, "Erased") \/ Erasing(f) =>
            /\ content[f] = "none"
            /\ f \in Uploads => store = "azure" \/ age[f] # "ticket"

Safe ==
    /\ TypeOK
    /\ ReservedIsFresh
    /\ GoneIsPurged
    /\ ErasingIsLocked
    /\ TombsAreSealed
    /\ NothingGeneratedAfterPurge
    /\ AdmissionHasWork

(* What a step may do to the status of a row.                              *)
Moves(f) ==
    LET old == file[f].status
        new == file'[f].status IN
    \/ new = old
    \/ /\ old = "None" /\ new = "PendingUpload"
       /\ f \in Uploads /\ Create(f)
    \/ /\ old \in {"None", "Gone"} /\ new = "Clean"
       /\ f \in Reports \cup Exports /\ ~Purged /\ UNCHANGED purge
       /\ f \in Exports => old = "None" /\ f \notin reserved'
    \/ old = "PendingUpload" /\ new \in {"Uploaded", "Quarantined"}
    \/ old = "Uploaded" /\ new \in {"Clean", "Quarantined"}
    \/ old = "Clean" /\ new = "Deleted"
    \/ old = "Deleted" /\ new = "Clean"
    \/ old \in Outstanding /\ new = "Quarantined"
    \/ /\ old \in Outstanding /\ new = "Erased"
       /\ ~TicketLives(f) /\ content'[f] = "none"
       /\ UNCHANGED <<store, age>>
    \/ old \in Statuses /\ new = "Erased" /\ Erasing(f)
    \/ old \in Statuses /\ new = "Gone" /\ purge' = "done"

(* Every step moves every row along these edges.                           *)
LEMMA Lifecycle ==
    ASSUME TypeOK, ReservedIsFresh, [Next]_vars
    PROVE  \A f \in Files : Moves(f)
<1> USE DEF objects, clock, tickets, pipeline, generated, letters
<1>a. Uploads \subseteq Files /\ Reports \subseteq Files /\ Exports \subseteq Files
  BY DEF Files
<1>b. \A f \in Files : file'[f] = file[f] => Moves(f)
  BY DEF Moves
<1>1. CASE UNCHANGED file
  BY <1>1, <1>b
<1>2. ASSUME NEW f \in Uploads, Create(f) PROVE \A g \in Files : Moves(g)
  <2>1. Moves(f)
    BY <1>2, <1>a, StatusType DEF Create, Is, Moves, Statuses, Outstanding
  <2> QED BY <1>2, <2>1, <1>a, <1>b, StatusType DEF Create, Statuses, Outstanding
<1>3. ASSUME NEW f \in Uploads, Complete(f) PROVE \A g \in Files : Moves(g)
  <2>1. Moves(f)
    BY <1>3, <1>a, StatusType DEF Complete, Is, Moves, Statuses, Outstanding
  <2> QED BY <1>3, <2>1, <1>a, <1>b, StatusType DEF Complete, Statuses, Outstanding
<1>4. ASSUME NEW f \in Uploads, Scan(f) PROVE \A g \in Files : Moves(g)
  <2>1. Moves(f)
    BY <1>4, <1>a, StatusType DEF Scan, Is, Moves, Statuses, Outstanding
  <2> QED BY <1>4, <2>1, <1>a, <1>b, StatusType DEF Scan, Statuses, Outstanding
<1>5. ASSUME NEW f \in Uploads, DeriveCommit(f) PROVE \A g \in Files : Moves(g)
  BY <1>5, <1>a, PreviewType DEF DeriveCommit, Moves
<1>6. ASSUME NEW f \in Files, Delete(f) PROVE \A g \in Files : Moves(g)
  <2>1. CASE Is(f, "Clean") /\ SetStatus(f, "Deleted")
    <3>1. Moves(f)
      BY <2>1, StatusType DEF Is, Moves, Statuses
    <3> QED BY <2>1, <3>1, <1>b, StatusType DEF Statuses
  <2>2. CASE file[f].status \in Outstanding /\ SetStatus(f, "Quarantined")
    <3>1. Moves(f)
      BY <2>2, StatusType DEF Moves, Statuses, Outstanding
    <3> QED BY <2>2, <3>1, <1>b, StatusType DEF Statuses, Outstanding
  <2>3. CASE /\ file[f].status \in Outstanding /\ ~TicketLives(f)
             /\ DeleteObjects({f})
             /\ file' = [file EXCEPT ![f].status = "Erased",
                                     ![f].preview = FALSE]
    <3>1. file'[f].status = "Erased" /\ content'[f] = "none"
      BY <2>3, EraseType, ObjectsType
    <3>2. UNCHANGED <<store, age>>
      BY <1>6 DEF Delete
    <3>3. Moves(f)
      BY <2>3, <3>1, <3>2 DEF Moves
    <3> QED BY <2>3, <3>3, <1>b, EraseType
  <2> QED BY <1>6, <2>1, <2>2, <2>3 DEF Delete
<1>7. ASSUME NEW f \in Files, Restore(f) PROVE \A g \in Files : Moves(g)
  <2>1. Moves(f)
    BY <1>7, StatusType DEF Restore, Is, Moves, Statuses
  <2> QED BY <1>7, <2>1, <1>b, StatusType DEF Restore, Statuses
<1>8. ASSUME NEW f \in Files, NEW hold \in BOOLEAN, SetHold(f, hold)
      PROVE  \A g \in Files : Moves(g)
  BY <1>8, HoldType DEF SetHold, Moves
<1>9. ASSUME NEW f \in Reports, PublishGeneratedFile(f)
      PROVE  \A g \in Files : Moves(g)
  <2>1. CASE ~Purged /\ ~Exists(f) /\ SetStatus(f, "Clean")
    <3>1. file[f].status \in {"None", "Gone"}
      BY <2>1, <1>a DEF Exists, TypeOK, FileRow
    <3>2. file'[f].status = "Clean"
      BY <2>1, <1>a, StatusType DEF Statuses
    <3>3. UNCHANGED purge
      BY <1>9 DEF PublishGeneratedFile
    <3>4. f \notin Exports
      BY StoredFilesAssumption
    <3>5. Moves(f)
      BY <2>1, <3>1, <3>2, <3>3, <3>4 DEF Moves
    <3> QED BY <2>1, <3>5, <1>a, <1>b, StatusType DEF Statuses
  <2>2. CASE UNCHANGED file
    BY <2>2, <1>b
  <2> QED BY <1>9, <2>1, <2>2 DEF PublishGeneratedFile
<1>10. ASSUME NEW a \in Exports, HandleExport(a) PROVE \A g \in Files : Moves(g)
  <2>1. CASE ~Purged /\ a \in reserved /\ SetStatus(a, "Clean")
    <3>1. file[a].status = "None"
      BY <2>1 DEF ReservedIsFresh, Is
    <3>2. file'[a].status = "Clean"
      BY <2>1, <1>a, StatusType DEF Statuses
    <3>3. UNCHANGED purge /\ a \notin reserved'
      BY <1>10 DEF HandleExport
    <3>4. Moves(a)
      BY <2>1, <3>1, <3>2, <3>3 DEF Moves
    <3> QED BY <2>1, <3>4, <1>a, <1>b, StatusType DEF Statuses
  <2>2. CASE UNCHANGED file
    BY <2>2, <1>b
  <2> QED BY <1>10, <2>1, <2>2 DEF HandleExport
<1>11. ASSUME NEW s \in Sweepers, SweepCommit(s) PROVE \A g \in Files : Moves(g)
  BY <1>11, CommitType DEF Moves, Erasing, Exists
<1>12. CASE PurgeCommit
  <2>1. GoneFile.status = "Gone"
    BY DEF GoneFile, NoFile
  <2> QED BY <1>12, <2>1 DEF PurgeCommit, Moves, Exists
<1>13. CASE UNCHANGED vars
  BY <1>13, <1>1 DEF vars
<1> QED
  BY <1>1, <1>2, <1>3, <1>4, <1>5, <1>6, <1>7, <1>8, <1>9, <1>10, <1>11,
     <1>12, <1>13
  DEF Next, SweepStep, RequestOrgExport, RequestAuditExport, ExportOrgData,
      ExportAuditTrail, ExportFails, ReplayLetter, DiscardLetter,
      Reserve, Upload, Put, IgnoredScan, IgnoredDerive,
      DeriveWrite, DeriveFails, DeleteFails, Lapse, Grow, ReportReady,
      SweepSelect, SweepTake, SweepFails, PurgeObjects, PurgeFails

(* What a step may do to an object: keep it, delete it, or create it where *)
(* a ticket, the relay, a report or an export may.                         *)
Keeps(f) ==
    \/ content'[f] = content[f]
    \/ content'[f] = "none"
    \/ f \in Uploads /\ store # "azure" /\ age[f] = "ticket"
    \/ Is(f, "PendingUpload") /\ ~Locked(f)
    \/ Is(f, "None") \/ Is(f, "Gone")

(* Every step treats every object so.                                      *)
LEMMA ObjectSteps ==
    ASSUME TypeOK, ReservedIsFresh, [Next]_vars
    PROVE  \A f \in Files : Keeps(f)
<1> USE DEF objects, clock, tickets, pipeline, generated, letters
<1>1. CASE UNCHANGED content
  BY <1>1 DEF Keeps
<1>2. ASSUME NEW S, DeleteObjects(S) PROVE \A g \in Files : Keeps(g)
  BY <1>2, ObjectsType DEF Keeps
<1>3. ASSUME NEW f \in Uploads, NEW c \in Contents, Upload(f, c) \/ Put(f, c)
      PROVE  \A g \in Files : Keeps(g)
  BY <1>3 DEF Upload, Put, Keeps, TypeOK
<1>4. ASSUME NEW f \in Reports, ReportReady(f) PROVE \A g \in Files : Keeps(g)
  BY <1>4 DEF ReportReady, Keeps, TypeOK
<1>5. ASSUME NEW a \in Exports, HandleExport(a) PROVE \A g \in Files : Keeps(g)
  BY <1>5, <1>1 DEF HandleExport, Keeps, TypeOK, ReservedIsFresh
<1>6. ASSUME NEW f \in Files, Delete(f) PROVE \A g \in Files : Keeps(g)
  BY <1>6, <1>1, <1>2 DEF Delete
<1>7. ASSUME NEW s \in Sweepers, NEW f \in Files, SweepTake(s, f)
      PROVE  \A g \in Files : Keeps(g)
  BY <1>7, <1>1, <1>2 DEF SweepTake
<1>8. CASE PurgeObjects
  BY <1>8, <1>2 DEF PurgeObjects
<1>9. ASSUME NEW f \in Uploads, DeleteFails(f) PROVE \A g \in Files : Keeps(g)
  BY <1>9, <1>2 DEF DeleteFails
<1>10. CASE UNCHANGED vars
  BY <1>10, <1>1 DEF vars
<1> QED
  BY <1>1, <1>3, <1>4, <1>5, <1>6, <1>7, <1>8, <1>9, <1>10
  DEF Next, SweepStep, RequestOrgExport, RequestAuditExport, ExportOrgData,
      ExportAuditTrail, ExportFails, ReplayLetter, DiscardLetter,
      Reserve, Create, Complete, Scan, IgnoredScan,
      IgnoredDerive, DeriveWrite, DeriveCommit, DeriveFails, Restore, Lapse,
      SetHold, Grow, PublishGeneratedFile, SweepSelect, SweepCommit,
      SweepFails, PurgeCommit, PurgeFails

(* A sweep adds a file to those it erases only when it finds it due under  *)
(* its lock, and deletes the object in the same step.                      *)
Takes(s, f) ==
    \/ f \in sweep[s].erased /\ sweep[s].held \subseteq sweep'[s].held
    \/ /\ Due(s, f) /\ content'[f] = "none" /\ f \in sweep'[s].held
       /\ UNCHANGED <<file, store, age>>

(* Every file a sweep is to erase is one it takes so.                       *)
LEMMA SweepSteps ==
    ASSUME TypeOK, [Next]_vars, NEW s \in Sweepers
    PROVE  \A f \in sweep'[s].erased : Takes(s, f)
<1> USE DEF objects, clock, tickets, pipeline, generated, letters
<1>1. CASE UNCHANGED sweep
  BY <1>1 DEF Takes
<1>2. ASSUME NEW t \in Sweepers, SweepSelect(t)
      PROVE  \A f \in sweep'[s].erased : Takes(s, f)
  <2> DEFINE tx == [IdleTx EXCEPT !.busy = TRUE,
                                  !.todo = {f \in Files : Due(t, f)}]
  <2>1. tx.erased = {}
    BY DEF IdleTx
  <2>2. sweep' = [sweep EXCEPT ![t] = tx]
    BY <1>2 DEF SweepSelect
  <2> HIDE DEF tx
  <2> QED BY <2>1, <2>2 DEF TypeOK, Takes
<1>3. ASSUME NEW t \in Sweepers, NEW g \in Files, SweepTake(t, g)
      PROVE  \A f \in sweep'[s].erased : Takes(s, f)
  <2>1. UNCHANGED <<file, store, age>>
    BY <1>3 DEF SweepTake
  <2>2. CASE Due(t, g) /\ DeleteObjects({g}) /\ Take(t, g, TRUE)
    <3>1. content'[g] = "none"
      BY <2>2, ObjectsType
    <3>2. /\ sweep'[t].held = sweep[t].held \cup {g}
          /\ sweep'[t].erased = sweep[t].erased \cup {g}
          /\ \A u \in Sweepers : u # t => sweep'[u] = sweep[u]
      BY <2>2, TakeType
    <3> QED BY <2>1, <2>2, <3>1, <3>2 DEF Takes
  <2>3. CASE Take(t, g, FALSE)
    <3>1. /\ sweep'[t].held = sweep[t].held \cup {g}
          /\ sweep'[t].erased = sweep[t].erased
          /\ \A u \in Sweepers : u # t => sweep'[u] = sweep[u]
      BY <2>3, TakeType
    <3> QED BY <3>1 DEF Takes
  <2> QED BY <1>3, <2>2, <2>3 DEF SweepTake
<1>4. ASSUME NEW t \in Sweepers, SweepCommit(t) \/ SweepFails(t)
      PROVE  \A f \in sweep'[s].erased : Takes(s, f)
  BY <1>4, IdleType DEF SweepCommit, SweepFails, Takes
<1>5. CASE UNCHANGED vars
  BY <1>5, <1>1 DEF vars
<1> QED
  BY <1>1, <1>2, <1>3, <1>4, <1>5
  DEF Next, SweepStep, RequestOrgExport, RequestAuditExport, ExportOrgData,
      ExportAuditTrail, ExportFails, ReplayLetter, DiscardLetter,
      Reserve, HandleExport, Create, Complete, Upload, Put,
      Scan, IgnoredScan, IgnoredDerive, DeriveWrite, DeriveCommit,
      DeriveFails, Delete, DeleteFails, Restore, Lapse, SetHold, Grow,
      ReportReady, PublishGeneratedFile, PurgeObjects, PurgeCommit, PurgeFails

(* The store is fixed, tickets only age, a purge is final and an admission *)
(* is given only to a fresh export while there is none.                    *)
LEMMA OtherSteps ==
    ASSUME TypeOK, [Next]_vars
    PROVE  /\ store' = store
           /\ \A f \in Uploads : age'[f] = "ticket" => age[f] = "ticket"
           /\ Purged => Purged'
           /\ purge' = "done" => \/ UNCHANGED purge
                                 \/ \A f \in Files : file'[f].status \notin Statuses
           /\ \/ reserved' \subseteq reserved
              \/ \E a \in Exports : /\ Is(a, "None") /\ UNCHANGED file
                                    /\ reserved = {} /\ reserved' = {a}
<1> USE DEF objects, clock, tickets, pipeline, generated, letters
<1>1. store' = store
  BY DEF Next, SweepStep, RequestOrgExport, RequestAuditExport, ExportOrgData,
      ExportAuditTrail, ExportFails, ReplayLetter, DiscardLetter,
      Reserve, HandleExport, Create, Complete, Upload, Put,
      Scan, IgnoredScan, IgnoredDerive, DeriveWrite, DeriveCommit,
      DeriveFails, Delete, DeleteFails, Restore, Lapse, SetHold, Grow,
      ReportReady, PublishGeneratedFile, SweepSelect, SweepTake, SweepCommit,
      SweepFails, PurgeObjects, PurgeCommit, PurgeFails, vars
<1>2. ASSUME NEW f \in Uploads, age'[f] = "ticket" PROVE age[f] = "ticket"
  <2>1. ASSUME NEW g \in Uploads, Grow(g) PROVE age[f] = "ticket"
    BY <1>2, <2>1 DEF Grow, TypeOK
  <2>2. CASE UNCHANGED age
    BY <1>2, <2>2
  <2> QED BY <2>1, <2>2
    DEF Next, SweepStep, RequestOrgExport, RequestAuditExport, ExportOrgData,
      ExportAuditTrail, ExportFails, ReplayLetter, DiscardLetter,
      Reserve, HandleExport, Create, Complete, Upload, Put,
      Scan, IgnoredScan, IgnoredDerive, DeriveWrite, DeriveCommit,
      DeriveFails, Delete, DeleteFails, Restore, Lapse, SetHold,
      ReportReady, PublishGeneratedFile, SweepSelect, SweepTake, SweepCommit,
      SweepFails, PurgeObjects, PurgeCommit, PurgeFails, vars
<1>3. \/ UNCHANGED purge
      \/ PurgeObjects \/ PurgeCommit \/ PurgeFails
  BY DEF Next, SweepStep, RequestOrgExport, RequestAuditExport, ExportOrgData,
      ExportAuditTrail, ExportFails, ReplayLetter, DiscardLetter,
      Reserve, HandleExport, Create, Complete, Upload, Put,
      Scan, IgnoredScan, IgnoredDerive, DeriveWrite, DeriveCommit,
      DeriveFails, Delete, DeleteFails, Restore, Lapse, SetHold, Grow,
      ReportReady, PublishGeneratedFile, SweepSelect, SweepTake, SweepCommit,
      SweepFails, vars
<1>4. PurgeCommit => \A f \in Files : file'[f].status \notin Statuses
  <2>1. GoneFile.status \notin Statuses
    BY DEF GoneFile, NoFile, Statuses, Outstanding
  <2> QED BY <2>1 DEF PurgeCommit, Exists
<1>5. \/ UNCHANGED reserved
      \/ PurgeCommit
      \/ \E a \in Exports : Reserve(a) \/ HandleExport(a)
  BY DEF Next, SweepStep, RequestOrgExport, RequestAuditExport, ExportOrgData,
      ExportAuditTrail, ExportFails, ReplayLetter, DiscardLetter,
      Create, Complete, Upload, Put,
      Scan, IgnoredScan, IgnoredDerive, DeriveWrite, DeriveCommit,
      DeriveFails, Delete, DeleteFails, Restore, Lapse, SetHold, Grow,
      ReportReady, PublishGeneratedFile, SweepSelect, SweepTake, SweepCommit,
      SweepFails, PurgeObjects, PurgeFails, vars
<1>6. \/ reserved' \subseteq reserved
      \/ \E a \in Exports : /\ Is(a, "None") /\ UNCHANGED file
                            /\ reserved = {} /\ reserved' = {a}
  BY <1>5 DEF Reserve, HandleExport, PurgeCommit, AdmissionFree
<1>7. Purged => Purged'
  BY <1>3 DEF Purged, PurgeObjects, PurgeCommit, PurgeFails
<1>8. purge' = "done" => \/ UNCHANGED purge
                         \/ \A f \in Files : file'[f].status \notin Statuses
  BY <1>3, <1>4 DEF PurgeObjects, PurgeFails
<1> QED BY <1>1, <1>2, <1>6, <1>7, <1>8

(* An admission is given with its message, and no step takes the message   *)
(* away that does not end the admission or file the message as a letter.   *)
LEMMA AdmissionSteps ==
    ASSUME TypeOK, AdmissionHasWork, [Next]_vars
    PROVE  reserved' \subseteq export' \cup dead' \cup discarded'
<1> USE DEF objects, clock, tickets, pipeline, generated, letters, AdmissionHasWork
<1>1. CASE UNCHANGED <<export, reserved, dead, discarded>>
  BY <1>1
<1>2. ASSUME NEW a \in Exports, Reserve(a)
      PROVE  reserved' \subseteq export' \cup dead' \cup discarded'
  BY <1>2 DEF Reserve
<1>3. ASSUME NEW a \in Exports, HandleExport(a)
      PROVE  reserved' \subseteq export' \cup dead' \cup discarded'
  BY <1>3 DEF HandleExport
<1>4. ASSUME NEW a \in Exports,
             ExportFails(a) \/ ReplayLetter(a) \/ DiscardLetter(a)
      PROVE  reserved' \subseteq export' \cup dead' \cup discarded'
  BY <1>4 DEF ExportFails, ReplayLetter, DiscardLetter
<1>5. CASE PurgeCommit
  BY <1>5 DEF PurgeCommit
<1>6. \/ UNCHANGED <<export, reserved, dead, discarded>>
      \/ PurgeCommit
      \/ \E a \in Exports : \/ Reserve(a) \/ HandleExport(a)
                            \/ ExportFails(a) \/ ReplayLetter(a) \/ DiscardLetter(a)
  BY DEF Next, SweepStep, RequestOrgExport, RequestAuditExport, ExportOrgData,
      ExportAuditTrail, Create, Complete, Upload, Put,
      Scan, IgnoredScan, IgnoredDerive, DeriveWrite, DeriveCommit,
      DeriveFails, Delete, DeleteFails, Restore, Lapse, SetHold, Grow,
      ReportReady, PublishGeneratedFile, SweepSelect, SweepTake, SweepCommit,
      SweepFails, PurgeObjects, PurgeFails, vars
<1> QED BY <1>1, <1>2, <1>3, <1>4, <1>5, <1>6

-----------------------------------------------------------------------------
(* Nothing is there, nothing is reserved and nothing is being erased.      *)
LEMMA InitSafe == Init => Safe
<1> SUFFICES ASSUME Init PROVE Safe
  OBVIOUS
<1>1. TypeOK
  BY InitType
<1>2. \A f \in Files : file[f].status = "None"
  BY DEF Init, NoFile
<1>3. reserved = {} /\ \A s \in Sweepers : sweep[s].erased = {}
  BY DEF Init, IdleTx
<1>4. ReservedIsFresh /\ GoneIsPurged /\ ErasingIsLocked
  BY <1>2, <1>3 DEF ReservedIsFresh, GoneIsPurged, ErasingIsLocked, Is
<1>5. TombsAreSealed
  BY <1>2, <1>3 DEF TombsAreSealed, Is, Erasing
<1>6. NothingGeneratedAfterPurge /\ AdmissionHasWork
  BY <1>2, <1>3 DEF Init, NothingGeneratedAfterPurge, AdmissionHasWork, Purged
<1> QED BY <1>1, <1>4, <1>5, <1>6 DEF Safe

(* The strengthened invariant is inductive.                                *)
LEMMA NextSafe == Safe /\ [Next]_vars => Safe'
<1> SUFFICES ASSUME Safe, [Next]_vars PROVE Safe'
  OBVIOUS
<1>a. /\ TypeOK /\ ReservedIsFresh /\ GoneIsPurged /\ ErasingIsLocked
      /\ TombsAreSealed /\ NothingGeneratedAfterPurge /\ AdmissionHasWork
  BY DEF Safe
<1>b. \A f \in Files : Moves(f) /\ Keeps(f)
  BY <1>a, Lifecycle, ObjectSteps
<1>c. \A s \in Sweepers : \A f \in sweep'[s].erased : Takes(s, f)
  BY <1>a, SweepSteps
<1>d. /\ store' = store
      /\ \A f \in Uploads : age'[f] = "ticket" => age[f] = "ticket"
      /\ Purged => Purged'
      /\ purge' = "done" => \/ UNCHANGED purge
                            \/ \A f \in Files : file'[f].status \notin Statuses
      /\ \/ reserved' \subseteq reserved
         \/ \E a \in Exports : /\ Is(a, "None") /\ UNCHANGED file
                               /\ reserved = {} /\ reserved' = {a}
  BY <1>a, OtherSteps
<1>e. \A s \in Sweepers : sweep[s].erased \subseteq Files
  BY <1>a DEF TypeOK, SweepTx
<1>1. TypeOK'
  BY <1>a, NextType
<1>f. \A s \in Sweepers : sweep'[s].erased \subseteq Files
  BY <1>1 DEF TypeOK, SweepTx
<1>2. ReservedIsFresh'
  <2> SUFFICES ASSUME NEW a \in reserved' PROVE file'[a].status = "None"
    BY DEF ReservedIsFresh, Is
  <2>1. a \in Files /\ a \in Exports /\ a \notin Uploads
    BY <1>1, StoredFilesAssumption DEF TypeOK, Files
  <2>2. file[a].status = "None"
    BY <1>a, <1>d DEF ReservedIsFresh, Is
  <2> QED BY <2>1, <2>2, <1>b DEF Moves, Outstanding, Statuses
<1>3. GoneIsPurged'
  <2> SUFFICES ASSUME NEW f \in Files, file'[f].status = "Gone" PROVE Purged'
    BY DEF GoneIsPurged, Is
  <2>1. CASE file[f].status = "Gone"
    BY <2>1, <1>a, <1>d DEF GoneIsPurged, Is
  <2>2. CASE file[f].status # "Gone"
    BY <2>2, <1>b DEF Moves, Purged
  <2> QED BY <2>1, <2>2
<1>4. ErasingIsLocked'
  <2> SUFFICES ASSUME NEW s \in Sweepers, NEW f \in sweep'[s].erased
               PROVE  f \in sweep'[s].held /\ file'[f].status # "None"
    BY DEF ErasingIsLocked, Is
  <2>1. f \in sweep'[s].held /\ file[f].status # "None"
    BY <1>a, <1>c DEF Takes, ErasingIsLocked, Due, Exists, Is, Statuses,
       Outstanding
  <2> QED BY <2>1, <1>b, <1>f DEF Moves
<1>5. TombsAreSealed'
  <2> SUFFICES ASSUME store # "local", NEW f \in Files,
                      (Is(f, "Erased") \/ Erasing(f))'
               PROVE  /\ content'[f] = "none"
                      /\ f \in Uploads => store = "azure" \/ age'[f] # "ticket"
    BY <1>d DEF TombsAreSealed
  <2>1. CASE Is(f, "Erased") \/ Erasing(f)
    \* sealed before: nothing can create the object
    <3>1. /\ content[f] = "none"
          /\ f \in Uploads => store = "azure" \/ age[f] # "ticket"
      BY <2>1, <1>a DEF TombsAreSealed
    <3>2. Erasing(f) => Locked(f) /\ Exists(f)
      BY <1>a DEF Erasing, ErasingIsLocked, Locked
    <3>3. ~Is(f, "None") /\ ~Is(f, "Gone")
      BY <2>1, <3>2 DEF Is, Exists, Statuses, Outstanding
    <3>4. ~(Is(f, "PendingUpload") /\ ~Locked(f))
      BY <2>1, <3>2 DEF Is
    <3>5. content'[f] = "none"
      BY <3>1, <3>3, <3>4, <1>b DEF Keeps
    <3> QED BY <3>1, <3>5, <1>d
  <2>2. CASE ~Is(f, "Erased") /\ ~Erasing(f) /\ file'[f].status = "Erased"
    \* the user erased it: its ticket is not live
    <3>1. /\ ~TicketLives(f) /\ content'[f] = "none"
          /\ UNCHANGED <<store, age>>
      BY <2>2, <1>b DEF Moves, Is
    <3> QED BY <3>1, <1>a, StoredFilesAssumption DEF TicketLives, TypeOK
  <2>3. CASE ~Erasing(f) /\ Erasing(f)'
    \* a sweep took it, or its row appeared, which an erased file's cannot
    <3>1. PICK s \in Sweepers : f \in sweep'[s].erased
      BY <2>3 DEF Erasing
    <3>2. file'[f].status \in Statuses
      BY <2>3 DEF Erasing, Exists
    <3>3. CASE f \in sweep[s].erased
      <4>1. file[f].status \notin Statuses
        BY <2>3, <3>3 DEF Erasing, Exists
      <4>2. file[f].status # "None"
        BY <3>3, <1>a DEF ErasingIsLocked, Is
      <4>3. file[f].status = "Gone"
        BY <4>1, <4>2, <1>a DEF TypeOK, FileRow
      <4>4. Purged
        BY <4>3, <1>a DEF GoneIsPurged, Is
      <4> QED BY <4>1, <4>3, <4>4, <3>2, <1>b DEF Moves, Outstanding, Statuses
    <3>4. CASE f \notin sweep[s].erased
      <4>1. /\ Due(s, f) /\ content'[f] = "none"
            /\ UNCHANGED <<file, store, age>>
        BY <3>1, <3>4, <1>c DEF Takes
      <4>2. f \in Uploads => store # "s3" \/ age[f] # "ticket"
        BY <4>1 DEF Due, TicketLives
      <4> QED BY <4>1, <4>2, <1>a, StoredFilesAssumption DEF TypeOK
    <3> QED BY <3>3, <3>4
  <2> QED BY <2>1, <2>2, <2>3 DEF Is
<1>6. NothingGeneratedAfterPurge'
  <2> SUFFICES ASSUME purge' = "done", NEW f \in Reports \cup Exports
               PROVE  file'[f].status \notin Statuses
    BY DEF NothingGeneratedAfterPurge, Purged, Exists
  <2>1. f \in Files /\ f \notin Uploads
    BY StoredFilesAssumption DEF Files
  <2>2. CASE UNCHANGED purge
    <3>1. file[f].status \notin Statuses /\ Purged
      BY <2>2, <1>a DEF NothingGeneratedAfterPurge, Purged, Exists
    <3> QED BY <2>1, <3>1, <1>b DEF Moves, Outstanding, Statuses
  <2> QED BY <2>1, <2>2, <1>d
<1>7. AdmissionHasWork'
  BY <1>a, AdmissionSteps DEF AdmissionHasWork
<1> QED BY <1>1, <1>2, <1>3, <1>4, <1>5, <1>6, <1>7 DEF Safe

(* The strengthened invariant holds in every state.                        *)
LEMMA AlwaysSafe == Spec => []Safe
BY InitSafe, NextSafe, PTL DEF Spec

(* Erasure is final for the bytes: whatever tickets, relays, sweeps that   *)
(* fail and redeliveries do afterwards, in S3 and in Azure.                *)
THEOREM ErasureIsFinal == Spec => []ErasedHasNoBytes
<1>1. Safe => ErasedHasNoBytes
  BY DEF Safe, TombsAreSealed, ErasedHasNoBytes
<1> QED BY <1>1, AlwaysSafe, PTL

(* The purge fence holds against publications and exports delivered late.  *)
THEOREM FenceHolds == Spec => []NothingGeneratedAfterPurge
<1>1. Safe => NothingGeneratedAfterPurge
  BY DEF Safe
<1> QED BY <1>1, AlwaysSafe, PTL

(* No admission of a data export outlives its work, unless an operator     *)
(* discarded its dead letter: whatever is delivered again, fails, is       *)
(* replayed or is purged in between.                                       *)
THEOREM AdmissionsHaveWork == Spec => []AdmissionHasWork
<1>1. Safe => AdmissionHasWork
  BY DEF Safe
<1> QED BY <1>1, AlwaysSafe, PTL

(* No step makes a refused or an erased file downloadable.                 *)
THEOREM VerdictsAreFinal == Spec => VerdictIsFinal
<1>1. Safe /\ [Next]_vars =>
        [\A f \in Files :
           /\ Is(f, "Quarantined") =>
                 file'[f].status \in {"Quarantined", "Erased", "Gone"}
           /\ Is(f, "Erased") => file'[f].status \in {"Erased", "Gone"}]_vars
  <2> SUFFICES ASSUME Safe, [Next]_vars, NEW f \in Files
               PROVE  /\ Is(f, "Quarantined") =>
                            file'[f].status \in {"Quarantined", "Erased", "Gone"}
                      /\ Is(f, "Erased") => file'[f].status \in {"Erased", "Gone"}
    OBVIOUS
  <2>1. Moves(f)
    BY Lifecycle DEF Safe
  <2> QED BY <2>1 DEF Moves, Is, Outstanding
<1> QED BY <1>1, AlwaysSafe, PTL DEF Spec, VerdictIsFinal

(* No step but the purge deletes the object of a held file.                *)
THEOREM HoldsAreKept == Spec => HeldIsKept
<1>1. ASSUME TypeOK, [Next]_vars, NEW f \in Files,
             file[f].hold, content[f] # "none", content'[f] = "none"
      PROVE  purge' # purge
  <2> USE DEF objects, clock, tickets, pipeline, generated, letters
  <2>1. ~UNCHANGED content
    BY <1>1
  <2>2. ASSUME NEW S, DeleteObjects(S) PROVE f \in S
    BY <1>1, <2>2, ObjectsType
  <2>3. ASSUME NEW g \in Files, Delete(g) PROVE FALSE
    <3>1. ~file[g].hold /\ DeleteObjects({g})
      BY <2>1, <2>3 DEF Delete
    <3> QED BY <3>1, <2>2, <1>1
  <2>4. ASSUME NEW g \in Uploads, DeleteFails(g) PROVE FALSE
    BY <1>1, <2>2, <2>4 DEF DeleteFails
  <2>5. ASSUME NEW s \in Sweepers, NEW g \in Files, SweepTake(s, g) PROVE FALSE
    <3>1. ~file[g].hold /\ DeleteObjects({g})
      BY <2>1, <2>5 DEF SweepTake, Due
    <3> QED BY <3>1, <2>2, <1>1
  <2>6. ASSUME NEW g \in Uploads, NEW c \in Contents, Upload(g, c) \/ Put(g, c)
        PROVE  FALSE
    BY <1>1, <2>6 DEF Upload, Put, TypeOK
  <2>7. ASSUME NEW g \in Reports, ReportReady(g) PROVE FALSE
    BY <1>1, <2>7 DEF ReportReady, TypeOK
  <2>8. ASSUME NEW a \in Exports, HandleExport(a) PROVE FALSE
    BY <1>1, <2>8 DEF HandleExport, TypeOK
  <2>9. CASE PurgeObjects
    BY <2>9 DEF PurgeObjects
  <2> QED
    BY <1>1, <2>1, <2>3, <2>4, <2>5, <2>6, <2>7, <2>8, <2>9
    DEF Next, SweepStep, RequestOrgExport, RequestAuditExport, ExportOrgData,
        ExportAuditTrail, ExportFails, ReplayLetter, DiscardLetter,
      Reserve, Create, Complete, Scan, IgnoredScan,
        IgnoredDerive, DeriveWrite, DeriveCommit, DeriveFails, Restore,
        Lapse, SetHold, Grow, PublishGeneratedFile, SweepSelect, SweepCommit,
        SweepFails, PurgeCommit, PurgeFails, vars
<1>2. TypeOK /\ [Next]_vars =>
        [\A f \in Files : /\ file[f].hold
                          /\ content[f] # "none" /\ content'[f] = "none"
                          => purge' # purge]_vars
  BY <1>1
<1> QED BY <1>2, TypeCorrect, PTL DEF Spec, HeldIsKept

-----------------------------------------------------------------------------
(* The upload budget.                                                      *)

(* What the admission counts, as the property states it.                   *)
LEMMA InFlightIs ==
    OutstandingWithinBudget <=>
        Cardinality(InFlight) <= MaxFiles /\ Cardinality(BytesOf(InFlight)) <= MaxBytes
BY DEF OutstandingWithinBudget, InFlight, TotalSize

(* The bytes of one upload.                                                *)
LEMMA BytesOfOne ==
    ASSUME NEW f \in Uploads
    PROVE  IsFiniteSet({f} \X (1 .. Size[f])) /\ Cardinality({f} \X (1 .. Size[f])) = Size[f]
<1>1. Size[f] \in Nat /\ Size[f] > 0
  BY StoredFilesAssumption
<1>2. IsFiniteSet({f}) /\ Cardinality({f}) = 1
  BY FS_Singleton
<1>3. IsFiniteSet(1 .. Size[f]) /\ Cardinality(1 .. Size[f]) = Size[f]
  <2>1. PICK n \in Int : n = Size[f]
    BY <1>1
  <2>2. 1 \in Int /\ ~(1 > n) /\ n - 1 + 1 = n
    BY <1>1, <2>1
  <2>3. IsFiniteSet(1 .. n) /\ Cardinality(1 .. n) = IF 1 > n THEN 0 ELSE n - 1 + 1
    BY <2>2, FS_Interval
  <2> QED BY <2>1, <2>2, <2>3
<1>4. /\ IsFiniteSet({f} \X (1 .. Size[f]))
      /\ Cardinality({f} \X (1 .. Size[f])) = Cardinality({f}) * Cardinality(1 .. Size[f])
  BY <1>2, <1>3, FS_Product
<1> QED BY <1>1, <1>2, <1>3, <1>4

(* One more upload adds its declared size.                                 *)
LEMMA BytesAdd ==
    ASSUME NEW S \in SUBSET Uploads, NEW f \in Uploads, f \notin S, IsFiniteSet(BytesOf(S))
    PROVE  /\ IsFiniteSet(BytesOf(S \cup {f}))
           /\ Cardinality(BytesOf(S \cup {f})) = Cardinality(BytesOf(S)) + Size[f]
<1> DEFINE one == {f} \X (1 .. Size[f])
<1>1. IsFiniteSet(one) /\ Cardinality(one) = Size[f]
  BY BytesOfOne
<1>2. BytesOf(S \cup {f}) = BytesOf(S) \cup one
  BY DEF BytesOf
<1>3. BytesOf(S) \cap one = {}
  BY DEF BytesOf
<1> HIDE DEF one
<1>4. Cardinality(BytesOf(S)) \in Nat /\ Size[f] \in Nat
  BY FS_CardinalityType, StoredFilesAssumption
<1>5. Cardinality(BytesOf(S) \cap one) = 0
  BY <1>3, FS_EmptySet
<1>6. /\ IsFiniteSet(BytesOf(S) \cup one)
      /\ Cardinality(BytesOf(S) \cup one) =
            Cardinality(BytesOf(S)) + Cardinality(one) - Cardinality(BytesOf(S) \cap one)
  BY <1>1, FS_Union
<1>7. PICK a \in Nat, b \in Nat : a = Cardinality(BytesOf(S)) /\ b = Size[f]
  BY <1>4
<1>8. Cardinality(BytesOf(S) \cup one) = a + b - 0
  BY <1>1, <1>5, <1>6, <1>7
<1>9. a + b - 0 = a + b
  OBVIOUS
<1> QED BY <1>2, <1>6, <1>7, <1>8, <1>9

(* The inductive invariant: the sums are those of finite sets.             *)
Budgeted ==
    /\ IsFiniteSet(BytesOf(InFlight))
    /\ OutstandingWithinBudget

(* No upload is outstanding at the start.                                   *)
LEMMA InitBudget == Init => Budgeted
<1> SUFFICES ASSUME Init PROVE Budgeted
  OBVIOUS
<1>1. InFlight = {}
  BY DEF Init, InFlight, NoFile, Outstanding, Files
<1>2. BytesOf(InFlight) = {}
  BY <1>1 DEF BytesOf
<1>3. MaxFiles >= 0 /\ MaxBytes >= 0
  BY StoredFilesAssumption
<1> QED BY <1>1, <1>2, <1>3, FS_EmptySet, InFlightIs DEF Budgeted

(* Only an admission adds to what is counted.                              *)
LEMMA NextBudget == Safe /\ Budgeted /\ [Next]_vars => Budgeted'
<1> SUFFICES ASSUME Safe, Budgeted, [Next]_vars PROVE Budgeted'
  OBVIOUS
<1>0. TypeOK /\ Uploads \subseteq Files /\ \A f \in Files : Moves(f)
  BY Lifecycle DEF Safe, Files
<1>1. IsFiniteSet(InFlight) /\ InFlight \in SUBSET Uploads
  BY StoredFilesAssumption, FS_Subset DEF InFlight
<1>2. Cardinality(InFlight) \in Nat /\ Cardinality(BytesOf(InFlight)) \in Nat
  BY <1>1, FS_CardinalityType DEF Budgeted
<1>3. ASSUME NEW f \in Uploads, Create(f) PROVE Budgeted'
  <2>1. f \notin InFlight
    BY <1>3 DEF Create, Is, InFlight, Outstanding
  <2>2. InFlight' = InFlight \cup {f}
    BY <1>0, <1>3, StatusType DEF Create, InFlight, Outstanding, Statuses
  <2>3. HasUploadRoom(f)
    BY <1>3 DEF Create
  <2>4. Cardinality(InFlight') <= MaxFiles
    <3>1. Cardinality(InFlight \cup {f}) = Cardinality(InFlight) + 1
      BY <1>1, <2>1, FS_AddElement
    <3> QED BY <1>2, <2>2, <2>3, <3>1, StoredFilesAssumption DEF HasUploadRoom
  <2>5. /\ IsFiniteSet(BytesOf(InFlight'))
        /\ Cardinality(BytesOf(InFlight')) = Cardinality(BytesOf(InFlight)) + Size[f]
    BY <1>1, <2>1, <2>2, BytesAdd DEF Budgeted
  <2>6. Cardinality(BytesOf(InFlight')) <= MaxBytes
    BY <2>3, <2>5 DEF HasUploadRoom, TotalSize
  <2>7. BytesOf(InFlight)' = BytesOf(InFlight')
    BY DEF BytesOf
  <2> QED BY <2>4, <2>5, <2>6, <2>7 DEF Budgeted, OutstandingWithinBudget, InFlight, TotalSize
<1>4. ASSUME \A f \in Uploads : ~Create(f) PROVE Budgeted'
  <2>1. InFlight' \subseteq InFlight
    BY <1>0, <1>4 DEF InFlight, Moves, Outstanding, Statuses
  <2>2. BytesOf(InFlight') \in SUBSET BytesOf(InFlight)
    BY <2>1 DEF BytesOf
  <2>3. Cardinality(InFlight') <= Cardinality(InFlight) /\ IsFiniteSet(InFlight')
    BY <1>1, <2>1, FS_Subset
  <2>4. /\ IsFiniteSet(BytesOf(InFlight'))
        /\ Cardinality(BytesOf(InFlight')) <= Cardinality(BytesOf(InFlight))
    BY <2>2, FS_Subset DEF Budgeted
  <2>5. /\ Cardinality(InFlight') \in Nat /\ Cardinality(BytesOf(InFlight')) \in Nat
        /\ MaxFiles \in Nat /\ MaxBytes \in Nat
    BY <2>3, <2>4, FS_CardinalityType, StoredFilesAssumption
  <2>6. Cardinality(InFlight') <= MaxFiles /\ Cardinality(BytesOf(InFlight')) <= MaxBytes
    BY <1>2, <2>3, <2>4, <2>5, InFlightIs DEF Budgeted
  <2>7. BytesOf(InFlight)' = BytesOf(InFlight')
    BY DEF BytesOf
  <2> QED BY <2>4, <2>6, <2>7 DEF Budgeted, OutstandingWithinBudget, InFlight, TotalSize
<1> QED BY <1>3, <1>4

(* Admission by count and by declared bytes is never exceeded, although    *)
(* scans, deletes and sweeps move rows without the admission lock.         *)
THEOREM UploadsStayWithinBudget == Spec => []OutstandingWithinBudget
<1>1. Budgeted => OutstandingWithinBudget
  BY DEF Budgeted
<1> QED BY <1>1, InitBudget, NextBudget, AlwaysSafe, PTL DEF Spec
=============================================================================
