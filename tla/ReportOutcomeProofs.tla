------------------------ MODULE ReportOutcomeProofs ------------------------
(***************************************************************************)
(* Theorems about what the runs of Reporting leave behind: every item, its *)
(* quota unit, its PDFs and its job agree, whatever crashes, stalls,       *)
(* retries, sweeps and a purge come between, and Reporting implements      *)
(* ReportLedger.  Then about the objects it writes: the bundle a download  *)
(* hands out is complete and current, and, as long as no process outlives  *)
(* its lease while it writes, no object is without the row that lets the   *)
(* sweep find it and no two runs write for the same job.                   *)
(***************************************************************************)
EXTENDS ReportingProofs

-----------------------------------------------------------------------------
(* What each step does to the job rows, field by field *)

\* The rows of all jobs but j keep every field a guard compares.
Others(j) ==
    \A h \in Jobs : h # j => job'[h] = job[h]

(* Submitting queues the job.                                              *)
LEMMA SubmitJob ==
    ASSUME TypeInv, NEW j \in Jobs, Submit(j)
    PROVE  /\ Others(j)
           /\ job[j].state = "None"
           /\ job'[j].state = "Queued" /\ job'[j].owner = job[j].owner
           /\ job'[j].retention = job[j].retention
           /\ job'[j].revision = job[j].revision /\ job'[j].leased = job[j].leased
BY DEF Submit, TypeInv, TypeOK, Job, Others

(* Canceling leaves the lease to the run that holds it.                    *)
LEMMA CancelJob ==
    ASSUME TypeInv, NEW j \in Jobs, Cancel(j)
    PROVE  /\ Others(j)
           /\ Live(j)
           /\ job'[j].state = "Canceled" /\ job'[j].owner = job[j].owner
           /\ job'[j].retention
                = IF job[j].retention = "unset" THEN "kept" ELSE job[j].retention
           /\ job'[j].revision = job[j].revision + 1
           /\ job'[j].leased = job[j].leased
<1> DEFINE row == [job[j] EXCEPT !.revision = @ + 1]
<1>1. row \in Job /\ job[j] \in Job
  BY DEF TypeInv, TypeOK, Job
<1>2. /\ row.owner = job[j].owner /\ row.leased = job[j].leased
      /\ row.retention = job[j].retention /\ row.revision = job[j].revision + 1
  BY <1>1 DEF Job
<1>3. job' = [job EXCEPT ![j] = Finished("Canceled", row)]
  BY DEF Cancel
<1> HIDE DEF row
<1>4. /\ Finished("Canceled", row).state = "Canceled"
      /\ Finished("Canceled", row).owner = row.owner
      /\ Finished("Canceled", row).leased = row.leased
      /\ Finished("Canceled", row).revision = row.revision
      /\ Finished("Canceled", row).retention
            = IF row.retention = "unset" THEN "kept" ELSE row.retention
  BY <1>1 DEF Finished, Job
<1>5. Others(j) /\ job'[j] = Finished("Canceled", row) /\ Live(j)
  BY <1>3 DEF TypeInv, TypeOK, Others, Cancel
<1> QED BY <1>2, <1>4, <1>5

(* Retrying queues the job under a new revision and takes it from its run. *)
LEMMA RetryJob ==
    ASSUME TypeInv, NEW j \in Jobs, Retry(j)
    PROVE  /\ Others(j)
           /\ job[j].state \in {"Failed", "CompletedWithErrors"} /\ ~Expired(j)
           /\ job'[j].state = "Queued" /\ job'[j].owner = None
           /\ job'[j].retention = job[j].retention
           /\ job'[j].revision = job[j].revision + 1 /\ job'[j].leased = FALSE
<1> DEFINE row == [job[j] EXCEPT !.state = "Queued", !.revision = job[j].revision + 1,
                                 !.owner = None, !.leased = FALSE]
<1>1. job[j] \in Job
  BY DEF TypeInv, TypeOK
<1>2. job' = [job EXCEPT ![j] = row]
  BY DEF Retry, TypeInv, TypeOK
<1>3. /\ row.state = "Queued" /\ row.owner = None /\ row.leased = FALSE
      /\ row.retention = job[j].retention /\ row.revision = job[j].revision + 1
  BY <1>1 DEF Job
<1> HIDE DEF row
<1> QED BY <1>2, <1>3 DEF Retry, TypeInv, TypeOK, Others

(* A claim gives the job to a run that has done nothing yet.               *)
LEMMA ClaimJob ==
    ASSUME TypeInv, NEW j \in Jobs, Claim(j)
    PROVE  \E r \in Runs :
               /\ run[r].pc = "new"
               /\ run' = [run EXCEPT ![r].pc = "load", ![r].job = j]
               /\ Others(j)
               /\ Claimable(j) /\ ~InTx(j)
               /\ job'[j].state = "Running" /\ job'[j].owner = r
               /\ job'[j].retention = job[j].retention
               /\ job'[j].revision = job[j].revision /\ job'[j].leased = TRUE
<1> DEFINE r == Fresh
<1>1. r \in Runs /\ run[r].pc = "new"
  BY DEF Claim, Fresh
<1>2. /\ run' = [run EXCEPT ![r].pc = "load", ![r].job = j]
      /\ job' = [job EXCEPT ![j].state = "Running", ![j].owner = r, ![j].leased = TRUE]
      /\ Claimable(j) /\ ~InTx(j)
  BY DEF Claim
<1> HIDE DEF r
<1>3. /\ Others(j)
      /\ job'[j].state = "Running" /\ job'[j].owner = r
      /\ job'[j].retention = job[j].retention
      /\ job'[j].revision = job[j].revision /\ job'[j].leased = TRUE
  BY <1>2 DEF TypeInv, TypeOK, Job, Others
<1> QED BY <1>1, <1>2, <1>3

\* Every field but the lease is kept.
SameButLease(h) ==
    /\ job'[h].state = job[h].state /\ job'[h].owner = job[h].owner
    /\ job'[h].retention = job[h].retention /\ job'[h].revision = job[h].revision

(* Renewing or losing a lease changes nothing else.                        *)
LEMMA LeaseJob ==
    ASSUME TypeInv,
           \/ \E j \in Jobs : LeaseLapses(j) \/ Stall(j)
           \/ \E r \in Runs : Start(r) \/ StartBundle(r)
    PROVE  \A h \in Jobs : SameButLease(h)
<1>0. job \in [Jobs -> Job]
  BY DEF TypeInv, TypeOK
<1>1. ASSUME NEW j \in Jobs, LeaseLapses(j) \/ Stall(j)
      PROVE  \A h \in Jobs : SameButLease(h)
  BY <1>0, <1>1 DEF LeaseLapses, Stall, Job, SameButLease
<1>2. ASSUME NEW r \in Runs, Start(r) \/ StartBundle(r)
      PROVE  \A h \in Jobs : SameButLease(h)
  <2>1. job' = [job EXCEPT ![run[r].job].leased = TRUE]
    BY <1>2 DEF Start, StartBundle, Intend
  <2> QED BY <1>0, <2>1 DEF Job, SameButLease
<1> QED BY <1>1, <1>2

(* Time moves the retention of one job on.                                 *)
LEMMA RetentionJob ==
    ASSUME TypeInv, NEW j \in Jobs, RetentionPasses(j)
    PROVE  /\ Others(j)
           /\ job'[j].state = job[j].state /\ job'[j].owner = job[j].owner
           /\ job'[j].retention \in {"expired", "forgotten"}
           /\ job'[j].revision = job[j].revision /\ job'[j].leased = job[j].leased
BY DEF RetentionPasses, TypeInv, TypeOK, Job, Others

(* A run that finishes gives the job the verdict it reached.               *)
LEMMA FinishJob ==
    ASSUME TypeInv, NEW r \in Runs, Finish(r)
    PROVE  /\ run[r].job \in Jobs /\ Owns(r) /\ ~InTx(run[r].job)
           /\ Others(run[r].job)
           /\ job'[run[r].job].state \in {"Completed", "CompletedWithErrors", "Failed"}
           /\ job'[run[r].job].owner = job[run[r].job].owner
           /\ job'[run[r].job].retention
                = IF job[run[r].job].retention = "unset" THEN "kept"
                  ELSE job[run[r].job].retention
           /\ job'[run[r].job].revision = job[run[r].job].revision
           /\ job'[run[r].job].leased = job[run[r].job].leased
<1> DEFINE j == run[r].job
           v == run[r].verdict
<1>1. j \in Jobs /\ v \in {"Completed", "CompletedWithErrors", "Failed"}
  BY DEF Finish, TypeInv, TypeOK, LocalsOK, Run
<1>2. job[j] \in Job
  BY <1>1 DEF TypeInv, TypeOK
<1>3. job' = [job EXCEPT ![j] = Finished(v, job[j])] /\ Owns(r) /\ ~InTx(j)
  BY DEF Finish
<1> HIDE DEF j, v
<1>4. /\ Finished(v, job[j]).state = v
      /\ Finished(v, job[j]).owner = job[j].owner
      /\ Finished(v, job[j]).leased = job[j].leased
      /\ Finished(v, job[j]).revision = job[j].revision
      /\ Finished(v, job[j]).retention
            = IF job[j].retention = "unset" THEN "kept" ELSE job[j].retention
  BY <1>2 DEF Finished, Job
<1>5. Others(j) /\ job'[j] = Finished(v, job[j])
  BY <1>1, <1>3 DEF TypeInv, TypeOK, Others
<1>6. /\ j \in Jobs /\ Owns(r) /\ ~InTx(j) /\ Others(j)
      /\ job'[j].state \in {"Completed", "CompletedWithErrors", "Failed"}
      /\ job'[j].owner = job[j].owner
      /\ job'[j].retention
            = IF job[j].retention = "unset" THEN "kept" ELSE job[j].retention
      /\ job'[j].revision = job[j].revision
      /\ job'[j].leased = job[j].leased
  BY <1>1, <1>3, <1>4, <1>5
<1> QED BY <1>6 DEF j

(* A run that lets go of its job leaves state, revision and retention.     *)
LEMMA ReleaseJob ==
    ASSUME TypeInv, NEW r \in Runs, Release(r)
    PROVE  /\ run[r].job \in Jobs /\ ~InTx(run[r].job)
           /\ \A h \in Jobs :
                 /\ job'[h].state = job[h].state
                 /\ job'[h].retention = job[h].retention
                 /\ job'[h].revision = job[h].revision
                 /\ \/ job'[h] = job[h]
                    \/ h = run[r].job /\ job[h].owner = r /\ job'[h].owner = None
<1> DEFINE j == run[r].job
<1>1. j \in Jobs /\ ~InTx(j)
  BY DEF Release, TypeInv, LocalsOK
<1>2. \/ job' = job
      \/ /\ job[j].owner = r
         /\ job' = [job EXCEPT ![j].owner = None, ![j].leased = FALSE]
  BY DEF Release
<1>3. job \in [Jobs -> Job]
  BY DEF TypeInv, TypeOK
<1> HIDE DEF j
<1>4. \A h \in Jobs :
         /\ job'[h].state = job[h].state
         /\ job'[h].retention = job[h].retention
         /\ job'[h].revision = job[h].revision
         /\ \/ job'[h] = job[h]
            \/ h = j /\ job[h].owner = r /\ job'[h].owner = None
  BY <1>1, <1>2, <1>3 DEF Job
<1> QED BY <1>1, <1>4 DEF j

(* The sweep ends a live job and takes it from its run.                    *)
LEMMA ExpireJob ==
    ASSUME TypeInv, NEW s \in Sweeps, SweepExpire(s), sweep[s].job \in Jobs
    PROVE  LET j == sweep[s].job IN
           /\ Others(j)
           /\ Exists(j) /\ ~job[j].leased /\ ~InTx(j)
           /\ job'[j].state = IF Live(j) THEN "Expired" ELSE job[j].state
           /\ job'[j].owner = None /\ job'[j].leased = FALSE
           /\ job'[j].retention = job[j].retention
           /\ job'[j].revision \in {job[j].revision, job[j].revision + 1}
<1> DEFINE j == sweep[s].job
           n == IF job[j].revision < MaxRevision
                THEN job[j].revision + 1 ELSE job[j].revision
           st == IF Live(j) THEN "Expired" ELSE job[j].state
           row == [job[j] EXCEPT !.state = st, !.revision = n,
                                 !.owner = None, !.leased = FALSE]
<1>1. job' = [job EXCEPT ![j] = row]
  BY DEF SweepExpire, TypeInv, TypeOK
<1>2. job[j] \in Job /\ Exists(j) /\ ~job[j].leased /\ ~InTx(j)
  BY DEF SweepExpire, TypeInv, TypeOK
<1>3. n \in {job[j].revision, job[j].revision + 1}
  OBVIOUS
<1> HIDE DEF n, st
<1>4. /\ row.state = st /\ row.revision = n /\ row.owner = None
      /\ row.leased = FALSE /\ row.retention = job[j].retention
  BY <1>2 DEF Job
<1>5. Others(j) /\ job'[j] = row
  BY <1>1 DEF Others, TypeInv, TypeOK
<1> QED BY <1>2, <1>3, <1>4, <1>5 DEF st

(* Forgetting removes the row of a job without a Ready PDF, or nothing.    *)
LEMMA ForgetJob ==
    ASSUME TypeInv, NEW s \in Sweeps, SweepForget(s), sweep[s].job \in Jobs
    PROVE  LET j == sweep[s].job IN
           \/ UNCHANGED <<job, item, art>>
           \/ /\ Others(j)
              /\ ReadyPdfs(j) = {}
              /\ job'[j].state = "Gone" /\ job'[j].owner = None
              /\ job'[j].retention = job[j].retention
              /\ job'[j].revision = job[j].revision
              /\ item' = [i \in Items |-> IF JobOf[i] = j THEN "None" ELSE item[i]]
              /\ art' = [k \in Keys |-> IF k \in KeysOf(j) THEN NoRow ELSE art[k]]
<1> DEFINE j == sweep[s].job
           row == [job[j] EXCEPT !.state = "Gone", !.owner = None, !.leased = FALSE]
<1>1. \/ UNCHANGED <<job, item, art>>
      \/ /\ job' = [job EXCEPT ![j] = row]
         /\ ReadyPdfs(j) = {}
         /\ item' = [i \in Items |-> IF JobOf[i] = j THEN "None" ELSE item[i]]
         /\ art' = [k \in Keys |-> IF k \in KeysOf(j) THEN NoRow ELSE art[k]]
  BY DEF SweepForget, TypeInv, TypeOK
<1>2. job[j] \in Job
  BY DEF TypeInv, TypeOK
<1>3. /\ row.state = "Gone" /\ row.owner = None
      /\ row.retention = job[j].retention /\ row.revision = job[j].revision
  BY <1>2 DEF Job
<1> HIDE DEF row
<1>4. job' = [job EXCEPT ![j] = row] => Others(j) /\ job'[j] = row
  BY DEF Others, TypeInv, TypeOK
<1> QED BY <1>1, <1>3, <1>4

(* The purge marks every job that exists and keeps its lease.              *)
LEMMA PurgeJob ==
    ASSUME TypeInv, PurgeOrg, NEW h \in Jobs
    PROVE  \/ ~Exists(h) /\ job'[h] = job[h]
           \/ /\ Exists(h) /\ job'[h].state = "Purging"
              /\ job'[h].owner = job[h].owner /\ job'[h].leased = job[h].leased
              /\ job'[h].retention = "forgotten"
              /\ job'[h].revision = job[h].revision + 1
<1> DEFINE n == job[h].revision + 1
           row == [job[h] EXCEPT !.state = "Purging", !.revision = n,
                                 !.retention = "forgotten"]
<1>1. job[h] \in Job
  BY DEF TypeInv, TypeOK
<1>2. job'[h] = IF Exists(h) THEN row ELSE job[h]
  BY DEF PurgeOrg
<1> HIDE DEF n
<1>3. /\ row.state = "Purging" /\ row.owner = job[h].owner
      /\ row.leased = job[h].leased /\ row.retention = "forgotten" /\ row.revision = n
  BY <1>1 DEF Job
<1> HIDE DEF row
<1> QED BY <1>2, <1>3 DEF n

(* No other step touches a job row.                                        *)
LEMMA OtherSteps ==
    ASSUME \/ \E j \in Jobs : IgnoredDelivery(j) \/ SweepResume(j)
           \/ \E r \in Runs :
                 \/ Load(r) \/ PickItem(r) \/ PickNone(r) \/ Render(r) \/ Settle(r)
                 \/ SettleCommit(r) \/ WriteZip(r) \/ BundleFails(r) \/ ZipReady(r)
                 \/ ZipCommit(r) \/ LostOwnership(r) \/ Crash(r) \/ Abort(r)
           \/ \E k \in Keys : FilePublished(k)
           \/ \E s \in Sweeps :
                 \/ SweepSkip(s) \/ SweepCollect(s) \/ SweepDelete(s) \/ SweepRows(s)
                 \/ SweepFails(s) \/ \E j \in Jobs : SweepRead(s, j)
           \/ NextMonth
    PROVE  job' = job
BY DEF IgnoredDelivery, SweepResume, Load, PickItem, PickNone, Render, Settle,
       SettleCommit, WriteZip, BundleFails, ZipReady, ZipCommit, LostOwnership, Crash,
       Abort, FilePublished, SweepSkip, SweepCollect, SweepDelete, SweepRows,
       SweepFails, SweepRead, NextMonth

-----------------------------------------------------------------------------
(* The inductive invariant, by what it speaks of *)

\* The run holds the job: the half of Owns that does not need what it read.
Has(r) == job[run[r].job].state = "Running" /\ job[run[r].job].owner = r

\* A job that has not been purged, and one whose runs are over.
InForce(j) == Exists(j) /\ job[j].state # "Purging"
Over(j) == job[j].state \in {"Completed", "CompletedWithErrors", "Failed"}

\* An item that is still to be produced.
Open(i) == item[i] \in {"Queued", "Running"}

\* The labels of a run between two items, inside one, and after the last.
Between == {"load", "pick", "start", "bundle", "zip", "zipready", "zipping",
            "finish"}
Inside == {"render", "settle", "settling"}
After == {"bundle", "zip", "zipready", "zipping", "finish"}

\* An item, its quota unit and its job agree.
UnitOK(i) ==
    /\ entry[i].charge = "reserved" => Live(JobOf[i]) /\ Open(i)
    /\ Live(JobOf[i]) /\ Open(i) => entry[i].charge = "reserved"
    /\ InForce(JobOf[i]) => (item[i] = "Succeeded" <=> entry[i].charge = "consumed")
    /\ Over(JobOf[i]) => ~Open(i)
    /\ job[JobOf[i]].state = "Purging" => entry[i].charge = "none"

\* The item has a Ready PDF; it has no two.
HasPdf(i) == \E k \in Keys : k[2] = i /\ Ready(k)
OnePdf(i) == \A k, l \in Keys : k[2] = i /\ l[2] = i /\ Ready(k) /\ Ready(l) => k = l

PdfOK(i) ==
    /\ HasPdf(i) => job[JobOf[i]].state # "None"
    /\ InForce(JobOf[i]) => (HasPdf(i) <=> item[i] = "Succeeded") /\ OnePdf(i)

\* What a run knows of its item is so while it holds the job.
Knows(r) ==
    /\ run[r].pc = "start" => item[run[r].part] = "Queued"
    /\ run[r].pc \in Inside => item[run[r].part] = "Running"
    /\ run[r].pc \in Between => \A i \in ItemsOf(run[r].job) : item[i] # "Running"
    /\ run[r].pc \in Inside =>
          \A i \in ItemsOf(run[r].job) : item[i] = "Running" => i = run[r].part
    /\ run[r].pc \in After => \A i \in ItemsOf(run[r].job) : item[i] # "Queued"

RunOK(r) ==
    /\ run[r].pc \in {"start"} \cup Inside => JobOf[run[r].part] = run[r].job
    /\ run[r].pc = "settling" => Has(r) \/ job[run[r].job].state = "Purging"
    /\ run[r].pc # "new" /\ Has(r) => Knows(r)

\* A row belongs to the job of the run that wrote it.
RowOK(k) ==
    art[k].state # "none" =>
        run[k[1]].pc # "new" /\ (k[2] \in Items => JobOf[k[2]] = run[k[1]].job)

JobOK(j) == job[j].state = "Purging" => Closed /\ Expired(j)

\* Nobody runs the job any more, or ever will.
Abandoned(j) ==
    /\ Expired(j) /\ ~Live(j) /\ ~InTx(j)
    /\ job[j].owner = None /\ job[j].state # "None"

\* A sweep past its read has a job whose retention is over, and past its expiry
\* one that nobody runs; it collects what is no PDF, unless it purges.
SweepOK(s) ==
    sweep[s].pc # "idle" =>
        /\ sweep[s].job \in Jobs
        /\ Expired(sweep[s].job) /\ job[sweep[s].job].state # "None"
        /\ sweep[s].purging => Closed /\ ~InForce(sweep[s].job)
        /\ sweep[s].pc # "expire" => Abandoned(sweep[s].job)
        /\ sweep[s].pc = "delete" => \A k \in sweep[s].keys :
              /\ run[k[1]].pc # "new" /\ run[k[1]].job = sweep[s].job
              /\ sweep[s].purging \/ k[2] = Bundle \/ ~Ready(k)

Outcome ==
    /\ \A i \in Items : UnitOK(i) /\ PdfOK(i)
    /\ \A r \in Runs : RunOK(r)
    /\ \A k \in Keys : RowOK(k)
    /\ \A j \in Jobs : JobOK(j)
    /\ \A s \in Sweeps : SweepOK(s)

-----------------------------------------------------------------------------
(* What no step takes back *)

(* The states a job may go through, as far as the sweeps rely on them.     *)
LEMMA JobsGoOn ==
    ASSUME TypeInv, Next, \A s \in Sweeps : SweepOK(s), NEW j \in Jobs
    PROVE  /\ Expired(j) => job'[j].retention \in {"expired", "forgotten"}
           /\ job[j].state # "None" => job'[j].state # "None"
           /\ job[j].state \in {"Purging", "Gone"} => job'[j].state \in {"Purging", "Gone"}
           /\ Expired(j) /\ ~Live(j) /\ job[j].owner = None /\ job[j].state # "None"
                => job'[j].state \notin {"Queued", "Running"} /\ job'[j].owner = None
           /\ purges' \in {purges, purges + 1}
           /\ job'[j].state = "Purging" =>
                 \/ job[j].state = "Purging"
                 \/ purges' = purges + 1 /\ job'[j].retention = "forgotten"
<1> DEFINE P == /\ Expired(j) => job'[j].retention \in {"expired", "forgotten"}
                /\ job[j].state # "None" => job'[j].state # "None"
                /\ job[j].state \in {"Purging", "Gone"} => job'[j].state \in {"Purging", "Gone"}
                /\ Expired(j) /\ ~Live(j) /\ job[j].owner = None /\ job[j].state # "None"
                     => job'[j].state \notin {"Queued", "Running"} /\ job'[j].owner = None
           Q == /\ purges' \in {purges, purges + 1}
                /\ job'[j].state = "Purging" =>
                      \/ job[j].state = "Purging"
                      \/ purges' = purges + 1 /\ job'[j].retention = "forgotten"
<1>0. job[j].retention \in Retentions /\ job[j].state \in JobStates \cup {"None", "Gone"}
  BY DEF TypeInv, TypeOK, Job
<1>1. ASSUME NEW i \in Jobs, Submit(i) PROVE P /\ Q
  BY <1>1, SubmitJob DEF Others, Submit, world, Live, Expired
<1>2. ASSUME NEW i \in Jobs, Cancel(i) PROVE P /\ Q
  BY <1>2, CancelJob DEF Others, Cancel, world, Live, Expired
<1>3. ASSUME NEW i \in Jobs, Retry(i) PROVE P /\ Q
  BY <1>3, RetryJob DEF Others, Retry, world, Live, Expired
<1>4. ASSUME NEW i \in Jobs, Claim(i) PROVE P /\ Q
  BY <1>4, ClaimJob DEF Others, Claim, world, Live, Claimable, Expired
<1>5. ASSUME \A h \in Jobs : SameButLease(h), purges' = purges PROVE P /\ Q
  BY <1>5 DEF SameButLease, Live, Expired
<1>6. ASSUME NEW i \in Jobs, RetentionPasses(i) PROVE P /\ Q
  BY <1>6, RetentionJob DEF Others, RetentionPasses, world, Live, Expired
<1>7. ASSUME NEW r \in Runs, Finish(r) PROVE P /\ Q
  BY <1>7, FinishJob DEF Others, Finish, world, Live, Expired, Owns
<1>8. ASSUME NEW r \in Runs, Release(r) PROVE P /\ Q
  BY <1>8, ReleaseJob DEF Release, world, Live, Expired
<1>9. ASSUME NEW s \in Sweeps, SweepExpire(s) PROVE P /\ Q
  <2>1. sweep[s].job \in Jobs
    BY <1>9 DEF SweepExpire, SweepOK
  <2>2. purges' = purges
    BY <1>9 DEF SweepExpire, world
  <2> QED BY <1>9, <2>1, <2>2, ExpireJob DEF Others, Live, Expired
<1>10. ASSUME NEW s \in Sweeps, SweepForget(s) PROVE P /\ Q
  <2>1. sweep[s].job \in Jobs
    BY <1>10 DEF SweepForget, SweepOK
  <2> QED BY <1>10, <2>1, ForgetJob DEF Others, SweepForget, world, Live, Expired
<1>11. ASSUME PurgeOrg PROVE P /\ Q
  BY <1>11, PurgeJob, <1>0 DEF PurgeOrg, Live, Expired, Exists, JobStates
<1>12. ASSUME job' = job, purges' = purges PROVE P /\ Q
  BY <1>12 DEF Live, Expired
<1>13. ASSUME NEW r \in Runs, Start(r) \/ StartBundle(r) PROVE P /\ Q
  <2>1. \A h \in Jobs : SameButLease(h)
    BY <1>13, LeaseJob
  <2> QED BY <1>13, <2>1, <1>5 DEF Start, StartBundle, world
<1>14. ASSUME NEW i \in Jobs, LeaseLapses(i) \/ Stall(i) PROVE P /\ Q
  <2>1. \A h \in Jobs : SameButLease(h)
    BY <1>14, LeaseJob
  <2> QED BY <1>14, <2>1, <1>5 DEF LeaseLapses, Stall, world
<1>15. ASSUME NEW i \in Jobs, IgnoredDelivery(i) \/ SweepResume(i) PROVE P /\ Q
  BY <1>15, <1>12 DEF IgnoredDelivery, SweepResume, world
<1>16. ASSUME NEW r \in Runs,
              \/ Load(r) \/ PickItem(r) \/ PickNone(r) \/ Render(r) \/ Settle(r)
              \/ SettleCommit(r) \/ WriteZip(r) \/ BundleFails(r) \/ ZipReady(r)
              \/ ZipCommit(r) \/ LostOwnership(r) \/ Crash(r) \/ Abort(r)
       PROVE  P /\ Q
  BY <1>16, <1>12 DEF Load, PickItem, PickNone, Render, Settle, SettleCommit, WriteZip,
     BundleFails, ZipReady, ZipCommit, LostOwnership, Crash, Abort, world
<1>17. ASSUME NEW s \in Sweeps,
              \/ SweepSkip(s) \/ SweepCollect(s) \/ SweepDelete(s) \/ SweepRows(s)
              \/ SweepFails(s) \/ \E i \in Jobs : SweepRead(s, i)
       PROVE  P /\ Q
  BY <1>17, <1>12 DEF SweepSkip, SweepCollect, SweepDelete, SweepRows, SweepFails,
     SweepRead, world
<1>18. ASSUME (\E k \in Keys : FilePublished(k)) \/ NextMonth PROVE P /\ Q
  BY <1>18, <1>12 DEF FilePublished, NextMonth, world
<1> HIDE DEF P, Q
<1>19. P /\ Q
  BY <1>1, <1>2, <1>3, <1>4, <1>6, <1>7, <1>8, <1>9, <1>10, <1>11, <1>13, <1>14, <1>15,
     <1>16, <1>17, <1>18 DEF Next, RunStep, SweepStep
<1> QED BY <1>19 DEF P, Q

(* A run keeps its job, and opens a transaction on it only as its owner.   *)
LEMMA RunsGoOn ==
    ASSUME TypeInv, Next, NEW q \in Runs
    PROVE  /\ run[q].pc # "new" => run'[q].pc # "new" /\ run'[q].job = run[q].job
           /\ run'[q].pc \in {"settling", "zipping"} =>
                 run[q].pc # "new" /\ (run'[q] = run[q] \/ Owns(q))
<1> DEFINE P == /\ run[q].pc # "new" => run'[q].pc # "new" /\ run'[q].job = run[q].job
                /\ run'[q].pc \in {"settling", "zipping"} =>
                      run[q].pc # "new" /\ (run'[q] = run[q] \/ Owns(q))
<1>0. run \in [Runs -> Run] /\ run[q] \in Run
      /\ (run[q].pc = "new" => run[q].pc \notin {"settling", "zipping"})
  BY DEF TypeInv, TypeOK
<1>1. ASSUME NEW i \in Jobs, Claim(i) PROVE P
  <2>1. PICK r \in Runs : run[r].pc = "new" /\ run' = [run EXCEPT ![r].pc = "load", ![r].job = i]
    BY <1>1, ClaimJob
  <2>2. q # r => run'[q] = run[q]
    BY <2>1, <1>0
  <2>3. q = r => run'[q].pc = "load"
    BY <2>1, <1>0 DEF Run
  <2> QED BY <2>1, <2>2, <2>3
<1>2. ASSUME NEW r \in Runs, Load(r) PROVE P
  <2>1. run[r].pc = "load"
    BY <1>2 DEF Load
  <2>2. CASE run' = [run EXCEPT ![r].pc = "pick", ![r].rev = job[run[r].job].revision]
    BY <2>1, <2>2, <1>0 DEF Run
  <2>3. CASE Leave(r, "release")
    BY <2>1, <2>3, <1>0, LeaveType DEF TypeInv, RunLabels
  <2> QED BY <1>2, <2>2, <2>3 DEF Load
<1>3. ASSUME NEW r \in Runs, PickItem(r) PROVE P
  <2>1. PICK i \in ItemsOf(run[r].job) : run' = [run EXCEPT ![r].pc = "start", ![r].part = i]
    BY <1>3 DEF PickItem
  <2> QED BY <1>3, <2>1, <1>0 DEF PickItem, Run
<1>4. ASSUME NEW r \in Runs, PickNone(r) PROVE P
  <2>1. PICK label \in {"bundle", "finish"} : \E good, pdfs, v :
           run' = [run EXCEPT ![r].pc = label, ![r].part = Bundle, ![r].good = good,
                              ![r].pdfs = pdfs, ![r].verdict = v]
    BY <1>4 DEF PickNone
  <2>2. q # r => run'[q] = run[q]
    BY <2>1, <1>0
  <2>3. q = r => run'[q].pc = label /\ run'[q].job = run[q].job
    BY <2>1, <1>0 DEF Run
  <2> QED BY <1>4, <2>1, <2>2, <2>3 DEF PickNone
<1>5. ASSUME NEW r \in Runs, Start(r) \/ Settle(r) \/ StartBundle(r) \/ WriteZip(r) \/ ZipReady(r)
      PROVE  P
  <2>1. /\ run[r].pc # "new"
        /\ \E label \in {"render", "settling", "zip", "zipready", "zipping", "finish"} :
              Goto(r, label) /\ (label \in {"settling", "zipping"} => Owns(r))
    BY <1>5 DEF Start, Settle, StartBundle, WriteZip, ZipReady
  <2>2. PICK label \in {"render", "settling", "zip", "zipready", "zipping", "finish"} :
           Goto(r, label) /\ (label \in {"settling", "zipping"} => Owns(r))
    BY <2>1
  <2>3. q # r => run'[q] = run[q]
    BY <2>2, <1>0 DEF Goto
  <2>4. q = r => run'[q].pc = label /\ run'[q].job = run[q].job
    BY <2>2, <1>0 DEF Goto, Run
  <2> QED BY <2>1, <2>2, <2>3, <2>4
<1>6. ASSUME NEW r \in Runs, Render(r) PROVE P
  <2>1. PICK ok \in BOOLEAN : run' = [run EXCEPT ![r].pc = "settle", ![r].ok = ok]
    BY <1>6 DEF Render
  <2> QED BY <1>6, <2>1, <1>0 DEF Render, Run
<1>7. ASSUME NEW r \in Runs, BundleFails(r) \/ ZipCommit(r) PROVE P
  <2>1. PICK v : run' = [run EXCEPT ![r].pc = "finish", ![r].verdict = v]
    BY <1>7 DEF BundleFails, ZipCommit
  <2>2. run[r].pc # "new"
    BY <1>7 DEF BundleFails, ZipCommit
  <2> QED BY <2>1, <2>2, <1>0 DEF Run
<1>8. ASSUME NEW r \in Runs,
             SettleCommit(r) \/ Finish(r) \/ LostOwnership(r) \/ Release(r) \/ Crash(r) \/ Abort(r)
      PROVE  P
  <2>1. /\ run[r].pc # "new"
        /\ \E label \in {"load", "release", "done"} : Leave(r, label)
    BY <1>8 DEF SettleCommit, Finish, LostOwnership, Release, Crash, Abort, Active
  <2>2. PICK label \in {"load", "release", "done"} : Leave(r, label)
    BY <2>1
  <2> QED BY <2>1, <2>2, LeaveType DEF TypeInv, RunLabels
<1>9. ASSUME run' = run PROVE P
  BY <1>9, <1>0
<1>10. ASSUME NEW i \in Jobs,
              \/ Submit(i) \/ Cancel(i) \/ Retry(i) \/ IgnoredDelivery(i) \/ SweepResume(i)
              \/ LeaseLapses(i) \/ Stall(i) \/ RetentionPasses(i)
       PROVE  P
  BY <1>10, <1>9 DEF Submit, Cancel, Retry, IgnoredDelivery, SweepResume, LeaseLapses, Stall,
     RetentionPasses
<1>11. ASSUME NEW s \in Sweeps,
              SweepStep(s) \/ SweepFails(s) \/ \E i \in Jobs : SweepRead(s, i)
       PROVE  P
  BY <1>11, <1>9 DEF SweepStep, SweepExpire, SweepForget, SweepSkip, SweepCollect, SweepDelete,
     SweepRows, SweepFails, SweepRead
<1>12. ASSUME (\E k \in Keys : FilePublished(k)) \/ NextMonth \/ PurgeOrg PROVE P
  BY <1>12, <1>9 DEF FilePublished, NextMonth, PurgeOrg
<1> HIDE DEF P
<1>13. P
  BY <1>1, <1>2, <1>3, <1>4, <1>5, <1>6, <1>7, <1>8, <1>10, <1>11, <1>12 DEF Next, RunStep
<1> QED BY <1>13 DEF P

(* The intended key is a row before its bytes.                             *)
LEMMA IntendArt ==
    ASSUME TypeInv, NEW r \in Runs, NEW of \in SUBSET Keys, Intend(r, of), Key(r) \in Keys
    PROVE  /\ \A k \in Keys : k # Key(r) => art'[k] = art[k]
           /\ art'[Key(r)].state = "pending" /\ art'[Key(r)].rev = run[r].rev
           /\ art'[Key(r)].of = of
<1> DEFINE row == [state |-> "pending", rev |-> run[r].rev, of |-> of]
<1>1. art \in [Keys -> Row] /\ art' = [art EXCEPT ![Key(r)] = row]
  BY DEF TypeInv, TypeOK, Intend
<1>2. row.state = "pending" /\ row.rev = run[r].rev /\ row.of = of
  OBVIOUS
<1> HIDE DEF row
<1> QED BY <1>1, <1>2

(* A committed key is Ready with what was intended.                        *)
LEMMA ReadyArt ==
    ASSUME TypeInv, NEW r \in Runs, Key(r) \in Keys,
           art' = [art EXCEPT ![Key(r)].state = "ready"]
    PROVE  /\ \A k \in Keys : k # Key(r) => art'[k] = art[k]
           /\ art'[Key(r)].state = "ready" /\ art'[Key(r)].rev = art[Key(r)].rev
           /\ art'[Key(r)].of = art[Key(r)].of
BY DEF TypeInv, TypeOK, Row

(* Publishing marks a PDF that is Ready.                                   *)
LEMMA FiledArt ==
    ASSUME TypeInv, NEW f \in Keys, FilePublished(f), NEW k \in Keys
    PROVE  /\ Ready(k)' <=> Ready(k)
           /\ art'[k].state \in {"none", "pending"} => art'[k].state = art[k].state
           /\ art[k].state \in {"none", "pending"} => art'[k].state = art[k].state
           /\ art'[k].rev = art[k].rev /\ art'[k].of = art[k].of
<1>1. art \in [Keys -> Row] /\ art[k] \in Row
  BY DEF TypeInv, TypeOK
<1>2. CASE art' = art
  BY <1>2, <1>1 DEF Ready, Row
<1>3. CASE art' = [art EXCEPT ![f].state = IF Ready(f) THEN "filed" ELSE @]
  BY <1>3, <1>1 DEF Ready, Row
<1> QED BY <1>2, <1>3 DEF FilePublished

(* A row appears when its run intends it and becomes Ready when its run    *)
(* commits it.                                                             *)
LEMMA ArtsGoOn ==
    ASSUME TypeInv, Next, NEW k \in Keys
    PROVE  /\ Ready(k)' => Ready(k) \/ run[k[1]].pc \in {"settling", "zipping"}
           /\ art'[k].state # "none" =>
                 \/ art[k].state # "none"
                 \/ run[k[1]].pc \in {"start", "settling", "bundle", "zipping"} /\ k = Key(k[1])
<1> DEFINE P == /\ Ready(k)' => Ready(k) \/ run[k[1]].pc \in {"settling", "zipping"}
                /\ art'[k].state # "none" =>
                      \/ art[k].state # "none"
                      \/ run[k[1]].pc \in {"start", "settling", "bundle", "zipping"} /\ k = Key(k[1])
<1>0. art \in [Keys -> Row]
  BY DEF TypeInv, TypeOK
<1>a. \A r \in Runs : Key(r)[1] = r
  BY DEF Key
<1>1. ASSUME NEW r \in Runs, Start(r) \/ StartBundle(r) PROVE P
  <2>1. Key(r) \in Keys /\ run[r].pc \in {"start", "bundle"}
    BY <1>1, KeyType DEF Start, StartBundle
  <2>2. PICK of \in SUBSET Keys : Intend(r, of)
    BY <1>1 DEF Start, StartBundle, TypeInv, TypeOK, Run
  <2> QED BY <2>1, <2>2, IntendArt, <1>a DEF Ready
<1>2. ASSUME NEW r \in Runs, SettleCommit(r) \/ ZipCommit(r) PROVE P
  <2>1. Key(r) \in Keys /\ run[r].pc \in {"settling", "zipping"}
    BY <1>2, KeyType DEF SettleCommit, ZipCommit
  <2>2. art' = art \/ art' = [art EXCEPT ![Key(r)].state = "ready"]
    BY <1>2 DEF SettleCommit, ZipCommit
  <2> QED BY <2>1, <2>2, ReadyArt, <1>a DEF Ready
<1>3. ASSUME NEW f \in Keys, FilePublished(f) PROVE P
  BY <1>3, FiledArt
<1>4. ASSUME NEW s \in Sweeps, SweepRows(s) \/ SweepForget(s) PROVE P
  <2>1. art'[k] \in {art[k], NoRow}
    BY <1>4, <1>0 DEF SweepRows, SweepForget
  <2> QED BY <2>1 DEF NoRow, Ready
<1>5. ASSUME art' = art PROVE P
  BY <1>5 DEF Ready
<1>6. ASSUME NEW i \in Jobs,
              \/ Submit(i) \/ Cancel(i) \/ Retry(i) \/ Claim(i) \/ IgnoredDelivery(i)
              \/ SweepResume(i) \/ LeaseLapses(i) \/ Stall(i) \/ RetentionPasses(i)
      PROVE  P
  BY <1>6, <1>5 DEF Submit, Cancel, Retry, Claim, IgnoredDelivery, SweepResume, LeaseLapses,
     Stall, RetentionPasses, rows
<1>7. ASSUME NEW r \in Runs,
             \/ Load(r) \/ PickItem(r) \/ PickNone(r) \/ Render(r) \/ Settle(r)
             \/ WriteZip(r) \/ BundleFails(r) \/ ZipReady(r) \/ Finish(r)
             \/ LostOwnership(r) \/ Release(r) \/ Crash(r) \/ Abort(r)
      PROVE  P
  BY <1>7, <1>5 DEF Load, PickItem, PickNone, Render, Settle, WriteZip, BundleFails, ZipReady,
     Finish, LostOwnership, Release, Crash, Abort, rows
<1>8. ASSUME NEW s \in Sweeps,
             \/ SweepExpire(s) \/ SweepSkip(s) \/ SweepCollect(s) \/ SweepDelete(s)
             \/ SweepFails(s) \/ \E i \in Jobs : SweepRead(s, i)
      PROVE  P
  BY <1>8, <1>5 DEF SweepExpire, SweepSkip, SweepCollect, SweepDelete, SweepFails, SweepRead, rows
<1>9. ASSUME NextMonth \/ PurgeOrg PROVE P
  BY <1>9, <1>5 DEF NextMonth, PurgeOrg, rows
<1> HIDE DEF P
<1>10. P
  BY <1>1, <1>2, <1>3, <1>4, <1>6, <1>7, <1>8, <1>9 DEF Next, RunStep, SweepStep
<1> QED BY <1>10 DEF P

(* Rows stay with the job of their run.                                    *)
LEMMA RowStep ==
    ASSUME TypeInv, Next, NEW k \in Keys, RowOK(k), \A r \in Runs : RunOK(r)
    PROVE  RowOK(k)'
<1>0. k[1] \in Runs
  BY DEF Keys
<1>1. run[k[1]].pc # "new" => run'[k[1]].pc # "new" /\ run'[k[1]].job = run[k[1]].job
  BY <1>0, RunsGoOn
<1>2. art'[k].state # "none" =>
         \/ art[k].state # "none"
         \/ run[k[1]].pc \in {"start", "settling", "bundle", "zipping"} /\ k = Key(k[1])
  BY ArtsGoOn
<1>3. ASSUME run[k[1]].pc \in {"start", "settling", "bundle", "zipping"}, k = Key(k[1]), k[2] \in Items
      PROVE  JobOf[k[2]] = run[k[1]].job
  <2>1. k[2] = run[k[1]].part
    BY <1>3 DEF Key
  <2>2. run[k[1]].pc \in {"start", "settling"}
    BY <1>0, <1>3, <2>1, ConstantsAssumption DEF TypeInv, LocalsOK
  <2> QED BY <1>0, <2>1, <2>2 DEF RunOK, Inside
<1> QED BY <1>1, <1>2, <1>3 DEF RowOK

(* A job nobody runs stays so.                                             *)
LEMMA AbandonedStays ==
    ASSUME TypeInv, Next, \A s \in Sweeps : SweepOK(s), NEW j \in Jobs, Abandoned(j)
    PROVE  Abandoned(j)'
<1>1. /\ job'[j].retention \in {"expired", "forgotten"} /\ job'[j].state # "None"
      /\ job'[j].state \notin {"Queued", "Running"} /\ job'[j].owner = None
  BY JobsGoOn DEF Abandoned
<1>2. ~InTx(j)'
  <2> SUFFICES ASSUME NEW q \in Runs, run'[q].job = j, run'[q].pc \in {"settling", "zipping"}
               PROVE  FALSE
    BY DEF InTx
  <2>1. run[q].pc # "new" /\ run'[q].job = run[q].job /\ (run'[q] = run[q] \/ Owns(q))
    BY RunsGoOn
  <2>2. ~Owns(q)
    BY <2>1, ConstantsAssumption DEF Owns, Abandoned
  <2> QED BY <2>1, <2>2 DEF Abandoned, InTx
<1> QED BY <1>1, <1>2 DEF Abandoned, Expired, Live

(* Jobs are purged by the purge only.                                      *)
LEMMA JobStep ==
    ASSUME TypeInv, Next, \A s \in Sweeps : SweepOK(s), NEW j \in Jobs, JobOK(j)
    PROVE  JobOK(j)'
<1>1. purges \in Nat
  BY ConstantsAssumption DEF TypeInv, TypeOK
<1> QED BY <1>1, JobsGoOn DEF JobOK, Closed, Expired

(* A sweep that does nothing can rely on what it knows.                    *)
LEMMA SweepFrame ==
    ASSUME TypeInv, Next, \A s \in Sweeps : SweepOK(s), NEW s \in Sweeps, sweep[s].pc # "idle",
           NEW keys \in SUBSET Keys, NEW purging \in BOOLEAN,
           purging => Closed /\ ~InForce(sweep[s].job),
           sweep[s].pc # "expire",
           \A k \in keys :
              /\ run[k[1]].pc # "new" /\ run[k[1]].job = sweep[s].job
              /\ purging \/ k[2] = Bundle \/ ~Ready(k)
    PROVE  \A k \in keys :
              /\ run'[k[1]].pc # "new" /\ run'[k[1]].job = sweep[s].job
              /\ purging \/ k[2] = Bundle \/ ~Ready(k)'
<1> SUFFICES ASSUME NEW k \in keys
             PROVE  /\ run'[k[1]].pc # "new" /\ run'[k[1]].job = sweep[s].job
                    /\ ~Ready(k) => ~Ready(k)'
  OBVIOUS
<1>1. k \in Keys /\ k[1] \in Runs
  BY DEF Keys
<1>2. run[k[1]].pc # "new" /\ run[k[1]].job = sweep[s].job
  OBVIOUS
<1>3. ~InTx(sweep[s].job)
  BY DEF SweepOK, Abandoned
<1> QED BY <1>1, <1>2, <1>3, RunsGoOn, ArtsGoOn DEF InTx

(* What a sweep knows of a job past its expiry, after any step.            *)
LEMMA SweepKnows ==
    ASSUME TypeInv, Next, \A s \in Sweeps : SweepOK(s), NEW s \in Sweeps, sweep[s].pc # "idle",
           NEW j \in Jobs, j = sweep[s].job
    PROVE  /\ Expired(j)' /\ job'[j].state # "None"
           /\ sweep[s].purging => Closed' /\ ~InForce(j)'
           /\ sweep[s].pc # "expire" => Abandoned(j)'
<1>2. /\ Expired(j) /\ job[j].state # "None"
      /\ sweep[s].purging => Closed /\ ~InForce(j)
      /\ sweep[s].pc # "expire" => Abandoned(j)
  BY DEF SweepOK
<1>3. Expired(j)' /\ job'[j].state # "None"
  BY <1>2, JobsGoOn DEF Expired
<1>4. purges \in Nat /\ job[j].state \in JobStates \cup {"None", "Gone"}
  BY ConstantsAssumption DEF TypeInv, TypeOK, Job
<1>5. ASSUME sweep[s].purging PROVE Closed' /\ ~InForce(j)'
  <2>1. job[j].state \in {"Purging", "Gone"}
    BY <1>2, <1>4, <1>5 DEF InForce, Exists
  <2>2. job'[j].state \in {"Purging", "Gone"}
    BY <2>1, JobsGoOn
  <2>3. Closed'
    BY <1>2, <1>4, <1>5, JobsGoOn DEF Closed
  <2> QED BY <2>2, <2>3 DEF InForce, Exists, JobStates
<1>6. sweep[s].pc # "expire" => Abandoned(j)'
  BY <1>2, AbandonedStays
<1> QED BY <1>3, <1>5, <1>6

(* Sweeps keep to what they know.                                          *)
LEMMA SweepsStep ==
    ASSUME TypeInv, Next, Outcome, NEW s \in Sweeps
    PROVE  SweepOK(s)'
<1>0. /\ \A t \in Sweeps : SweepOK(t)
      /\ \A k \in Keys : RowOK(k)
      /\ sweep \in [Sweeps -> Sweep] /\ sweep[s] \in Sweep
  BY DEF Outcome, TypeInv, TypeOK
<1> DEFINE Same == /\ sweep'[s].job = sweep[s].job /\ sweep'[s].purging = sweep[s].purging
                   /\ sweep'[s].keys = sweep[s].keys
<1>1. ASSUME sweep[s].pc # "idle", Same,
             \/ sweep'[s].pc = sweep[s].pc
             \/ sweep[s].pc = "delete" /\ sweep'[s].pc = "row"
      PROVE  SweepOK(s)'
  <2>1. PICK j \in Jobs : j = sweep[s].job
    BY <1>0, <1>1 DEF SweepOK
  <2>2. /\ Expired(j)' /\ job'[j].state # "None"
        /\ sweep[s].purging => Closed' /\ ~InForce(j)'
        /\ sweep[s].pc # "expire" => Abandoned(j)'
    BY <1>0, <1>1, <2>1, SweepKnows
  <2>3. sweep[s].pc = "delete" => \A k \in sweep[s].keys :
              /\ run'[k[1]].pc # "new" /\ run'[k[1]].job = j
              /\ sweep[s].purging \/ k[2] = Bundle \/ ~Ready(k)'
    BY <1>0, <1>1, <2>1, SweepFrame DEF SweepOK, Sweep
  <2>4. sweep'[s].job = j /\ (sweep'[s].purging <=> sweep[s].purging) /\ sweep'[s].keys = sweep[s].keys
    BY <1>1, <2>1
  <2> QED BY <1>1, <2>2, <2>3, <2>4 DEF SweepOK
<1>2. ASSUME sweep'[s].pc = "idle" PROVE SweepOK(s)'
  BY <1>2 DEF SweepOK
<1> HIDE DEF Same
<1>3. ASSUME sweep'[s] = sweep[s] PROVE SweepOK(s)'
  <2>1. CASE sweep[s].pc = "idle"
    BY <1>2, <1>3, <2>1
  <2>2. CASE sweep[s].pc # "idle"
    <3>1. Same /\ sweep'[s].pc = sweep[s].pc
      BY <1>3 DEF Same
    <3> QED BY <1>1, <2>2, <3>1
  <2> QED BY <2>1, <2>2
<1>4. ASSUME NEW j \in Jobs, SweepRead(s, j) PROVE SweepOK(s)'
  <2>1. /\ sweep'[s].job = j /\ sweep'[s].pc = "expire"
        /\ sweep'[s].purging => job[j].state = "Purging"
    BY <1>0, <1>4 DEF SweepRead, Sweep
  <2>2. Exists(j) /\ Expired(j) /\ (job[j].state = "Purging" => Closed)
    BY <1>4 DEF SweepRead, Selected, Outcome, JobOK
  <2>3. job' = job /\ purges' = purges
    BY <1>4 DEF SweepRead, world
  <2> QED BY <2>1, <2>2, <2>3 DEF SweepOK, InForce, Exists, JobStates, Expired, Closed
<1>5. ASSUME SweepExpire(s) PROVE SweepOK(s)'
  <2>1. PICK j \in Jobs : j = sweep[s].job
    BY <1>0, <1>5 DEF SweepOK, SweepExpire
  <2>2. /\ Expired(j)' /\ job'[j].state # "None"
        /\ sweep[s].purging => Closed' /\ ~InForce(j)'
    BY <1>0, <1>5, <2>1, SweepKnows DEF SweepExpire
  <2>3. /\ job'[j].state = IF Live(j) THEN "Expired" ELSE job[j].state
        /\ job'[j].owner = None /\ ~InTx(j)
    BY <1>5, <2>1, ExpireJob
  <2>4. run' = run /\ sweep' = [sweep EXCEPT ![s].pc = "collect"]
    BY <1>5 DEF SweepExpire
  <2>5. Abandoned(j)'
    BY <2>2, <2>3, <2>4 DEF Abandoned, Live, InTx
  <2>6. /\ sweep'[s].pc = "collect" /\ sweep'[s].job = j
        /\ sweep'[s].purging = sweep[s].purging
    BY <1>0, <2>1, <2>4 DEF Sweep
  <2> QED BY <2>2, <2>5, <2>6 DEF SweepOK
<1>6. ASSUME SweepCollect(s) PROVE SweepOK(s)'
  <2>1. PICK j \in Jobs : j = sweep[s].job
    BY <1>0, <1>6 DEF SweepOK, SweepCollect
  <2>2. /\ Expired(j)' /\ job'[j].state # "None"
        /\ sweep[s].purging => Closed' /\ ~InForce(j)'
        /\ Abandoned(j)'
    BY <1>0, <1>6, <2>1, SweepKnows DEF SweepCollect
  <2> DEFINE keys == {k \in KeysOf(j) : sweep[s].purging \/ Disposable(k)}
  <2>3. run' = run /\ art' = art /\ sweep' = [sweep EXCEPT ![s].pc = "delete", ![s].keys = keys, ![s].todo = keys]
    BY <1>6, <2>1 DEF SweepCollect, rows
  <2>4. \A k \in keys :
           /\ run[k[1]].pc # "new" /\ run[k[1]].job = j
           /\ sweep[s].purging \/ k[2] = Bundle \/ ~Ready(k)
    BY <1>0 DEF KeysOf, RowOK, Disposable, Ready
  <2> HIDE DEF keys
  <2>5. /\ sweep'[s].pc = "delete" /\ sweep'[s].job = j /\ sweep'[s].keys = keys
        /\ sweep'[s].purging = sweep[s].purging
    BY <1>0, <2>1, <2>3 DEF Sweep
  <2> QED BY <2>2, <2>3, <2>4, <2>5 DEF SweepOK, Ready
<1>7. ASSUME SweepDelete(s) \/ SweepRows(s) PROVE SweepOK(s)'
  <2>1. /\ sweep[s].pc = "delete"
        /\ \/ \E todo : sweep' = [sweep EXCEPT ![s].todo = todo]
           \/ sweep' = [sweep EXCEPT ![s].pc = "row"]
    BY <1>7 DEF SweepDelete, SweepRows
  <2>2. Same /\ (sweep'[s].pc = sweep[s].pc \/ sweep'[s].pc = "row")
    BY <1>0, <2>1 DEF Sweep, Same
  <2> QED BY <2>1, <2>2, <1>1
<1>8. ASSUME SweepSkip(s) \/ SweepForget(s) \/ SweepFails(s) PROVE SweepOK(s)'
  BY <1>0, <1>2, <1>8 DEF SweepSkip, SweepForget, SweepFails, IdleSweep
<1>9. ASSUME NEW t \in Sweeps, t # s,
             SweepStep(t) \/ SweepFails(t) \/ \E i \in Jobs : SweepRead(t, i)
      PROVE  SweepOK(s)'
  <2>1. sweep'[s] = sweep[s]
    BY <1>0, <1>9 DEF SweepStep, SweepExpire, SweepForget, SweepSkip, SweepCollect, SweepDelete,
       SweepRows, SweepFails, SweepRead
  <2> QED BY <1>3, <2>1
<1>10. ASSUME NEW i \in Jobs,
              \/ Submit(i) \/ Cancel(i) \/ Retry(i) \/ Claim(i) \/ IgnoredDelivery(i)
              \/ SweepResume(i) \/ LeaseLapses(i) \/ Stall(i) \/ RetentionPasses(i)
       PROVE  SweepOK(s)'
  BY <1>10, <1>3 DEF Submit, Cancel, Retry, Claim, IgnoredDelivery, SweepResume, LeaseLapses,
     Stall, RetentionPasses
<1>11. ASSUME NEW r \in Runs, RunStep(r) \/ Crash(r) \/ Abort(r) PROVE SweepOK(s)'
  BY <1>11, <1>3 DEF RunStep, Load, PickItem, PickNone, Start, Render, Settle, SettleCommit,
     StartBundle, WriteZip, BundleFails, ZipReady, ZipCommit, Finish, LostOwnership, Release,
     Crash, Abort
<1>12. ASSUME (\E k \in Keys : FilePublished(k)) \/ NextMonth \/ PurgeOrg PROVE SweepOK(s)'
  BY <1>12, <1>3 DEF FilePublished, NextMonth, PurgeOrg
<1> QED BY <1>4, <1>5, <1>6, <1>7, <1>8, <1>9, <1>10, <1>11, <1>12 DEF Next, SweepStep

-----------------------------------------------------------------------------
(* Runs *)

(* The rows a transaction under way relies on change by the purge only.    *)
LEMMA TxKeeps ==
    ASSUME TypeInv, Next, Outcome, NEW q \in Runs, run[q].pc \in {"settling", "zipping"},
           NEW j \in Jobs, j = run[q].job, job[j].state # "None"
    PROVE  \/ job'[j].state = job[j].state /\ job'[j].owner = job[j].owner
           \/ job'[j].state = "Purging"
<1> DEFINE P == \/ job'[j].state = job[j].state /\ job'[j].owner = job[j].owner
                \/ job'[j].state = "Purging"
<1>0. InTx(j) /\ job \in [Jobs -> Job]
  BY DEF InTx, TypeInv, TypeOK
<1>1. ASSUME NEW i \in Jobs, Submit(i) PROVE P
  BY <1>1, SubmitJob DEF Others
<1>2. ASSUME NEW i \in Jobs, Cancel(i) PROVE P
  BY <1>0, <1>2, CancelJob DEF Others, Cancel
<1>3. ASSUME NEW i \in Jobs, Retry(i) PROVE P
  BY <1>0, <1>3, RetryJob DEF Others, Retry
<1>4. ASSUME NEW i \in Jobs, Claim(i) PROVE P
  BY <1>0, <1>4, ClaimJob DEF Others
<1>5. ASSUME NEW i \in Jobs, LeaseLapses(i) \/ Stall(i) PROVE P
  BY <1>5, LeaseJob DEF SameButLease
<1>6. ASSUME NEW i \in Jobs, RetentionPasses(i) PROVE P
  BY <1>6, RetentionJob DEF Others
<1>7. ASSUME NEW r \in Runs, Start(r) \/ StartBundle(r) PROVE P
  BY <1>7, LeaseJob DEF SameButLease
<1>8. ASSUME NEW r \in Runs, Finish(r) PROVE P
  BY <1>0, <1>8, FinishJob DEF Others
<1>9. ASSUME NEW r \in Runs, Release(r) PROVE P
  BY <1>0, <1>9, ReleaseJob
<1>10. ASSUME NEW s \in Sweeps, SweepExpire(s) PROVE P
  <2>1. sweep[s].job \in Jobs
    BY <1>10 DEF SweepExpire, SweepOK, Outcome
  <2> QED BY <1>0, <1>10, <2>1, ExpireJob DEF Others
<1>11. ASSUME NEW s \in Sweeps, SweepForget(s) PROVE P
  <2>1. sweep[s].job \in Jobs /\ ~InTx(sweep[s].job)
    BY <1>11 DEF SweepForget, SweepOK, Outcome, Abandoned
  <2> QED BY <1>0, <1>11, <2>1, ForgetJob DEF Others
<1>12. ASSUME PurgeOrg PROVE P
  BY <1>12, PurgeJob
<1>13. ASSUME job' = job PROVE P
  BY <1>13
<1> HIDE DEF P
<1> QED
  <2>1. P
    BY <1>1, <1>2, <1>3, <1>4, <1>5, <1>6, <1>7, <1>8, <1>9, <1>10, <1>11, <1>12, <1>13, OtherSteps
       DEF Next, RunStep, SweepStep
  <2> QED BY <2>1 DEF P

(* Nobody but its holder touches the items of a job.                       *)
LEMMA ItemsOfHolder ==
    ASSUME TypeInv, Next, Outcome, NEW q \in Runs, run'[q] = run[q], run[q].pc # "new",
           NEW j \in Jobs, j = run[q].job, job'[j].state = "Running", job'[j].owner = q,
           NEW i \in Items, JobOf[i] = j
    PROVE  item'[i] = item[i]
<1>0. /\ job[j].state = "Running" /\ job[j].owner = q
      /\ item \in [Items -> ItemStates \cup {"None"}]
      /\ run \in [Runs -> Run]
  BY NoWayBack DEF TypeInv, TypeOK
<1>1. ASSUME NEW h \in Jobs, Submit(h) PROVE item'[i] = item[i]
  <2>1. h # j
    BY <1>0, <1>1, SubmitJob
  <2> QED BY <1>1, <2>1 DEF Submit
<1>2. ASSUME NEW h \in Jobs, Cancel(h) PROVE item'[i] = item[i]
  <2>1. h # j
    BY <1>2, CancelJob
  <2> QED BY <1>2, <2>1 DEF Cancel
<1>3. ASSUME NEW h \in Jobs, Retry(h) PROVE item'[i] = item[i]
  <2>1. h # j
    BY <1>3, RetryJob
  <2> QED BY <1>3, <2>1 DEF Retry, FailedItems, ItemsOf
<1>4. ASSUME NEW h \in Jobs, Claim(h) PROVE item'[i] = item[i]
  <2>1. PICK r \in Runs : run[r].pc = "new" /\ job'[h].owner = r
    BY <1>4, ClaimJob
  <2>2. h # j
    BY <2>1
  <2> QED BY <1>4, <2>2 DEF Claim
<1>5. ASSUME NEW r \in Runs, Start(r) \/ SettleCommit(r) PROVE item'[i] = item[i]
  <2>1. run[r].pc \in {"start", "settling"} /\ run[r].part \in Items
    BY <1>5 DEF Start, SettleCommit, TypeInv, LocalsOK
  <2>2. JobOf[run[r].part] = run[r].job /\ (Has(r) \/ job[run[r].job].state = "Purging")
    <3>1. JobOf[run[r].part] = run[r].job
      BY <2>1 DEF Outcome, RunOK, Inside
    <3>2. CASE Start(r)
      BY <3>1, <3>2 DEF Start, Owns, Has
    <3>3. CASE SettleCommit(r)
      BY <3>1, <3>3 DEF SettleCommit, Outcome, RunOK
    <3> QED BY <1>5, <3>2, <3>3
  <2>3. r # q
    <3>1. run'[r].pc # run[r].pc
      BY <1>5, <2>1, <1>0, GotoType, LeaveType DEF Start, SettleCommit, TypeInv, RunLabels
    <3> QED BY <3>1
  <2>4. run[r].part # i
    BY <2>2, <2>3, <1>0 DEF Has
  <2>5. \E st : item' = [item EXCEPT ![run[r].part] = st]
    BY <1>5 DEF Start, SettleCommit
  <2> QED BY <1>0, <2>1, <2>4, <2>5
<1>6. ASSUME NEW s \in Sweeps, SweepForget(s) PROVE item'[i] = item[i]
  <2>1. sweep[s].job \in Jobs
    BY <1>6 DEF SweepForget, SweepOK, Outcome
  <2>2. CASE item' = item
    BY <2>2
  <2>3. CASE sweep[s].job # j
    BY <1>6, <2>3 DEF SweepForget
  <2> QED BY <1>6, <2>1, <2>2, <2>3, ForgetJob
<1>7. ASSUME item' = item PROVE item'[i] = item[i]
  BY <1>7
<1>8. ASSUME NEW h \in Jobs,
             \/ IgnoredDelivery(h) \/ SweepResume(h) \/ LeaseLapses(h) \/ Stall(h)
             \/ RetentionPasses(h)
      PROVE  item'[i] = item[i]
  BY <1>7, <1>8 DEF IgnoredDelivery, SweepResume, LeaseLapses, Stall, RetentionPasses, rows
<1>9. ASSUME NEW r \in Runs,
             \/ Load(r) \/ PickItem(r) \/ PickNone(r) \/ Render(r) \/ Settle(r)
             \/ StartBundle(r) \/ WriteZip(r) \/ BundleFails(r) \/ ZipReady(r) \/ ZipCommit(r)
             \/ Finish(r) \/ LostOwnership(r) \/ Release(r) \/ Crash(r) \/ Abort(r)
      PROVE  item'[i] = item[i]
  BY <1>7, <1>9 DEF Load, PickItem, PickNone, Render, Settle, StartBundle, WriteZip, BundleFails,
     ZipReady, ZipCommit, Finish, LostOwnership, Release, Crash, Abort, rows
<1>10. ASSUME NEW s \in Sweeps,
              \/ SweepExpire(s) \/ SweepSkip(s) \/ SweepCollect(s) \/ SweepDelete(s)
              \/ SweepRows(s) \/ SweepFails(s) \/ \E h \in Jobs : SweepRead(s, h)
       PROVE  item'[i] = item[i]
  BY <1>7, <1>10 DEF SweepExpire, SweepSkip, SweepCollect, SweepDelete, SweepRows, SweepFails,
     SweepRead, rows
<1>11. ASSUME (\E k \in Keys : FilePublished(k)) \/ NextMonth \/ PurgeOrg PROVE item'[i] = item[i]
  BY <1>7, <1>11 DEF FilePublished, NextMonth, PurgeOrg, rows
<1> QED BY <1>1, <1>2, <1>3, <1>4, <1>5, <1>6, <1>8, <1>9, <1>10, <1>11 DEF Next, RunStep, SweepStep

(* A run that does nothing can rely on what it knows.                      *)
LEMMA RunBystander ==
    ASSUME TypeInv, Next, Outcome, NEW q \in Runs, run'[q] = run[q]
    PROVE  RunOK(q)'
<1>0. RunOK(q) /\ (run[q].pc # "new" => run[q].job \in Jobs)
  BY DEF Outcome, TypeInv, LocalsOK
<1>1. CASE run[q].pc = "new"
  BY <1>1 DEF RunOK, Inside
<1>2. CASE run[q].pc # "new"
  <2>1. PICK j \in Jobs : j = run[q].job
    BY <1>0, <1>2
  <2>2. run[q].pc = "settling" => Has(q)' \/ job'[j].state = "Purging"
    <3>1. run[q].pc = "settling" => job[j].state # "None"
      BY <1>0, <2>1 DEF RunOK, Has
    <3>2. ASSUME run[q].pc = "settling", job[j].state = "Purging" PROVE job'[j].state = "Purging"
      BY <2>1, <3>2, TxKeeps
    <3>3. ASSUME run[q].pc = "settling", Has(q) PROVE Has(q)' \/ job'[j].state = "Purging"
      BY <2>1, <3>1, <3>3, TxKeeps DEF Has
    <3> QED BY <1>0, <2>1, <3>2, <3>3 DEF RunOK
  <2>3. ASSUME Has(q)' PROVE Knows(q)'
    <3>1. job'[j].state = "Running" /\ job'[j].owner = q
      BY <2>1, <2>3 DEF Has
    <3>2. Has(q)
      BY <1>2, <2>1, <3>1, NoWayBack DEF Has
    <3>3. \A i \in Items : JobOf[i] = j => item'[i] = item[i]
      BY <1>2, <2>1, <3>1, ItemsOfHolder
    <3>4. run[q].pc \in {"start"} \cup Inside => run[q].part \in Items /\ JobOf[run[q].part] = j
      BY <1>0, <2>1 DEF RunOK, TypeInv, LocalsOK, Inside
    <3>5. Knows(q)
      BY <1>0, <1>2, <3>2 DEF RunOK
    <3> QED BY <2>1, <3>3, <3>4, <3>5 DEF Knows, ItemsOf
  <2> QED BY <1>0, <2>1, <2>2, <2>3 DEF RunOK
<1> QED BY <1>1, <1>2


(* A run that is over, or about to be, claims to know nothing.             *)
LEMMA EndKnowsNothing ==
    ASSUME NEW r, run'[r].pc \in {"release", "done"}
    PROVE  RunOK(r)'
BY DEF RunOK, Knows, Inside, Between, After

(* The labels past the last item share what is known.                      *)
LEMMA AfterStaysAfter ==
    ASSUME NEW r, RunOK(r), run[r].pc \in After, run'[r].pc \in After,
           run'[r].job = run[r].job, Has(r)' => Has(r), item' = item
    PROVE  RunOK(r)'
<1>1. ASSUME Has(r)' PROVE Knows(r)'
  BY <1>1 DEF RunOK, Knows, Inside, Between, After, ItemsOf
<1> QED BY <1>1 DEF RunOK, Inside, After

(* A step of a run leaves it knowing what its next label says.             *)
LEMMA RunOwnStep ==
    ASSUME TypeInv, Outcome, NEW r \in Runs, RunStep(r) \/ Crash(r) \/ Abort(r)
    PROVE  RunOK(r)'
<1>0. /\ run \in [Runs -> Run] /\ run[r] \in Run /\ RunOK(r) /\ TypeOK
      /\ item \in [Items -> ItemStates \cup {"None"}]
      /\ job \in [Jobs -> Job]
      /\ run[r].pc # "new" => run[r].job \in Jobs
  BY DEF TypeInv, TypeOK, Outcome, LocalsOK
<1>1. CASE Load(r)
  <2>1. CASE Leave(r, "release")
    <3>1. run'[r].pc = "release"
      BY <1>0, <2>1, LeaveType DEF RunLabels
    <3> QED BY <3>1, EndKnowsNothing
  <2>2. CASE run' = [run EXCEPT ![r].pc = "pick", ![r].rev = job[run[r].job].revision]
    <3>1. run'[r].pc = "pick" /\ run'[r].job = run[r].job
      BY <1>0, <2>2 DEF Run
    <3>2. job' = job /\ item' = item /\ run[r].pc = "load"
      BY <1>1 DEF Load, rows
    <3> QED BY <1>0, <3>1, <3>2 DEF RunOK, Has, Knows, Inside, Between, After, ItemsOf
  <2> QED BY <1>1, <2>1, <2>2 DEF Load
<1>2. CASE PickItem(r)
  <2>1. PICK i \in ItemsOf(run[r].job) :
           item[i] = "Queued" /\ run' = [run EXCEPT ![r].pc = "start", ![r].part = i]
    BY <1>2 DEF PickItem
  <2>2. run'[r].pc = "start" /\ run'[r].job = run[r].job /\ run'[r].part = i
    BY <1>0, <2>1 DEF Run
  <2>3. job' = job /\ item' = item /\ run[r].pc = "pick" /\ JobOf[i] = run[r].job
    BY <1>2, <2>1 DEF PickItem, rows, ItemsOf
  <2> QED BY <1>0, <2>1, <2>2, <2>3 DEF RunOK, Has, Knows, Inside, Between, After, ItemsOf
<1>3. CASE PickNone(r)
  <2> DEFINE label == IF NeedsBundle(r) THEN "bundle" ELSE "finish"
  <2>1. run'[r].pc = label /\ run'[r].job = run[r].job
    BY <1>0, <1>3 DEF PickNone, Run
  <2>2. label \in {"bundle", "finish"}
    OBVIOUS
  <2> HIDE DEF label
  <2>3. /\ job' = job /\ item' = item /\ run[r].pc = "pick"
        /\ \A i \in ItemsOf(run[r].job) : item[i] # "Queued"
    BY <1>3 DEF PickNone, rows
  <2>4. run'[r].pc \in {"bundle", "finish"}
    BY <2>1, <2>2
  <2>5. ASSUME Has(r)' PROVE Knows(r)'
    <3>1. Knows(r)
      BY <1>0, <2>1, <2>3, <2>5 DEF RunOK, Has
    <3> QED BY <2>1, <2>3, <2>4, <3>1 DEF Knows, Inside, Between, After, ItemsOf
  <2> QED BY <2>4, <2>5 DEF RunOK, Inside
<1>4. CASE Start(r)
  <2>1. /\ run'[r].pc = "render" /\ run'[r].job = run[r].job
        /\ run'[r].part = run[r].part
    BY <1>0, <1>4, GotoType DEF RunLabels, Start
  <2>2. /\ run[r].pc = "start" /\ Has(r) /\ run[r].part \in Items
        /\ JobOf[run[r].part] = run[r].job
        /\ item' = [item EXCEPT ![run[r].part] = "Running"]
    BY <1>0, <1>4 DEF Start, Owns, Has, RunOK, TypeInv, LocalsOK
  <2>3. Knows(r)
    BY <1>0, <2>2 DEF RunOK
  <2>4. Knows(r)'
    BY <1>0, <2>1, <2>2, <2>3 DEF Knows, Inside, Between, After, ItemsOf
  <2> QED BY <2>1, <2>2, <2>4 DEF RunOK
<1>5. CASE Render(r)
  <2>1. run'[r].pc = "settle" /\ run'[r].job = run[r].job /\ run'[r].part = run[r].part
    BY <1>0, <1>5 DEF Render, Run
  <2>2. job' = job /\ item' = item /\ run[r].pc = "render"
    BY <1>5 DEF Render
  <2> QED BY <1>0, <2>1, <2>2 DEF RunOK, Has, Knows, Inside, Between, After, ItemsOf
<1>6. CASE Settle(r)
  <2>1. run'[r].pc = "settling" /\ run'[r].job = run[r].job /\ run'[r].part = run[r].part
    BY <1>0, <1>6, GotoType DEF Settle, RunLabels
  <2>2. job' = job /\ item' = item /\ run[r].pc = "settle" /\ Has(r)
    BY <1>6 DEF Settle, rows, Owns, Has
  <2> QED BY <1>0, <2>1, <2>2 DEF RunOK, Has, Knows, Inside, Between, After, ItemsOf
<1>7. CASE SettleCommit(r)
  <2>1. run'[r].pc = "load" /\ run'[r].job = run[r].job
    BY <1>0, <1>7, LeaveType DEF RunLabels, SettleCommit
  <2>2. /\ run[r].pc = "settling" /\ run[r].part \in Items /\ job' = job
        /\ JobOf[run[r].part] = run[r].job
    BY <1>0, <1>7 DEF SettleCommit, RunOK, Inside, TypeInv, LocalsOK
  <2>3. PICK st \in {"Succeeded", "Failed"} : item' = [item EXCEPT ![run[r].part] = st]
    BY <1>7 DEF SettleCommit
  <2>4. ASSUME Has(r)' PROVE Knows(r)'
    <3>1. Knows(r)
      BY <1>0, <2>1, <2>2, <2>4 DEF RunOK, Has
    <3> QED BY <1>0, <2>1, <2>2, <2>3, <3>1 DEF Knows, Inside, Between, After, ItemsOf
  <2> QED BY <2>1, <2>4 DEF RunOK, Inside
<1>8. CASE StartBundle(r)
  <2>1. run'[r].pc = "zip" /\ run'[r].job = run[r].job /\ run[r].pc = "bundle"
    BY <1>0, <1>8, GotoType DEF RunLabels, StartBundle
  <2>2. Has(r) /\ item' = item
    BY <1>8 DEF StartBundle, Owns, Has
  <2> QED BY <1>0, <2>1, <2>2, AfterStaysAfter DEF After
<1>9. CASE WriteZip(r)
  <2>1. run'[r].pc = "zipready" /\ run'[r].job = run[r].job /\ run[r].pc = "zip"
    BY <1>0, <1>9, GotoType DEF RunLabels, WriteZip
  <2>2. job' = job /\ item' = item
    BY <1>9 DEF WriteZip
  <2> QED BY <1>0, <2>1, <2>2, AfterStaysAfter DEF After, Has
<1>10. CASE BundleFails(r) \/ ZipCommit(r)
  <2>1. /\ run'[r].pc = "finish" /\ run'[r].job = run[r].job
        /\ run[r].pc \in {"zip", "zipready", "zipping"}
    BY <1>0, <1>10 DEF BundleFails, ZipCommit, Run
  <2>2. job' = job /\ item' = item
    BY <1>10 DEF BundleFails, ZipCommit
  <2> QED BY <1>0, <2>1, <2>2, AfterStaysAfter DEF After, Has
<1>11. CASE ZipReady(r)
  <2>1. /\ run'[r].pc \in {"zipping", "finish"} /\ run'[r].job = run[r].job
        /\ run[r].pc = "zipready"
    BY <1>0, <1>11, GotoType DEF RunLabels, ZipReady
  <2>2. job' = job /\ item' = item
    BY <1>11 DEF ZipReady, rows
  <2> QED BY <1>0, <2>1, <2>2, AfterStaysAfter DEF After, Has
<1>12. CASE Finish(r) \/ LostOwnership(r) \/ Release(r) \/ Crash(r) \/ Abort(r)
  <2>1. PICK label \in {"release", "done"} : Leave(r, label)
    BY <1>12 DEF Finish, LostOwnership, Release, Crash, Abort
  <2>2. run'[r].pc \in {"release", "done"}
    BY <1>0, <2>1, LeaveType DEF RunLabels
  <2> QED BY <2>2, EndKnowsNothing
<1> QED BY <1>1, <1>2, <1>3, <1>4, <1>5, <1>6, <1>7, <1>8, <1>9, <1>10, <1>11, <1>12 DEF RunStep

(* A step moves one run; the others stay where they are.                   *)
LEMMA OneRunMoves ==
    ASSUME TypeInv, Next, NEW q \in Runs, run'[q] # run[q]
    PROVE  \/ RunStep(q) \/ Crash(q) \/ Abort(q)
           \/ \E j \in Jobs : Claim(j) /\ run[q].pc = "new" /\ run' = [run EXCEPT ![q].pc = "load", ![q].job = j]
<1>0. run \in [Runs -> Run] /\ TypeOK
  BY DEF TypeInv, TypeOK
<1>1. ASSUME NEW j \in Jobs, Claim(j)
      PROVE  run[q].pc = "new" /\ run' = [run EXCEPT ![q].pc = "load", ![q].job = j]
  <2>1. PICK r \in Runs : /\ run[r].pc = "new"
                          /\ run' = [run EXCEPT ![r].pc = "load", ![r].job = j]
    BY <1>1, ClaimJob
  <2> QED BY <1>0, <2>1
<1>2. ASSUME NEW r \in Runs, RunStep(r) \/ Crash(r) \/ Abort(r) PROVE r = q
  <2>1. \E row : run' = [run EXCEPT ![r] = row]
    <3>1. CASE \E label : Goto(r, label)
      BY <1>0, <3>1 DEF Goto
    <3>2. CASE \E label : Leave(r, label)
      BY <1>0, <3>2 DEF Leave
    <3>3. CASE Load(r)
      BY <1>0, <3>2, <3>3 DEF Load
    <3>4. CASE PickItem(r)
      BY <1>0, <3>4 DEF PickItem
    <3>5. CASE PickNone(r)
      BY <1>0, <3>5 DEF PickNone
    <3>6. CASE Render(r)
      BY <1>0, <3>6 DEF Render
    <3>7. CASE BundleFails(r)
      BY <1>0, <3>7 DEF BundleFails
    <3>8. CASE ZipCommit(r)
      BY <1>0, <3>8 DEF ZipCommit
    <3>9. CASE Start(r) \/ Settle(r) \/ StartBundle(r) \/ WriteZip(r) \/ ZipReady(r)
      BY <3>1, <3>9 DEF Start, Settle, StartBundle, WriteZip, ZipReady
    <3>10. CASE \/ SettleCommit(r) \/ Finish(r) \/ LostOwnership(r) \/ Release(r)
                \/ Crash(r) \/ Abort(r)
      BY <3>2, <3>10 DEF SettleCommit, Finish, LostOwnership, Release, Crash, Abort
    <3> QED BY <1>2, <3>3, <3>4, <3>5, <3>6, <3>7, <3>8, <3>9, <3>10 DEF RunStep
  <2> QED BY <1>0, <2>1
<1>3. ASSUME run' = run PROVE FALSE
  BY <1>3
<1>4. ASSUME NEW j \in Jobs,
             \/ Submit(j) \/ Cancel(j) \/ Retry(j) \/ IgnoredDelivery(j) \/ SweepResume(j)
             \/ LeaseLapses(j) \/ Stall(j) \/ RetentionPasses(j)
      PROVE  FALSE
  BY <1>3, <1>4 DEF Submit, Cancel, Retry, IgnoredDelivery, SweepResume, LeaseLapses, Stall,
     RetentionPasses
<1>5. ASSUME NEW s \in Sweeps,
             SweepStep(s) \/ SweepFails(s) \/ \E j \in Jobs : SweepRead(s, j)
      PROVE  FALSE
  BY <1>3, <1>5 DEF SweepStep, SweepExpire, SweepSkip, SweepCollect, SweepDelete, SweepRows,
     SweepForget, SweepFails, SweepRead
<1>6. ASSUME (\E k \in Keys : FilePublished(k)) \/ PurgeOrg \/ NextMonth PROVE FALSE
  BY <1>3, <1>6 DEF FilePublished, PurgeOrg, NextMonth
<1> QED BY <1>1, <1>2, <1>4, <1>5, <1>6 DEF Next

(* Every step leaves every run knowing what its label says.                *)
LEMMA RunsStep ==
    ASSUME TypeInv, Next, Outcome, NEW q \in Runs
    PROVE  RunOK(q)'
<1>1. CASE run'[q] = run[q]
  BY <1>1, RunBystander
<1>2. ASSUME NEW j \in Jobs, Claim(j), run[q].pc = "new",
             run' = [run EXCEPT ![q].pc = "load", ![q].job = j]
      PROVE  RunOK(q)'
  <2>1. run'[q].pc = "load" /\ run'[q].job = j
    BY <1>2 DEF TypeInv, TypeOK, Run
  <2>2. \A i \in Items : JobOf[i] = j => item'[i] # "Running"
    BY <1>2 DEF Claim
  <2> QED BY <2>1, <2>2 DEF RunOK, Knows, Inside, Between, After, ItemsOf
<1> QED BY <1>1, <1>2, OneRunMoves, RunOwnStep

-----------------------------------------------------------------------------
(* Units *)

(* Settling turns a unit into usage or gives it back.                      *)
LEMMA SettleEntry ==
    ASSUME TypeInv, NEW p \in Items, NEW ok \in BOOLEAN, SettleQuota(p, ok)
    PROVE  /\ \A i \in Items : i # p => entry'[i] = entry[i]
           /\ entry[p].charge = "none" => entry' = entry
           /\ ok /\ entry[p].charge # "none" =>
                 entry' = [entry EXCEPT ![p].charge = "consumed"] /\ entry'[p].charge = "consumed"
           /\ ~ok /\ entry[p].charge = "reserved" =>
                 entry' = [entry EXCEPT ![p] = NoEntry] /\ entry'[p] = NoEntry
           /\ ~ok /\ entry[p].charge # "reserved" => entry' = entry
<1>0. entry \in [Items -> Entry] /\ entry[p] \in Entry
  BY DEF TypeInv, TypeOK
<1>1. CASE ok /\ entry[p].charge # "none"
  <2>1. entry' = [entry EXCEPT ![p].charge = "consumed"]
    BY <1>1 DEF SettleQuota
  <2> QED BY <1>0, <1>1, <2>1 DEF Entry
<1>2. CASE ~ok /\ entry[p].charge = "reserved"
  <2>1. entry' = [entry EXCEPT ![p] = NoEntry]
    BY <1>2 DEF SettleQuota
  <2> QED BY <1>0, <1>2, <2>1
<1>3. CASE ~(ok /\ entry[p].charge # "none") /\ ~(~ok /\ entry[p].charge = "reserved")
  <2>1. entry' = entry
    BY <1>3 DEF SettleQuota
  <2> QED BY <1>3, <2>1
<1> QED BY <1>1, <1>2, <1>3

(* A step that keeps item, unit and the state of the job keeps the relation. *)
LEMMA UnitFrame ==
    ASSUME NEW i \in Items, UnitOK(i), entry'[i].charge = entry[i].charge,
           item'[i] = item[i], job'[JobOf[i]].state = job[JobOf[i]].state
    PROVE  UnitOK(i)'
BY DEF UnitOK, Live, Open, InForce, Exists, Over

(* The endpoints keep item, unit and job in step.                          *)
LEMMA UnitEndpoint ==
    ASSUME TypeInv, Outcome, NEW i \in Items, NEW h \in Jobs,
           Submit(h) \/ Cancel(h) \/ Retry(h)
    PROVE  UnitOK(i)'
<1>0. /\ UnitOK(i) /\ JobOf[i] \in Jobs
      /\ item[i] \in ItemStates \cup {"None"}
  BY ConstantsAssumption DEF Outcome, TypeInv, TypeOK
<1>1. CASE Submit(h)
  <2>1. CASE JobOf[i] = h
    <3>1. job'[h].state = "Queued"
      BY <1>1, SubmitJob
    <3>2. item'[i] = "Queued"
      BY <1>1, <2>1 DEF Submit
    <3>3. entry'[i].charge = "reserved"
      BY <1>1, <2>1 DEF Submit, Reserve, ItemsOf
    <3> QED BY <2>1, <3>1, <3>2, <3>3 DEF UnitOK, Live, Open, InForce, Exists, Over
  <2>2. CASE JobOf[i] # h
    <3>1. job'[JobOf[i]] = job[JobOf[i]]
      BY <1>0, <1>1, <2>2, SubmitJob DEF Others
    <3>2. item'[i] = item[i] /\ entry'[i] = entry[i]
      BY <1>1, <2>2 DEF Submit, Reserve, ItemsOf
    <3> QED BY <1>0, <3>1, <3>2, UnitFrame
  <2> QED BY <2>1, <2>2
<1>2. CASE Cancel(h)
  <2>0. /\ entry'[i] = IF JobOf[i] = h /\ entry[i].charge = "reserved" THEN NoEntry ELSE entry[i]
        /\ item'[i] = IF JobOf[i] = h /\ item[i] \in {"Queued", "Running"}
                      THEN "Canceled" ELSE item[i]
    BY <1>2 DEF Cancel, ReleaseQuota
  <2>1. CASE JobOf[i] = h
    <3>1. job'[h].state = "Canceled" /\ Live(h)
      BY <1>2, CancelJob
    <3> QED BY <1>0, <2>0, <2>1, <3>1
           DEF UnitOK, Live, Open, InForce, Exists, Over, NoEntry, JobStates
  <2>2. CASE JobOf[i] # h
    <3>1. job'[JobOf[i]] = job[JobOf[i]]
      BY <1>0, <1>2, <2>2, CancelJob DEF Others
    <3> QED BY <1>0, <2>0, <2>2, <3>1, UnitFrame
  <2> QED BY <2>1, <2>2
<1>3. CASE Retry(h)
  <2>0. /\ entry'[i] = IF i \in FailedItems(h) THEN [charge |-> "reserved", month |-> month]
                       ELSE entry[i]
        /\ item'[i] = IF i \in FailedItems(h) THEN "Queued" ELSE item[i]
    BY <1>3 DEF Retry, Reserve
  <2>1. CASE JobOf[i] = h
    <3>1. job'[h].state = "Queued" /\ Over(h)
      BY <1>3, RetryJob DEF Over
    <3> QED BY <1>0, <2>0, <2>1, <3>1
           DEF UnitOK, Live, Open, InForce, Exists, Over, FailedItems, ItemsOf, JobStates
  <2>2. CASE JobOf[i] # h
    <3>1. job'[JobOf[i]] = job[JobOf[i]]
      BY <1>0, <1>3, <2>2, RetryJob DEF Others
    <3> QED BY <1>0, <2>0, <2>2, <3>1, UnitFrame DEF FailedItems, ItemsOf
  <2> QED BY <2>1, <2>2
<1> QED BY <1>1, <1>2, <1>3

(* So do the runs.                                                         *)
LEMMA UnitRun ==
    ASSUME TypeInv, Outcome, NEW i \in Items, NEW r \in Runs,
           Start(r) \/ SettleCommit(r) \/ Finish(r)
    PROVE  UnitOK(i)'
<1>0. /\ UnitOK(i) /\ JobOf[i] \in Jobs /\ RunOK(r)
      /\ item \in [Items -> ItemStates \cup {"None"}]
      /\ run[r] \in Run
  BY ConstantsAssumption DEF Outcome, TypeInv, TypeOK
<1>1. CASE Start(r)
  <2>1. SameButLease(JobOf[i])
    BY <1>0, <1>1, LeaseJob
  <2>2. /\ run[r].pc = "start" /\ Has(r) /\ entry' = entry /\ run[r].part \in Items
        /\ item' = [item EXCEPT ![run[r].part] = "Running"]
    BY <1>1 DEF Start, Owns, Has, TypeInv, LocalsOK
  <2>3. item[run[r].part] = "Queued"
    BY <1>0, <2>2 DEF RunOK, Knows
  <2>4. \/ item'[i] = item[i]
        \/ item[i] = "Queued" /\ item'[i] = "Running"
    BY <1>0, <2>2, <2>3
  <2> QED BY <1>0, <2>1, <2>2, <2>4 DEF UnitOK, Live, Open, InForce, Exists, Over, SameButLease
<1>2. CASE SettleCommit(r)
  <2>1. /\ run[r].pc = "settling" /\ job' = job /\ run[r].part \in Items
        /\ JobOf[run[r].part] = run[r].job
    BY <1>0, <1>2 DEF SettleCommit, RunOK, Inside, TypeInv, LocalsOK
  <2>2. item' = [item EXCEPT ![run[r].part] = IF run[r].ok THEN "Succeeded" ELSE "Failed"]
    BY <1>2 DEF SettleCommit
  <2>3. SettleQuota(run[r].part, run[r].ok) /\ run[r].ok \in BOOLEAN
    BY <1>0, <1>2 DEF SettleCommit, Run
  <2>4. CASE i # run[r].part
    <3>1. entry'[i] = entry[i]
      BY <2>1, <2>3, <2>4, SettleEntry
    <3> QED BY <1>0, <2>1, <2>2, <2>4, <3>1, UnitFrame
  <2>5. CASE i = run[r].part /\ job[JobOf[i]].state = "Purging"
    <3>1. entry[i].charge = "none"
      BY <1>0, <2>5 DEF UnitOK
    <3>2. entry'[i] = entry[i]
      BY <2>1, <2>3, <2>5, <3>1, SettleEntry
    <3> QED BY <2>1, <2>5, <3>1, <3>2 DEF UnitOK, Live, Open, InForce, Exists, Over
  <2>6. CASE i = run[r].part /\ job[JobOf[i]].state # "Purging"
    <3>1. Has(r)
      BY <1>0, <2>1, <2>6 DEF RunOK
    <3>2. item[i] = "Running" /\ job[JobOf[i]].state = "Running"
      BY <1>0, <2>1, <2>6, <3>1 DEF RunOK, Knows, Inside, Has
    <3>3. entry[i].charge = "reserved"
      BY <1>0, <3>2 DEF UnitOK, Live, Open
    <3>4. entry'[i].charge = IF run[r].ok THEN "consumed" ELSE "none"
      <4>1. CASE run[r].ok
        BY <2>1, <2>3, <2>6, <3>3, <4>1, SettleEntry
      <4>2. CASE ~run[r].ok
        BY <2>1, <2>3, <2>6, <3>3, <4>2, SettleEntry DEF NoEntry
      <4> QED BY <4>1, <4>2
    <3>5. item'[i] = IF run[r].ok THEN "Succeeded" ELSE "Failed"
      BY <1>0, <2>1, <2>2, <2>6
    <3> QED BY <2>1, <3>2, <3>4, <3>5 DEF UnitOK, Live, Open, InForce, Exists, Over
  <2> QED BY <2>4, <2>5, <2>6
<1>3. CASE Finish(r)
  <2>1. item' = item /\ entry' = entry /\ run[r].pc = "finish"
    BY <1>3 DEF Finish, rows
  <2>2. CASE JobOf[i] # run[r].job
    <3>1. job'[JobOf[i]] = job[JobOf[i]]
      BY <1>0, <1>3, <2>2, FinishJob DEF Others
    <3> QED BY <1>0, <2>1, <3>1, UnitFrame
  <2>3. CASE JobOf[i] = run[r].job
    <3>1. /\ job'[JobOf[i]].state \in {"Completed", "CompletedWithErrors", "Failed"}
          /\ Has(r)
      BY <1>3, <2>3, FinishJob DEF Owns, Has
    <3>2. ~Open(i)
      BY <1>0, <2>1, <2>3, <3>1 DEF RunOK, Knows, Between, After, ItemsOf, Open
    <3>3. job[JobOf[i]].state = "Running"
      BY <2>3, <3>1 DEF Has
    <3> QED BY <1>0, <2>1, <3>1, <3>2, <3>3
           DEF UnitOK, Live, Open, InForce, Exists, Over, JobStates
  <2> QED BY <2>2, <2>3
<1> QED BY <1>1, <1>2, <1>3

(* And the claim, the sweep, the purge and every other step.               *)
LEMMA UnitStep ==
    ASSUME TypeInv, Next, Outcome, NEW i \in Items
    PROVE  UnitOK(i)'
<1>0. /\ UnitOK(i) /\ JobOf[i] \in Jobs
      /\ item[i] \in ItemStates \cup {"None"}
  BY ConstantsAssumption DEF Outcome, TypeInv, TypeOK
<1> DEFINE Q == UnitOK(i)'
<1>1. ASSUME NEW h \in Jobs, Submit(h) \/ Cancel(h) \/ Retry(h) PROVE Q
  BY <1>1, UnitEndpoint
<1>2. ASSUME NEW r \in Runs, Start(r) \/ SettleCommit(r) \/ Finish(r) PROVE Q
  BY <1>2, UnitRun
<1>3. ASSUME NEW h \in Jobs, Claim(h) PROVE Q
  <2>1. /\ entry' = entry
        /\ item'[i] = IF JobOf[i] = h /\ item[i] = "Running" THEN "Queued" ELSE item[i]
    BY <1>3 DEF Claim
  <2>2. Others(h) /\ Live(h) /\ job'[h].state = "Running"
    BY <1>3, ClaimJob DEF Claimable
  <2>3. CASE JobOf[i] = h
    BY <1>0, <2>1, <2>2, <2>3 DEF UnitOK, Live, Open, InForce, Exists, Over, JobStates
  <2>4. CASE JobOf[i] # h
    BY <1>0, <2>1, <2>2, <2>4, UnitFrame DEF Others
  <2> QED BY <2>3, <2>4
<1>4. ASSUME NEW s \in Sweeps, SweepExpire(s) PROVE Q
  <2>1. sweep[s].job \in Jobs
    BY <1>4 DEF SweepExpire, SweepOK, Outcome
  <2>2. /\ item' = item
        /\ entry'[i] = IF JobOf[i] = sweep[s].job /\ entry[i].charge = "reserved"
                       THEN NoEntry ELSE entry[i]
    BY <1>4 DEF SweepExpire, ReleaseQuota
  <2>3. /\ Others(sweep[s].job)
        /\ job'[sweep[s].job].state
             = IF Live(sweep[s].job) THEN "Expired" ELSE job[sweep[s].job].state
    BY <1>4, <2>1, ExpireJob
  <2>4. CASE JobOf[i] = sweep[s].job
    BY <1>0, <2>2, <2>3, <2>4 DEF UnitOK, Live, Open, InForce, Exists, Over, NoEntry, JobStates
  <2>5. CASE JobOf[i] # sweep[s].job
    BY <1>0, <2>2, <2>3, <2>5, UnitFrame DEF Others
  <2> QED BY <2>4, <2>5
<1>5. ASSUME NEW s \in Sweeps, SweepForget(s) PROVE Q
  <2>1. sweep[s].job \in Jobs /\ ~Live(sweep[s].job) /\ entry' = entry
    BY <1>5 DEF SweepForget, SweepOK, Outcome, Abandoned
  <2>2. CASE UNCHANGED <<job, item, art>>
    BY <1>0, <2>1, <2>2, UnitFrame
  <2>3. CASE JobOf[i] = sweep[s].job /\ job'[sweep[s].job].state = "Gone"
    BY <1>0, <2>1, <2>3 DEF UnitOK, Live, Open, InForce, Exists, Over, JobStates
  <2>4. CASE /\ JobOf[i] # sweep[s].job /\ Others(sweep[s].job)
             /\ item' = [p \in Items |-> IF JobOf[p] = sweep[s].job THEN "None" ELSE item[p]]
    BY <1>0, <2>1, <2>4, UnitFrame DEF Others
  <2> QED BY <1>5, <2>1, <2>2, <2>3, <2>4, ForgetJob
<1>6. ASSUME PurgeOrg PROVE Q
  <2>1. entry'[i] = NoEntry
    BY <1>6 DEF PurgeOrg
  <2>2. job'[JobOf[i]].state = "Purging" \/ (~Exists(JobOf[i]) /\ job'[JobOf[i]] = job[JobOf[i]])
    <3>1. PICK h \in Jobs : h = JobOf[i]
      BY <1>0
    <3>2. job'[h].state = "Purging" \/ (~Exists(h) /\ job'[h] = job[h])
      BY <1>6, PurgeJob
    <3> QED BY <3>1, <3>2
  <2> QED BY <2>1, <2>2 DEF UnitOK, Live, Open, InForce, Exists, Over, JobStates, NoEntry
<1>7. ASSUME item' = item, entry' = entry, job'[JobOf[i]].state = job[JobOf[i]].state PROVE Q
  BY <1>0, <1>7, UnitFrame
<1>8. ASSUME NEW h \in Jobs, LeaseLapses(h) \/ Stall(h) PROVE Q
  <2>1. item' = item /\ entry' = entry
    BY <1>8 DEF LeaseLapses, Stall, rows
  <2> QED BY <1>0, <1>7, <1>8, <2>1, LeaseJob DEF SameButLease
<1>9. ASSUME NEW h \in Jobs, RetentionPasses(h) PROVE Q
  <2>1. item' = item /\ entry' = entry
    BY <1>9 DEF RetentionPasses, rows
  <2> QED BY <1>0, <1>7, <1>9, <2>1, RetentionJob DEF Others
<1>10. ASSUME NEW r \in Runs, StartBundle(r) PROVE Q
  <2>1. item' = item /\ entry' = entry
    BY <1>10 DEF StartBundle
  <2> QED BY <1>0, <1>7, <1>10, <2>1, LeaseJob DEF SameButLease
<1>11. ASSUME NEW r \in Runs, Release(r) PROVE Q
  <2>1. item' = item /\ entry' = entry
    BY <1>11 DEF Release, rows
  <2> QED BY <1>0, <1>7, <1>11, <2>1, ReleaseJob
<1>12. ASSUME item' = item, entry' = entry, job' = job PROVE Q
  BY <1>7, <1>12
<1> HIDE DEF Q
<1>13. ASSUME NEW h \in Jobs, IgnoredDelivery(h) \/ SweepResume(h) PROVE Q
  BY <1>12, <1>13 DEF IgnoredDelivery, SweepResume, rows
<1>14. ASSUME NEW r \in Runs,
              \/ Load(r) \/ PickItem(r) \/ PickNone(r) \/ Render(r) \/ Settle(r)
              \/ WriteZip(r) \/ BundleFails(r) \/ ZipReady(r)
              \/ ZipCommit(r) \/ LostOwnership(r) \/ Crash(r) \/ Abort(r)
       PROVE  Q
  BY <1>12, <1>14 DEF Load, PickItem, PickNone, Render, Settle, WriteZip, BundleFails, ZipReady,
     ZipCommit, LostOwnership, Crash, Abort, rows
<1>15. ASSUME NEW s \in Sweeps,
              \/ SweepSkip(s) \/ SweepCollect(s) \/ SweepDelete(s) \/ SweepRows(s)
              \/ SweepFails(s) \/ \E h \in Jobs : SweepRead(s, h)
       PROVE  Q
  BY <1>12, <1>15 DEF SweepSkip, SweepCollect, SweepDelete, SweepRows, SweepFails, SweepRead, rows
<1>16. ASSUME (\E k \in Keys : FilePublished(k)) \/ NextMonth PROVE Q
  BY <1>12, <1>16 DEF FilePublished, NextMonth, rows
<1>17. Q
  BY <1>1, <1>2, <1>3, <1>4, <1>5, <1>6, <1>8, <1>9, <1>10, <1>11, <1>13, <1>14, <1>15, <1>16
     DEF Next, RunStep, SweepStep
<1> QED BY <1>17 DEF Q

-----------------------------------------------------------------------------
(* PDFs *)

(* A step that neither makes a PDF of the item Ready nor, in a job in force, takes one away or
   changes the outcome, keeps the relation.                                *)
LEMMA PdfFrame ==
    ASSUME NEW i \in Items, PdfOK(i),
           \A k \in Keys : k[2] = i /\ Ready(k)' => Ready(k),
           job[JobOf[i]].state # "None" => job'[JobOf[i]].state # "None",
           InForce(JobOf[i])' =>
               /\ InForce(JobOf[i])
               /\ item'[i] = "Succeeded" <=> item[i] = "Succeeded"
               /\ \A k \in Keys : k[2] = i /\ Ready(k) => Ready(k)'
    PROVE  PdfOK(i)'
<1>1. HasPdf(i)' => HasPdf(i)
  BY DEF HasPdf
<1>2. ASSUME InForce(JobOf[i])' PROVE (HasPdf(i)' <=> item'[i] = "Succeeded") /\ OnePdf(i)'
  <2>1. HasPdf(i) => HasPdf(i)'
    BY <1>2 DEF HasPdf
  <2>2. OnePdf(i)'
    BY <1>2 DEF OnePdf, PdfOK
  <2> QED BY <1>1, <1>2, <2>1, <2>2 DEF PdfOK
<1> QED BY <1>1, <1>2 DEF PdfOK

(* The endpoints and the claim touch no artifact.                          *)
LEMMA PdfEndpoint ==
    ASSUME TypeInv, Outcome, NEW i \in Items, NEW h \in Jobs,
           Submit(h) \/ Cancel(h) \/ Retry(h) \/ Claim(h)
    PROVE  PdfOK(i)'
<1>0. PdfOK(i) /\ JobOf[i] \in Jobs
  BY ConstantsAssumption DEF Outcome
<1>1. \A k : Ready(k)' <=> Ready(k)
  BY DEF Submit, Cancel, Retry, Claim, Ready
<1>2. CASE Submit(h)
  <2>1. CASE JobOf[i] = h
    <3>1. ~HasPdf(i)
      BY <1>0, <1>2, <2>1, SubmitJob DEF PdfOK
    <3>2. item'[i] = "Queued"
      BY <1>2, <2>1 DEF Submit
    <3>3. ~HasPdf(i)' /\ OnePdf(i)'
      BY <1>1, <3>1 DEF HasPdf, OnePdf
    <3> QED BY <3>2, <3>3 DEF PdfOK
  <2>2. CASE JobOf[i] # h
    <3>1. job'[JobOf[i]] = job[JobOf[i]]
      BY <1>0, <1>2, <2>2, SubmitJob DEF Others
    <3>2. item'[i] = item[i]
      BY <1>2, <2>2 DEF Submit
    <3> QED BY <1>0, <1>1, <3>1, <3>2, PdfFrame DEF InForce, Exists
  <2> QED BY <2>1, <2>2
<1>3. CASE Cancel(h)
  <2>1. item'[i] = "Succeeded" <=> item[i] = "Succeeded"
    BY <1>3 DEF Cancel
  <2>2. CASE JobOf[i] = h
    <3>1. Live(h) /\ job'[h].state = "Canceled"
      BY <1>3, CancelJob
    <3> QED BY <1>0, <1>1, <2>1, <2>2, <3>1, PdfFrame DEF InForce, Exists, Live, JobStates
  <2>3. CASE JobOf[i] # h
    <3>1. job'[JobOf[i]] = job[JobOf[i]]
      BY <1>0, <1>3, <2>3, CancelJob DEF Others
    <3> QED BY <1>0, <1>1, <2>1, <3>1, PdfFrame DEF InForce, Exists
  <2> QED BY <2>2, <2>3
<1>4. CASE Retry(h)
  <2>1. item'[i] = "Succeeded" <=> item[i] = "Succeeded"
    BY <1>4 DEF Retry, FailedItems
  <2>2. CASE JobOf[i] = h
    <3>1. Over(h) /\ job'[h].state = "Queued"
      BY <1>4, RetryJob DEF Over
    <3> QED BY <1>0, <1>1, <2>1, <2>2, <3>1, PdfFrame DEF InForce, Exists, Over, JobStates
  <2>3. CASE JobOf[i] # h
    <3>1. job'[JobOf[i]] = job[JobOf[i]]
      BY <1>0, <1>4, <2>3, RetryJob DEF Others
    <3> QED BY <1>0, <1>1, <2>1, <3>1, PdfFrame DEF InForce, Exists
  <2> QED BY <2>2, <2>3
<1>5. CASE Claim(h)
  <2>1. item'[i] = "Succeeded" <=> item[i] = "Succeeded"
    BY <1>5 DEF Claim
  <2>2. Others(h) /\ Live(h) /\ job'[h].state = "Running"
    BY <1>5, ClaimJob DEF Claimable
  <2>3. CASE JobOf[i] = h
    BY <1>0, <1>1, <2>1, <2>2, <2>3, PdfFrame DEF InForce, Exists, Live, JobStates
  <2>4. CASE JobOf[i] # h
    BY <1>0, <1>1, <2>1, <2>2, <2>4, PdfFrame DEF InForce, Exists, Others
  <2> QED BY <2>3, <2>4
<1> QED BY <1>2, <1>3, <1>4, <1>5

(* A run makes one PDF Ready, that of the item it settles.                 *)
LEMMA PdfRun ==
    ASSUME TypeInv, Outcome, NEW i \in Items, NEW r \in Runs,
           Start(r) \/ SettleCommit(r) \/ StartBundle(r) \/ ZipCommit(r)
    PROVE  PdfOK(i)'
<1>0. /\ PdfOK(i) /\ JobOf[i] \in Jobs /\ RunOK(r)
      /\ item \in [Items -> ItemStates \cup {"None"}]
      /\ run[r].pc \in {"start", "settling", "bundle", "zipping"}
  BY ConstantsAssumption DEF Outcome, TypeInv, TypeOK, Start, SettleCommit, StartBundle, ZipCommit
<1>1. Key(r) \in Keys /\ Key(r)[2] = run[r].part /\ run[r].job \in Jobs
  BY <1>0, KeyType DEF Key
<1>2. CASE Start(r)
  <2>1. SameButLease(JobOf[i])
    BY <1>0, <1>2, LeaseJob
  <2>2. /\ run[r].pc = "start" /\ Has(r) /\ run[r].part \in Items
        /\ item' = [item EXCEPT ![run[r].part] = "Running"]
        /\ Intend(r, {}) /\ JobOf[run[r].part] = run[r].job
    BY <1>0, <1>2 DEF Start, Owns, Has, TypeInv, LocalsOK, RunOK
  <2>3. item[run[r].part] = "Queued"
    BY <1>0, <2>2 DEF RunOK, Knows
  <2>4. item'[i] = "Succeeded" <=> item[i] = "Succeeded"
    BY <1>0, <2>2, <2>3
  <2>5. (\A k \in Keys : k # Key(r) => art'[k] = art[k]) /\ art'[Key(r)].state = "pending"
    BY <1>1, <2>2, IntendArt
  <2>6. run[r].part = i => ~Ready(Key(r))
    BY <1>0, <1>1, <2>2, <2>3 DEF PdfOK, InForce, Exists, JobStates, Has, HasPdf
  <2>7. \A k \in Keys : k[2] = i => (Ready(k)' <=> Ready(k))
    BY <1>1, <2>5, <2>6 DEF Ready
  <2> QED BY <1>0, <2>1, <2>4, <2>7, PdfFrame DEF SameButLease, InForce, Exists
<1>3. CASE SettleCommit(r)
  <2>1. /\ run[r].pc = "settling" /\ job' = job /\ run[r].part \in Items
        /\ JobOf[run[r].part] = run[r].job
    BY <1>0, <1>3 DEF SettleCommit, RunOK, Inside, TypeInv, LocalsOK
  <2>2. item' = [item EXCEPT ![run[r].part] = IF run[r].ok THEN "Succeeded" ELSE "Failed"]
    BY <1>3 DEF SettleCommit
  <2>3. IF run[r].ok THEN art' = [art EXCEPT ![Key(r)].state = "ready"] ELSE art' = art
    BY <1>3 DEF SettleCommit
  <2>4. /\ \A k \in Keys : k # Key(r) => art'[k] = art[k]
        /\ IF run[r].ok THEN art'[Key(r)].state = "ready" ELSE art' = art
    BY <1>1, <2>3, ReadyArt
  <2>5. CASE run[r].part # i
    <3>1. \A k \in Keys : k[2] = i => (Ready(k)' <=> Ready(k))
      BY <1>1, <2>4, <2>5 DEF Ready
    <3>2. item'[i] = item[i]
      BY <1>0, <2>2, <2>5
    <3> QED BY <1>0, <2>1, <3>1, <3>2, PdfFrame DEF InForce, Exists
  <2>6. CASE run[r].part = i /\ job[JobOf[i]].state = "Purging"
    BY <2>1, <2>6 DEF PdfOK, InForce
  <2>7. CASE run[r].part = i /\ job[JobOf[i]].state # "Purging"
    <3>1. Has(r)
      BY <1>0, <2>1, <2>7 DEF RunOK
    <3>2. item[i] = "Running" /\ job[JobOf[i]].state = "Running"
      BY <1>0, <2>1, <2>7, <3>1 DEF RunOK, Knows, Inside, Has
    <3>3. ~HasPdf(i)
      BY <1>0, <3>2 DEF PdfOK, InForce, Exists, JobStates
    <3>4. item'[i] = IF run[r].ok THEN "Succeeded" ELSE "Failed"
      BY <1>0, <2>1, <2>2, <2>7
    <3>5. CASE run[r].ok
      <4>0. PICK f \in Keys : f = Key(r)
        BY <1>1
      <4>1. f[2] = i /\ Ready(f)' /\ \A k \in Keys : k[2] = i /\ Ready(k)' => k = f
        BY <1>1, <2>4, <2>7, <3>3, <3>5, <4>0 DEF HasPdf, Ready
      <4>2. HasPdf(i)' /\ OnePdf(i)'
        BY <4>1 DEF HasPdf, OnePdf
      <4> QED BY <2>1, <3>2, <3>4, <3>5, <4>2 DEF PdfOK
    <3>6. CASE ~run[r].ok
      <4>1. \A k \in Keys : Ready(k)' <=> Ready(k)
        BY <2>4, <3>6 DEF Ready
      <4> QED BY <1>0, <2>1, <3>2, <3>4, <3>6, <4>1, PdfFrame DEF InForce, Exists
    <3> QED BY <3>5, <3>6
  <2> QED BY <2>5, <2>6, <2>7
<1>4. CASE StartBundle(r) \/ ZipCommit(r)
  <2>1. run[r].part = Bundle /\ item' = item /\ SameButLease(JobOf[i])
    <3>1. run[r].part = Bundle /\ item' = item
      BY <1>4 DEF StartBundle, ZipCommit, TypeInv, LocalsOK
    <3>2. SameButLease(JobOf[i])
      BY <1>0, <1>4, LeaseJob, OtherSteps DEF SameButLease
    <3> QED BY <3>1, <3>2
  <2>2. \A k \in Keys : k # Key(r) => art'[k] = art[k]
    <3>1. CASE StartBundle(r)
      <4>1. Intend(r, run[r].pdfs) /\ run[r].pdfs \in SUBSET Keys
        BY <3>1 DEF StartBundle, TypeInv, TypeOK, Run
      <4> QED BY <1>1, <4>1, IntendArt
    <3>2. CASE ZipCommit(r)
      <4>1. art' = [art EXCEPT ![Key(r)].state = "ready"]
        BY <3>2 DEF ZipCommit
      <4> QED BY <1>1, <4>1, ReadyArt
    <3> QED BY <1>4, <3>1, <3>2
  <2>3. \A k \in Keys : k[2] = i => (Ready(k)' <=> Ready(k))
    BY <1>1, <2>1, <2>2, ConstantsAssumption DEF Ready
  <2> QED BY <1>0, <2>1, <2>3, PdfFrame DEF SameButLease, InForce, Exists
<1> QED BY <1>2, <1>3, <1>4

(* A sweep takes PDFs away only while it purges.                           *)
LEMMA PdfSweep ==
    ASSUME TypeInv, Outcome, NEW i \in Items, NEW s \in Sweeps,
           SweepExpire(s) \/ SweepRows(s) \/ SweepForget(s)
    PROVE  PdfOK(i)'
<1>0. /\ PdfOK(i) /\ JobOf[i] \in Jobs /\ SweepOK(s)
      /\ \A k \in Keys : RowOK(k) /\ k[1] \in Runs
      /\ sweep[s].pc # "idle" /\ sweep[s].job \in Jobs
  BY ConstantsAssumption DEF Outcome, SweepOK, SweepExpire, SweepRows, SweepForget, Keys
<1>1. CASE SweepExpire(s)
  <2>1. item' = item /\ \A k \in Keys : Ready(k)' <=> Ready(k)
    BY <1>1 DEF SweepExpire, Ready
  <2>2. /\ Others(sweep[s].job) /\ Exists(sweep[s].job)
        /\ job'[sweep[s].job].state
             = IF Live(sweep[s].job) THEN "Expired" ELSE job[sweep[s].job].state
    BY <1>0, <1>1, ExpireJob
  <2>3. CASE JobOf[i] = sweep[s].job
    BY <1>0, <2>1, <2>2, <2>3, PdfFrame DEF InForce, Exists, Live, JobStates
  <2>4. CASE JobOf[i] # sweep[s].job
    BY <1>0, <2>1, <2>2, <2>4, PdfFrame DEF InForce, Exists, Others
  <2> QED BY <2>3, <2>4
<1>2. CASE SweepRows(s)
  <2>1. /\ job' = job /\ item' = item /\ sweep[s].pc = "delete"
        /\ art' = [k \in Keys |-> IF k \in sweep[s].keys THEN NoRow ELSE art[k]]
    BY <1>2 DEF SweepRows
  <2>2. \A k \in Keys : Ready(k)' => Ready(k)
    BY <2>1 DEF Ready, NoRow
  <2>3. ASSUME InForce(JobOf[i]), NEW k \in Keys, k[2] = i, Ready(k) PROVE Ready(k)'
    <3>1. JobOf[i] = run[k[1]].job
      BY <1>0, <2>3 DEF RowOK, Ready
    <3>2. k \notin sweep[s].keys
      BY <1>0, <2>1, <2>3, <3>1, ConstantsAssumption DEF SweepOK
    <3> QED BY <2>1, <2>3, <3>2 DEF Ready
  <2> QED BY <1>0, <2>1, <2>2, <2>3, PdfFrame DEF InForce, Exists
<1>3. CASE SweepForget(s)
  <2>1. CASE UNCHANGED <<job, item, art>>
    BY <1>0, <2>1, PdfFrame DEF InForce, Exists, Ready
  <2>2. CASE job'[sweep[s].job].state = "Gone" /\ JobOf[i] = sweep[s].job
    BY <2>2 DEF PdfOK, InForce, Exists, JobStates
  <2>3. CASE /\ Others(sweep[s].job) /\ JobOf[i] # sweep[s].job
             /\ item' = [p \in Items |-> IF JobOf[p] = sweep[s].job THEN "None" ELSE item[p]]
             /\ art' = [k \in Keys |-> IF k \in KeysOf(sweep[s].job) THEN NoRow ELSE art[k]]
    <3>1. job'[JobOf[i]] = job[JobOf[i]] /\ item'[i] = item[i]
      BY <1>0, <2>3 DEF Others
    <3>2. \A k \in Keys : Ready(k)' => Ready(k)
      BY <2>3 DEF Ready, NoRow
    <3>3. ASSUME NEW k \in Keys, k[2] = i, Ready(k) PROVE Ready(k)'
      <4>1. JobOf[i] = run[k[1]].job
        BY <1>0, <3>3 DEF RowOK, Ready
      <4> QED BY <2>3, <3>3, <4>1 DEF Ready, KeysOf
    <3> QED BY <1>0, <3>1, <3>2, <3>3, PdfFrame DEF InForce, Exists
  <2> QED BY <1>0, <1>3, <2>1, <2>2, <2>3, ForgetJob
<1> QED BY <1>1, <1>2, <1>3

(* Every step keeps PDFs and outcomes in step.                             *)
LEMMA PdfStep ==
    ASSUME TypeInv, Next, Outcome, NEW i \in Items
    PROVE  PdfOK(i)'
<1>0. PdfOK(i) /\ JobOf[i] \in Jobs
  BY ConstantsAssumption DEF Outcome
<1> DEFINE Q == PdfOK(i)'
<1>1. ASSUME NEW h \in Jobs, Submit(h) \/ Cancel(h) \/ Retry(h) \/ Claim(h) PROVE Q
  BY <1>1, PdfEndpoint
<1>2. ASSUME NEW r \in Runs, Start(r) \/ SettleCommit(r) \/ StartBundle(r) \/ ZipCommit(r) PROVE Q
  BY <1>2, PdfRun
<1>3. ASSUME NEW s \in Sweeps, SweepExpire(s) \/ SweepRows(s) \/ SweepForget(s) PROVE Q
  BY <1>3, PdfSweep
<1>4. ASSUME NEW f \in Keys, FilePublished(f) PROVE Q
  <2>1. \A k \in Keys : Ready(k)' <=> Ready(k)
    BY <1>4, FiledArt
  <2>2. job' = job /\ item' = item
    BY <1>4 DEF FilePublished
  <2> QED BY <1>0, <2>1, <2>2, PdfFrame DEF InForce, Exists
<1>5. ASSUME PurgeOrg PROVE Q
  <2>1. PICK h \in Jobs : h = JobOf[i]
    BY <1>0
  <2>2. job'[h].state = "Purging" \/ (~Exists(h) /\ job'[h] = job[h])
    BY <1>5, PurgeJob
  <2>3. \A k \in Keys : Ready(k)' <=> Ready(k)
    BY <1>5 DEF PurgeOrg, Ready
  <2> QED BY <1>0, <2>1, <2>2, <2>3, PdfFrame DEF InForce, Exists, JobStates
<1>6. ASSUME item' = item, art' = art, NEW h \in Jobs, h = JobOf[i],
             \/ job'[h].state = job[h].state
             \/ Live(h) /\ job'[h].state \in {"Completed", "CompletedWithErrors", "Failed"}
      PROVE  Q
  BY <1>0, <1>6, PdfFrame DEF InForce, Exists, Ready, Live, JobStates
<1>7. PICK h \in Jobs : h = JobOf[i]
  BY <1>0
<1> HIDE DEF Q
<1>8. ASSUME NEW g \in Jobs, LeaseLapses(g) \/ Stall(g) PROVE Q
  <2>1. item' = item /\ art' = art
    BY <1>8 DEF LeaseLapses, Stall, rows
  <2> QED BY <1>6, <1>7, <1>8, <2>1, LeaseJob DEF SameButLease
<1>9. ASSUME NEW g \in Jobs, RetentionPasses(g) PROVE Q
  <2>1. item' = item /\ art' = art
    BY <1>9 DEF RetentionPasses, rows
  <2> QED BY <1>6, <1>7, <1>9, <2>1, RetentionJob DEF Others
<1>10. ASSUME NEW r \in Runs, Release(r) PROVE Q
  <2>1. item' = item /\ art' = art
    BY <1>10 DEF Release, rows
  <2> QED BY <1>6, <1>7, <1>10, <2>1, ReleaseJob
<1>11. ASSUME NEW r \in Runs, Finish(r) PROVE Q
  <2>1. item' = item /\ art' = art
    BY <1>11 DEF Finish, rows
  <2>2. /\ Others(run[r].job) /\ Live(run[r].job)
        /\ job'[run[r].job].state \in {"Completed", "CompletedWithErrors", "Failed"}
    BY <1>11, FinishJob DEF Owns, Live
  <2> QED BY <1>6, <1>7, <2>1, <2>2 DEF Others
<1>12. ASSUME item' = item, art' = art, job' = job PROVE Q
  BY <1>6, <1>7, <1>12
<1>13. ASSUME NEW g \in Jobs, IgnoredDelivery(g) \/ SweepResume(g) PROVE Q
  BY <1>12, <1>13 DEF IgnoredDelivery, SweepResume, rows
<1>14. ASSUME NEW r \in Runs,
              \/ Load(r) \/ PickItem(r) \/ PickNone(r) \/ Render(r) \/ Settle(r)
              \/ WriteZip(r) \/ BundleFails(r) \/ ZipReady(r)
              \/ LostOwnership(r) \/ Crash(r) \/ Abort(r)
       PROVE  Q
  BY <1>12, <1>14 DEF Load, PickItem, PickNone, Render, Settle, WriteZip, BundleFails, ZipReady,
     LostOwnership, Crash, Abort, rows
<1>15. ASSUME NEW s \in Sweeps,
              \/ SweepSkip(s) \/ SweepCollect(s) \/ SweepDelete(s)
              \/ SweepFails(s) \/ \E g \in Jobs : SweepRead(s, g)
       PROVE  Q
  BY <1>12, <1>15 DEF SweepSkip, SweepCollect, SweepDelete, SweepFails, SweepRead, rows
<1>16. ASSUME NextMonth PROVE Q
  BY <1>12, <1>16 DEF NextMonth, rows
<1>17. Q
  BY <1>1, <1>2, <1>3, <1>4, <1>5, <1>8, <1>9, <1>10, <1>11, <1>13, <1>14, <1>15, <1>16
     DEF Next, RunStep, SweepStep
<1> QED BY <1>17 DEF Q

-----------------------------------------------------------------------------
(* The invariant *)

(* At first there is no job, no run, no row and no sweep.                  *)
LEMMA OutcomeInit == Init => Outcome
<1> SUFFICES ASSUME Init PROVE Outcome
  OBVIOUS
<1>0. /\ \A j \in Jobs : job[j].state = "None"
      /\ \A i \in Items : item[i] = "None" /\ entry[i].charge = "none"
      /\ \A k \in Keys : art[k].state = "none"
      /\ \A r \in Runs : run[r].pc = "new"
      /\ \A s \in Sweeps : sweep[s].pc = "idle"
  BY DEF Init, NoEntry, NoRow, NewRun, IdleSweep
<1>1. \A i \in Items : UnitOK(i) /\ PdfOK(i)
  BY <1>0, ConstantsAssumption
     DEF UnitOK, PdfOK, HasPdf, OnePdf, Ready, Live, Open, InForce, Exists, Over, JobStates
<1>2. \A r \in Runs : RunOK(r)
  BY <1>0 DEF RunOK, Inside
<1> QED BY <1>0, <1>1, <1>2 DEF Outcome, RowOK, JobOK, SweepOK

(* Every step keeps the invariant.                                         *)
LEMMA OutcomeStep ==
    ASSUME TypeInv, Outcome, [Next]_vars
    PROVE  Outcome'
<1>1. CASE Next
  <2>1. \A i \in Items : UnitOK(i)' /\ PdfOK(i)'
    BY <1>1, UnitStep, PdfStep
  <2>2. \A r \in Runs : RunOK(r)'
    BY <1>1, RunsStep
  <2>3. \A k \in Keys : RowOK(k)'
    BY <1>1, RowStep DEF Outcome
  <2>4. \A j \in Jobs : JobOK(j)'
    BY <1>1, JobStep DEF Outcome
  <2>5. \A s \in Sweeps : SweepOK(s)'
    BY <1>1, SweepsStep
  <2> QED BY <2>1, <2>2, <2>3, <2>4, <2>5 DEF Outcome
<1>2. CASE UNCHANGED vars
  <2>1. \A i \in Items : UnitOK(i)' /\ PdfOK(i)'
    BY <1>2 DEF vars, Outcome, UnitOK, PdfOK, HasPdf, OnePdf, Ready, Live, Open, InForce, Exists,
       Over
  <2>2. \A r \in Runs : RunOK(r)'
    BY <1>2 DEF vars, Outcome, RunOK, Knows, Has, ItemsOf
  <2>3. \A k \in Keys : RowOK(k)'
    BY <1>2 DEF vars, Outcome, RowOK
  <2>4. \A j \in Jobs : JobOK(j)'
    BY <1>2 DEF vars, Outcome, JobOK, Closed, Expired
  <2>5. \A s \in Sweeps : SweepOK(s)'
    BY <1>2 DEF vars, Outcome, SweepOK, Closed, Expired, InForce, Exists, Abandoned, Live, InTx,
       Ready
  <2> QED BY <2>1, <2>2, <2>3, <2>4, <2>5 DEF Outcome
<1> QED BY <1>1, <1>2

(* The invariant holds throughout.                                         *)
LEMMA OutcomeAlways == Spec => []Outcome
<1>1. Spec => []TypeInv
  BY InitType, TypeStep, PTL DEF Spec
<1>2. TypeInv /\ Outcome /\ [Next]_vars => Outcome'
  BY OutcomeStep
<1> QED BY <1>1, <1>2, OutcomeInit, PTL DEF Spec

(***************************************************************************)
(* ReportRunner.Settle and the callers of it: at all times, and for any    *)
(* number of jobs, runs and sweeps, a succeeded item of a job in force has *)
(* exactly one Ready PDF and any other item none.                          *)
(***************************************************************************)
THEOREM SuccessHasOnePdf == Spec => []OnePdfPerSuccess
<1>1. ASSUME Outcome PROVE OnePdfPerSuccess
  <2> SUFFICES ASSUME NEW i \in Items, InForce(JobOf[i])
               PROVE  Cardinality({k \in ReadyPdfs(JobOf[i]) : k[2] = i})
                        = IF item[i] = "Succeeded" THEN 1 ELSE 0
    BY DEF OnePdfPerSuccess, InForce
  <2> DEFINE S == {k \in ReadyPdfs(JobOf[i]) : k[2] = i}
  <2>1. S = {k \in Keys : k[2] = i /\ Ready(k)}
    BY <1>1 DEF Outcome, RowOK, ReadyPdfs, KeysOf, Ready
  <2>2. (HasPdf(i) <=> item[i] = "Succeeded") /\ OnePdf(i)
    BY <1>1 DEF Outcome, PdfOK
  <2>3. CASE item[i] = "Succeeded"
    <3>1. PICK k \in Keys : k[2] = i /\ Ready(k)
      BY <2>2, <2>3 DEF HasPdf
    <3>2. S = {k}
      BY <2>1, <2>2, <3>1 DEF OnePdf
    <3>3. Cardinality({k}) = 1
      BY FS_Singleton
    <3> HIDE DEF S
    <3>4. Cardinality(S) = 1
      BY <3>2, <3>3
    <3> QED BY <2>3, <3>4 DEF S
  <2>4. CASE item[i] # "Succeeded"
    <3>1. S = {}
      BY <2>1, <2>2, <2>4 DEF HasPdf
    <3>2. Cardinality({}) = 0
      BY FS_EmptySet
    <3> HIDE DEF S
    <3>3. Cardinality(S) = 0
      BY <3>1, <3>2
    <3> QED BY <2>4, <3>3 DEF S
  <2> QED BY <2>3, <2>4
<1> QED BY <1>1, OutcomeAlways, PTL

-----------------------------------------------------------------------------
(* Reporting implements ReportLedger *)

\* What a step of Reporting is to the ledger.
LedgerStep == Ledger!LNext \/ UNCHANGED <<entry, Delivered, Closed>>

(* Delivered, by item.                                                     *)
LEMMA DeliveredIs == Delivered = {i \in Items : HasPdf(i)}
BY DEF Delivered, HasPdf

(* No PDF becomes Ready or ceases to be.                                   *)
LEMMA SameDelivered ==
    ASSUME \A k \in Keys : k[2] \in Items => (Ready(k)' <=> Ready(k))
    PROVE  Delivered' = Delivered
BY DEF Delivered

(* A unit in reserve has not been delivered.                               *)
LEMMA ReservedIsDue ==
    ASSUME Outcome, NEW i \in Items, entry[i].charge = "reserved"
    PROVE  i \notin Delivered
<1>1. Live(JobOf[i]) /\ Open(i)
  BY DEF Outcome, UnitOK
<1> QED BY <1>1, DeliveredIs DEF Outcome, PdfOK, InForce, Exists, Live, Open, JobStates

(* Reserving admits.                                                       *)
LEMMA LedgerAdmits ==
    ASSUME TypeInv, NEW S \in SUBSET Items, Reserve(S), Delivered' = Delivered,
           purges' = purges, S \cap Delivered = {}
    PROVE  LedgerStep
<1>1. CASE S = {}
  <2>1. entry' = entry
    BY <1>1 DEF Reserve, TypeInv, TypeOK
  <2> QED BY <2>1 DEF LedgerStep, Closed
<1>2. CASE S # {}
  <2>1. /\ Cardinality(EntriesIn(month)) + Cardinality(S) <= Limit
        /\ \A i \in S : entry[i].charge = "none"
        /\ entry' = [i \in Items |-> IF i \in S THEN [charge |-> "reserved", month |-> month]
                                                ELSE entry[i]]
    BY <1>2 DEF Reserve, HasRoomFor
  <2>2. month \in Months
    BY DEF TypeInv, TypeOK
  <2>3. Ledger!Units(month) = EntriesIn(month)
    BY DEF Ledger!Units, EntriesIn
  <2>4. S \cap Ledger!Units(month) = {}
    BY <2>1 DEF Ledger!Units
  <2>8. ASSUME NEW T PROVE Ledger!Cardinality(T) = Cardinality(T)
    BY Zenon DEF Ledger!Cardinality, Cardinality
  <2>5. Ledger!Cardinality(Ledger!Units(month)) + Ledger!Cardinality(S) <= Limit
    BY <2>1, <2>3, <2>8
  <2>6. UNCHANGED <<Delivered, Closed>>
    BY DEF Closed
  <2>7. Ledger!Admit(S, month)
    BY <2>1, <2>4, <2>5, <2>6 DEF Ledger!Admit
  <2> QED BY <2>2, <2>7 DEF LedgerStep, Ledger!LNext
<1> QED BY <1>1, <1>2

(* Releasing the quota of a job gives back.                                *)
LEMMA LedgerReleases ==
    ASSUME TypeInv, Outcome, NEW j, ReleaseQuota(j), Delivered' = Delivered, purges' = purges
    PROVE  LedgerStep
<1>1. PICK S \in SUBSET Items : S = {i \in Items : JobOf[i] = j /\ entry[i].charge = "reserved"}
  OBVIOUS
<1>2. \A i \in S : i \notin Delivered /\ entry[i].charge = "reserved"
  BY <1>1, ReservedIsDue
<1>3. entry' = [i \in Items |-> IF i \in S THEN Ledger!Nothing ELSE entry[i]]
  BY <1>1 DEF ReleaseQuota, Ledger!Nothing, NoEntry
<1>4. Ledger!GiveBack(S)
  BY <1>2, <1>3 DEF Ledger!GiveBack, Closed
<1> QED BY <1>4 DEF LedgerStep, Ledger!LNext

(* Settling delivers, or gives back, or arrives late.                      *)
LEMMA LedgerSettles ==
    ASSUME TypeInv, Outcome, NEW r \in Runs, SettleCommit(r)
    PROVE  LedgerStep
<1>0. /\ RunOK(r) /\ run[r] \in Run /\ entry \in [Items -> Entry] /\ purges' = purges
      /\ run[r].pc = "settling" /\ run[r].job \in Jobs
  BY DEF Outcome, TypeInv, TypeOK, LocalsOK, SettleCommit, world
<1>1. PICK p \in Items : p = run[r].part
  BY <1>0 DEF TypeInv, LocalsOK
<1>2. PICK f \in Keys : f = Key(r) /\ f[2] = p
  BY <1>0, <1>1, KeyType DEF Key
<1>3. JobOf[p] = run[r].job /\ UnitOK(p) /\ PdfOK(p)
  BY <1>0, <1>1 DEF RunOK, Inside, Outcome
<1>4. SettleQuota(p, run[r].ok) /\ run[r].ok \in BOOLEAN
  BY <1>0, <1>1 DEF SettleCommit, Run
<1>5. /\ \A k \in Keys : k # f => art'[k] = art[k]
      /\ IF run[r].ok THEN art'[f].state = "ready" ELSE art' = art
  <2>1. IF run[r].ok THEN art' = [art EXCEPT ![Key(r)].state = "ready"] ELSE art' = art
    BY DEF SettleCommit
  <2> QED BY <1>2, <2>1, ReadyArt
<1>6. ~run[r].ok => Delivered' = Delivered
  BY <1>5, SameDelivered DEF Ready
<1>7. run[r].ok => Delivered' = Delivered \cup {p}
  <2> SUFFICES ASSUME run[r].ok PROVE Delivered' = Delivered \cup {p}
    OBVIOUS
  <2>1. Ready(f)' /\ \A k \in Keys : k # f => (Ready(k)' <=> Ready(k))
    BY <1>5 DEF Ready
  <2> QED BY <1>2, <2>1 DEF Delivered
<1>8. CASE job[JobOf[p]].state = "Purging"
  <2>1. entry' = entry
    BY <1>3, <1>4, <1>8, SettleEntry DEF UnitOK
  <2>2. Closed
    BY <1>0, <1>3, <1>8 DEF Outcome, JobOK
  <2>3. CASE run[r].ok /\ p \notin Delivered
    <3>1. Ledger!ArriveLate(p)
      BY <1>0, <1>7, <2>1, <2>2, <2>3 DEF Ledger!ArriveLate, Closed
    <3> QED BY <3>1 DEF LedgerStep, Ledger!LNext
  <2>4. CASE ~run[r].ok \/ p \in Delivered
    <3>1. Delivered' = Delivered
      BY <1>6, <1>7, <2>4
    <3> QED BY <1>0, <2>1, <3>1 DEF LedgerStep, Closed
  <2> QED BY <2>3, <2>4
<1>9. CASE job[JobOf[p]].state # "Purging"
  <2>1. Has(r)
    BY <1>0, <1>3, <1>9 DEF RunOK
  <2>2. item[p] = "Running" /\ job[JobOf[p]].state = "Running"
    BY <1>0, <1>1, <1>3, <2>1 DEF RunOK, Knows, Inside, Has
  <2>3. entry[p].charge = "reserved"
    BY <1>3, <2>2 DEF UnitOK, Live, Open
  <2>4. p \notin Delivered
    BY <2>3, ReservedIsDue
  <2>5. CASE run[r].ok
    <3>1. entry' = [entry EXCEPT ![p].charge = "consumed"]
      BY <1>4, <2>3, <2>5, SettleEntry
    <3>2. Ledger!Deliver(p)
      BY <1>0, <1>7, <2>3, <2>4, <2>5, <3>1 DEF Ledger!Deliver, Closed
    <3> QED BY <3>2 DEF LedgerStep, Ledger!LNext
  <2>6. CASE ~run[r].ok
    <3>1. entry' = [entry EXCEPT ![p] = NoEntry]
      BY <1>4, <2>3, <2>6, SettleEntry
    <3>2. entry' = [i \in Items |-> IF i \in {p} THEN Ledger!Nothing ELSE entry[i]]
      BY <1>0, <3>1 DEF Ledger!Nothing, NoEntry
    <3>3. Ledger!GiveBack({p})
      BY <1>0, <1>6, <2>3, <2>4, <2>6, <3>2 DEF Ledger!GiveBack, Closed
    <3> QED BY <3>3 DEF LedgerStep, Ledger!LNext
  <2> QED BY <2>5, <2>6
<1> QED BY <1>8, <1>9

(* Every step of Reporting is a step of the ledger or leaves it alone.     *)
LEMMA LedgerSimulates ==
    ASSUME TypeInv, Outcome, Next
    PROVE  LedgerStep
<1>0. purges \in Nat
  BY ConstantsAssumption DEF TypeInv, TypeOK
<1>1. ASSUME NEW j \in Jobs, Submit(j) PROVE LedgerStep
  <2>1. Reserve(ItemsOf(j)) /\ purges' = purges /\ Delivered' = Delivered
    BY <1>1 DEF Submit, world, Delivered, Ready
  <2>2. ItemsOf(j) \in SUBSET Items /\ ItemsOf(j) \cap Delivered = {}
    BY <1>1, DeliveredIs DEF Submit, ItemsOf, Outcome, PdfOK
  <2> QED BY <2>1, <2>2, LedgerAdmits
<1>2. ASSUME NEW j \in Jobs, Retry(j) PROVE LedgerStep
  <2>1. Reserve(FailedItems(j)) /\ purges' = purges /\ Delivered' = Delivered
    BY <1>2 DEF Retry, world, Delivered, Ready
  <2>2. FailedItems(j) \in SUBSET Items /\ FailedItems(j) \cap Delivered = {}
    BY <1>2, DeliveredIs
       DEF Retry, ItemsOf, FailedItems, Outcome, PdfOK, InForce, Exists, JobStates
  <2> QED BY <2>1, <2>2, LedgerAdmits
<1>3. ASSUME NEW j \in Jobs, Cancel(j) PROVE LedgerStep
  <2>1. ReleaseQuota(j) /\ purges' = purges /\ Delivered' = Delivered
    BY <1>3 DEF Cancel, world, Delivered, Ready
  <2> QED BY <2>1, LedgerReleases
<1>4. ASSUME NEW s \in Sweeps, SweepExpire(s) PROVE LedgerStep
  <2>1. ReleaseQuota(sweep[s].job) /\ purges' = purges /\ Delivered' = Delivered
    BY <1>4 DEF SweepExpire, world, Delivered, Ready
  <2> QED BY <2>1, LedgerReleases
<1>5. ASSUME NEW r \in Runs, SettleCommit(r) PROVE LedgerStep
  BY <1>5, LedgerSettles
<1>6. ASSUME PurgeOrg PROVE LedgerStep
  <2>1. purges' = purges + 1
    BY <1>6 DEF PurgeOrg
  <2>2. /\ entry' = [i \in Items |-> Ledger!Nothing]
        /\ Delivered' = Delivered
    BY <1>6 DEF PurgeOrg, Delivered, Ready, Ledger!Nothing, NoEntry
  <2>3. Ledger!Close
    BY <1>0, <2>1, <2>2 DEF Ledger!Close, Closed
  <2> QED BY <2>3 DEF LedgerStep, Ledger!LNext
<1>7. ASSUME NEW s \in Sweeps, SweepRows(s) PROVE LedgerStep
  <2>1. /\ purges' = purges /\ entry' = entry
        /\ art' = [k \in Keys |-> IF k \in sweep[s].keys THEN NoRow ELSE art[k]]
        /\ sweep[s].pc = "delete" /\ SweepOK(s)
    BY <1>7 DEF SweepRows, world, Outcome
  <2>2. CASE sweep[s].purging
    <3>1. \A k \in Keys : Ready(k)' => Ready(k)
      BY <2>1 DEF Ready, NoRow
    <3>2. PICK S \in SUBSET Items : S = Delivered \ Delivered'
      BY DEF Delivered
    <3>3. Delivered' = Delivered \ S
      BY <3>1, <3>2 DEF Delivered
    <3>4. Ledger!Discard(S)
      BY <2>1, <2>2, <3>3 DEF Ledger!Discard, Closed, SweepOK
    <3> QED BY <3>4 DEF LedgerStep, Ledger!LNext
  <2>3. CASE ~sweep[s].purging
    <3>1. \A k \in Keys : k[2] \in Items => (Ready(k)' <=> Ready(k))
      BY <2>1, <2>3, ConstantsAssumption DEF SweepOK, Ready, NoRow
    <3> QED BY <2>1, <3>1, SameDelivered DEF LedgerStep, Closed
  <2> QED BY <2>2, <2>3
<1>8. ASSUME entry' = entry, purges' = purges, \A k \in Keys : k[2] \in Items => (Ready(k)' <=> Ready(k))
      PROVE  LedgerStep
  BY <1>8, SameDelivered DEF LedgerStep, Closed
<1>9. ASSUME NEW s \in Sweeps, SweepForget(s) PROVE LedgerStep
  <2>1. entry' = entry /\ purges' = purges /\ sweep[s].job \in Jobs
    BY <1>9 DEF SweepForget, world, Outcome, SweepOK
  <2>2. ASSUME NEW k \in Keys, k[2] \in Items PROVE Ready(k)' <=> Ready(k)
    <3>1. CASE art' = art
      BY <3>1 DEF Ready
    <3>2. CASE /\ ReadyPdfs(sweep[s].job) = {}
               /\ art' = [l \in Keys |-> IF l \in KeysOf(sweep[s].job) THEN NoRow ELSE art[l]]
      BY <2>2, <3>2 DEF Ready, NoRow, ReadyPdfs
    <3> QED BY <1>9, <2>1, <3>1, <3>2, ForgetJob
  <2> QED BY <1>8, <2>1, <2>2
<1>10. ASSUME NEW r \in Runs, Start(r) PROVE LedgerStep
  <2>1. /\ entry' = entry /\ purges' = purges /\ run[r].pc = "start" /\ Has(r)
        /\ Intend(r, {}) /\ RunOK(r)
    BY <1>10 DEF Start, world, Owns, Has, Outcome
  <2>2. /\ Key(r) \in Keys /\ Key(r)[2] = run[r].part /\ run[r].part \in Items
        /\ JobOf[run[r].part] = run[r].job /\ item[run[r].part] = "Queued"
    BY <2>1, KeyType DEF Key, RunOK, Knows, TypeInv, LocalsOK
  <2>3. ~Ready(Key(r))
    BY <2>1, <2>2 DEF Outcome, PdfOK, InForce, Exists, JobStates, Has, HasPdf
  <2>4. (\A k \in Keys : k # Key(r) => art'[k] = art[k]) /\ art'[Key(r)].state = "pending"
    BY <2>1, <2>2, IntendArt
  <2>5. \A k \in Keys : Ready(k)' <=> Ready(k)
    BY <2>3, <2>4 DEF Ready
  <2> QED BY <1>8, <2>1, <2>5
<1>11. ASSUME NEW r \in Runs, StartBundle(r) \/ ZipCommit(r) PROVE LedgerStep
  <2>1. /\ entry' = entry /\ purges' = purges /\ run[r].pc \in {"bundle", "zipping"}
        /\ run[r].part = Bundle
    BY <1>11 DEF StartBundle, ZipCommit, world, TypeInv, LocalsOK
  <2>2. Key(r) \in Keys /\ Key(r)[2] = Bundle
    BY <2>1, KeyType DEF Key
  <2>3. \A k \in Keys : k # Key(r) => art'[k] = art[k]
    <3>1. CASE StartBundle(r)
      <4>1. Intend(r, run[r].pdfs) /\ run[r].pdfs \in SUBSET Keys
        BY <3>1 DEF StartBundle, TypeInv, TypeOK, Run
      <4> QED BY <2>2, <4>1, IntendArt
    <3>2. CASE ZipCommit(r)
      <4>1. art' = [art EXCEPT ![Key(r)].state = "ready"]
        BY <3>2 DEF ZipCommit
      <4> QED BY <2>2, <4>1, ReadyArt
    <3> QED BY <1>11, <3>1, <3>2
  <2>4. \A k \in Keys : k[2] \in Items => (Ready(k)' <=> Ready(k))
    BY <2>2, <2>3, ConstantsAssumption DEF Ready
  <2> QED BY <1>8, <2>1, <2>4
<1>12. ASSUME NEW f \in Keys, FilePublished(f) PROVE LedgerStep
  <2>1. entry' = entry /\ purges' = purges
    BY <1>12 DEF FilePublished, world
  <2> QED BY <1>8, <1>12, <2>1, FiledArt
<1>13. ASSUME entry' = entry, purges' = purges, art' = art PROVE LedgerStep
  BY <1>8, <1>13 DEF Ready
<1>14. ASSUME NEW j \in Jobs, Claim(j) PROVE LedgerStep
  <2>1. entry' = entry /\ purges' = purges /\ art' = art
    BY <1>14 DEF Claim, world
  <2> QED BY <1>13, <2>1
<1>15. ASSUME NEW j \in Jobs,
              \/ IgnoredDelivery(j) \/ SweepResume(j) \/ LeaseLapses(j) \/ Stall(j)
              \/ RetentionPasses(j)
       PROVE  LedgerStep
  BY <1>13, <1>15
     DEF IgnoredDelivery, SweepResume, LeaseLapses, Stall, RetentionPasses, rows, world
<1>16. ASSUME NEW r \in Runs,
              \/ Load(r) \/ PickItem(r) \/ PickNone(r) \/ Render(r) \/ Settle(r)
              \/ WriteZip(r) \/ BundleFails(r) \/ ZipReady(r) \/ Finish(r)
              \/ LostOwnership(r) \/ Release(r) \/ Crash(r) \/ Abort(r)
       PROVE  LedgerStep
  BY <1>13, <1>16 DEF Load, PickItem, PickNone, Render, Settle, WriteZip, BundleFails, ZipReady,
     Finish, LostOwnership, Release, Crash, Abort, rows, world
<1>17. ASSUME NEW s \in Sweeps,
              \/ SweepSkip(s) \/ SweepCollect(s) \/ SweepDelete(s)
              \/ SweepFails(s) \/ \E j \in Jobs : SweepRead(s, j)
       PROVE  LedgerStep
  BY <1>13, <1>17 DEF SweepSkip, SweepCollect, SweepDelete, SweepFails, SweepRead, rows, world
<1>18. ASSUME NextMonth PROVE LedgerStep
  BY <1>13, <1>18 DEF NextMonth, rows
<1> QED BY <1>1, <1>2, <1>3, <1>4, <1>5, <1>6, <1>7, <1>9, <1>10, <1>11, <1>12, <1>14, <1>15,
           <1>16, <1>17, <1>18
        DEF Next, RunStep, SweepStep

(***************************************************************************)
(* Reporting implements ReportLedger: whatever jobs, runs, retries, sweeps *)
(* and the purge do to each other, the organization sees units admitted    *)
(* within the limit, each turned into usage in the step that delivers its  *)
(* PDF or given back, and nothing refunded or delivered twice.             *)
(***************************************************************************)
THEOREM ReportingImplementsLedger == Spec => ImplementsLedger
<1>1. Init => Ledger!LInit
  <2> SUFFICES ASSUME Init PROVE Ledger!LInit
    OBVIOUS
  <2>1. entry = [i \in Items |-> Ledger!Nothing] /\ ~Closed
    BY DEF Init, Ledger!Nothing, NoEntry, Closed
  <2>2. Delivered = {}
    BY DEF Init, Delivered, Ready, NoRow
  <2> QED BY <2>1, <2>2 DEF Ledger!LInit, Closed
<1>2. ASSUME TypeInv, Outcome, [Next]_vars
      PROVE  [Ledger!LNext]_<<entry, Delivered, Closed>>
  <2>1. CASE Next
    BY <1>2, <2>1, LedgerSimulates DEF LedgerStep
  <2>2. CASE UNCHANGED vars
    BY <2>2 DEF vars, Delivered, Ready, Closed
  <2> QED BY <1>2, <2>1, <2>2
<1>3. Spec => []TypeInv
  BY InitType, TypeStep, PTL DEF Spec
<1>4. Spec => Ledger!LInit /\ [][Ledger!LNext]_<<entry, Delivered, Closed>>
  BY <1>1, <1>2, <1>3, OutcomeAlways, PTL DEF Spec
<1> QED BY <1>4 DEF ImplementsLedger, Ledger!LSpec, Ledger!lvars

(***************************************************************************)
(* ReportQuota and its callers: a succeeded PDF is charged, nothing else   *)
(* is, and a unit is held in reserve exactly while its item may still be   *)
(* produced.                                                               *)
(***************************************************************************)
THEOREM ChargesMatchOutcomes == Spec => []ChargeMatchesOutcome
<1>1. Outcome => ChargeMatchesOutcome
  BY DEF Outcome, UnitOK, ChargeMatchesOutcome, InForce, Exists, Live, Open
<1> QED BY <1>1, OutcomeAlways, PTL

-----------------------------------------------------------------------------
(* What becomes of a row and of an object in one step *)

\* The row is what it was, but for being filed.
Kept(k) ==
    /\ art'[k].rev = art[k].rev /\ art'[k].of = art[k].of
    /\ art'[k].state \in {"ready", "filed"} <=> Ready(k)
    /\ art'[k].state = "none" <=> art[k].state = "none"
    /\ art'[k].state = "pending" <=> art[k].state = "pending"

\* A run writes the row of what it is producing.
Written(k) ==
    \E r \in Runs : k = Key(r) /\ (Start(r) \/ StartBundle(r) \/ SettleCommit(r) \/ ZipCommit(r))

\* A sweep that has expired the job of the key is at work.
Swept(k) ==
    \E s \in Sweeps :
        sweep[s].pc \in {"delete", "row"} /\ run[k[1]].job = sweep[s].job

\* A sweep deletes the row, with those it collected or with the job.
Dropped(k) ==
    \E s \in Sweeps :
        \/ SweepRows(s) /\ k \in sweep[s].keys
        \/ SweepForget(s) /\ k \in KeysOf(sweep[s].job) /\ ReadyPdfs(sweep[s].job) = {}

(* A row changes by the run that writes it or by a sweep of its job.       *)
LEMMA ArtChange ==
    ASSUME TypeInv, Outcome, Next, NEW k \in Keys
    PROVE  Kept(k) \/ Written(k) \/ (Swept(k) /\ Dropped(k) /\ art'[k] = NoRow)
<1> DEFINE P == Kept(k) \/ Written(k) \/ (Swept(k) /\ Dropped(k) /\ art'[k] = NoRow)
<1>1. ASSUME art'[k] = art[k] PROVE P
  BY <1>1 DEF Kept, Ready
<1>2. ASSUME NEW f \in Keys, FilePublished(f) PROVE P
  <2>1. /\ Ready(k)' <=> Ready(k)
        /\ art'[k].state \in {"none", "pending"} => art'[k].state = art[k].state
        /\ art[k].state \in {"none", "pending"} => art'[k].state = art[k].state
        /\ art'[k].rev = art[k].rev /\ art'[k].of = art[k].of
    BY <1>2, FiledArt
  <2> QED BY <2>1 DEF Kept, Ready
<1>3. ASSUME NEW r \in Runs, Start(r) \/ StartBundle(r) PROVE P
  <2>1. run[r].pc \in {"start", "bundle"}
    BY <1>3 DEF Start, StartBundle
  <2>2. PICK of \in SUBSET Keys : Intend(r, of)
    BY <1>3 DEF Start, StartBundle, TypeInv, TypeOK, Run
  <2>3. Key(r) \in Keys
    BY <2>1, KeyType
  <2>4. k # Key(r) => art'[k] = art[k]
    BY <2>2, <2>3, IntendArt
  <2> QED BY <1>1, <1>3, <2>4 DEF Written
<1>4. ASSUME NEW r \in Runs, SettleCommit(r) \/ ZipCommit(r) PROVE P
  <2>1. Key(r) \in Keys
    BY <1>4, KeyType DEF SettleCommit, ZipCommit
  <2>2. art' = art \/ art' = [art EXCEPT ![Key(r)].state = "ready"]
    BY <1>4 DEF SettleCommit, ZipCommit
  <2>3. k # Key(r) => art'[k] = art[k]
    BY <2>1, <2>2, ReadyArt
  <2> QED BY <1>1, <1>4, <2>3 DEF Written
<1>5. ASSUME NEW s \in Sweeps, SweepRows(s) PROVE P
  <2>1. /\ art' = [l \in Keys |-> IF l \in sweep[s].keys THEN NoRow ELSE art[l]]
        /\ sweep[s].pc = "delete" /\ SweepOK(s)
    BY <1>5 DEF SweepRows, Outcome
  <2>2. CASE k \in sweep[s].keys
    BY <1>5, <2>1, <2>2 DEF SweepOK, Swept, Dropped
  <2>3. CASE k \notin sweep[s].keys
    BY <1>1, <2>1, <2>3
  <2> QED BY <2>2, <2>3
<1>6. ASSUME NEW s \in Sweeps, SweepForget(s) PROVE P
  <2>1. sweep[s].job \in Jobs /\ sweep[s].pc = "row"
    BY <1>6 DEF SweepForget, Outcome, SweepOK
  <2>2. CASE art' = art
    BY <1>1, <2>2
  <2>3. CASE /\ art' = [l \in Keys |-> IF l \in KeysOf(sweep[s].job) THEN NoRow ELSE art[l]]
             /\ ReadyPdfs(sweep[s].job) = {}
    <3>1. CASE k \in KeysOf(sweep[s].job)
      BY <1>6, <2>1, <2>3, <3>1 DEF Swept, Dropped, KeysOf
    <3>2. CASE k \notin KeysOf(sweep[s].job)
      BY <1>1, <2>3, <3>2
    <3> QED BY <3>1, <3>2
  <2> QED BY <1>6, <2>1, <2>2, <2>3, ForgetJob
<1>7. ASSUME art' = art PROVE P
  BY <1>1, <1>7
<1> HIDE DEF P
<1>8. ASSUME NEW j \in Jobs,
             \/ Submit(j) \/ Cancel(j) \/ Retry(j) \/ Claim(j) \/ IgnoredDelivery(j)
             \/ SweepResume(j) \/ LeaseLapses(j) \/ Stall(j) \/ RetentionPasses(j)
      PROVE  P
  <2>1. CASE Submit(j)
    BY <1>7, <2>1 DEF Submit
  <2>2. CASE Cancel(j)
    BY <1>7, <2>2 DEF Cancel
  <2>3. CASE Retry(j)
    BY <1>7, <2>3 DEF Retry
  <2>4. CASE Claim(j)
    BY <1>7, <2>4 DEF Claim
  <2> QED BY <1>7, <1>8, <2>1, <2>2, <2>3, <2>4
          DEF IgnoredDelivery, SweepResume, LeaseLapses, Stall, RetentionPasses, rows
<1>9. ASSUME NEW r \in Runs,
             \/ Load(r) \/ PickItem(r) \/ PickNone(r) \/ Render(r) \/ Settle(r)
             \/ WriteZip(r) \/ BundleFails(r) \/ ZipReady(r) \/ Finish(r)
             \/ LostOwnership(r) \/ Release(r) \/ Crash(r) \/ Abort(r)
      PROVE  P
  BY <1>7, <1>9 DEF Load, PickItem, PickNone, Render, Settle, WriteZip, BundleFails, ZipReady,
     Finish, LostOwnership, Release, Crash, Abort, rows
<1>10. ASSUME NEW s \in Sweeps,
              \/ SweepExpire(s) \/ SweepSkip(s) \/ SweepCollect(s) \/ SweepDelete(s)
              \/ SweepFails(s) \/ \E j \in Jobs : SweepRead(s, j)
       PROVE  P
  BY <1>7, <1>10 DEF SweepExpire, SweepSkip, SweepCollect, SweepDelete, SweepFails, SweepRead, rows
<1>11. ASSUME PurgeOrg \/ NextMonth PROVE P
  BY <1>7, <1>11 DEF PurgeOrg, NextMonth, rows
<1>12. P
  BY <1>2, <1>3, <1>4, <1>5, <1>6, <1>8, <1>9, <1>10, <1>11 DEF Next, RunStep, SweepStep
<1> QED BY <1>12 DEF P

(* The Ready PDFs of a job, by item.                                       *)
LEMMA ReadyPdfsAre ==
    ASSUME Outcome, NEW j
    PROVE  ReadyPdfs(j) = {k \in Keys : k[2] \in Items /\ JobOf[k[2]] = j /\ Ready(k)}
BY DEF Outcome, RowOK, ReadyPdfs, KeysOf, Ready

(* A job a sweep is at work on is abandoned.                               *)
LEMMA SweptIsAbandoned ==
    ASSUME Outcome, NEW k, Swept(k)
    PROVE  Abandoned(run[k[1]].job)
BY DEF Outcome, Swept, SweepOK

(* The PDFs of a job that is not abandoned change by settling alone.       *)
LEMMA PdfsStay ==
    ASSUME TypeInv, Outcome, Outcome', Next, NEW j \in Jobs, ~Abandoned(j),
           ~ \E r \in Runs : SettleCommit(r) /\ run[r].job = j
    PROVE  ReadyPdfs(j)' = ReadyPdfs(j)
<1>1. ReadyPdfs(j) = {k \in Keys : k[2] \in Items /\ JobOf[k[2]] = j /\ Ready(k)}
  BY ReadyPdfsAre
<1>2. ReadyPdfs(j)' = {k \in Keys : k[2] \in Items /\ JobOf[k[2]] = j /\ Ready(k)'}
  BY DEF Outcome, RowOK, ReadyPdfs, KeysOf, Ready
<1>3. ASSUME NEW k \in Keys, k[2] \in Items, JobOf[k[2]] = j PROVE Ready(k)' <=> Ready(k)
  <2>1. CASE Kept(k)
    BY <2>1 DEF Kept, Ready
  <2>2. CASE Swept(k) /\ art'[k] = NoRow
    <3>1. ~Ready(k)'
      BY <2>2 DEF Ready, NoRow
    <3>2. Ready(k) => run[k[1]].job = j
      BY <1>3 DEF Outcome, RowOK, Ready
    <3> QED BY <2>2, <3>1, <3>2, SweptIsAbandoned
  <2>3. CASE Written(k)
    <3>1. PICK r \in Runs : /\ k = Key(r)
                            /\ Start(r) \/ StartBundle(r) \/ SettleCommit(r) \/ ZipCommit(r)
      BY <2>3 DEF Written
    <3>2. run[r].pc \in {"start", "bundle", "settling", "zipping"} /\ run[r].part = k[2]
      BY <3>1 DEF Start, StartBundle, SettleCommit, ZipCommit, Key
    <3>3. run[r].pc \in {"start", "settling"} /\ run[r].job = j
      BY <1>3, <3>2, ConstantsAssumption DEF TypeInv, LocalsOK, Outcome, RunOK, Inside
    <3>4. Start(r)
      BY <3>1, <3>3 DEF StartBundle, ZipCommit
    <3>5. /\ Has(r) /\ Intend(r, {}) /\ RunOK(r)
      BY <3>4 DEF Start, Owns, Has, Outcome
    <3>6. item[k[2]] = "Queued" /\ run[r].pc = "start"
      BY <3>2, <3>4, <3>5 DEF RunOK, Knows, Start
    <3>7. ~Ready(k)
      BY <1>3, <3>3, <3>5, <3>6 DEF Outcome, PdfOK, InForce, Exists, JobStates, Has, HasPdf
    <3>8. art'[k].state = "pending"
      BY <3>1, <3>5, IntendArt
    <3> QED BY <3>7, <3>8 DEF Ready
  <2> QED BY <2>1, <2>2, <2>3, ArtChange
<1> QED BY <1>1, <1>2, <1>3

(* A sweep deletes objects of the job it is at work on.                    *)
LEMMA BytesStay ==
    ASSUME TypeInv, Outcome, Next, NEW k \in bytes,
           \A s \in Sweeps : sweep[s].pc = "delete" => sweep[s].todo \subseteq sweep[s].keys
    PROVE  k \in bytes' \/ Swept(k)
<1> DEFINE P == k \in bytes' \/ Swept(k)
<1>1. ASSUME NEW s \in Sweeps, SweepDelete(s) PROVE P
  <2>1. /\ sweep[s].pc = "delete" /\ SweepOK(s)
        /\ \E l \in sweep[s].todo : bytes' = bytes \ {l}
    BY <1>1 DEF SweepDelete, Outcome
  <2> QED BY <2>1 DEF SweepOK, Swept
<1>2. ASSUME bytes \subseteq bytes' PROVE P
  BY <1>2
<1> HIDE DEF P
<1>3. ASSUME NEW j \in Jobs,
             \/ Submit(j) \/ Cancel(j) \/ Retry(j) \/ Claim(j) \/ IgnoredDelivery(j)
             \/ SweepResume(j) \/ LeaseLapses(j) \/ Stall(j) \/ RetentionPasses(j)
      PROVE  P
  <2>1. CASE Submit(j)
    BY <1>2, <2>1 DEF Submit
  <2>2. CASE Cancel(j)
    BY <1>2, <2>2 DEF Cancel
  <2>3. CASE Retry(j)
    BY <1>2, <2>3 DEF Retry
  <2>4. CASE Claim(j)
    BY <1>2, <2>4 DEF Claim
  <2> QED BY <1>2, <1>3, <2>1, <2>2, <2>3, <2>4
          DEF IgnoredDelivery, SweepResume, LeaseLapses, Stall, RetentionPasses, rows
<1>4. ASSUME NEW r \in Runs, Render(r) \/ WriteZip(r) \/ BundleFails(r) \/ Crash(r) \/ Abort(r)
      PROVE  P
  <2>1. bytes \subseteq bytes'
    BY <1>4 DEF Render, WriteZip, BundleFails, Crash, Abort, CutShort
  <2> QED BY <1>2, <2>1
<1>5. ASSUME NEW r \in Runs,
             \/ Load(r) \/ PickItem(r) \/ PickNone(r) \/ Start(r) \/ Settle(r) \/ SettleCommit(r)
             \/ StartBundle(r) \/ ZipReady(r) \/ ZipCommit(r) \/ Finish(r)
             \/ LostOwnership(r) \/ Release(r)
      PROVE  P
  <2>1. bytes' = bytes
    BY <1>5 DEF Load, PickItem, PickNone, Start, Settle, SettleCommit, StartBundle, ZipReady,
       ZipCommit, Finish, LostOwnership, Release, rows
  <2> QED BY <1>2, <2>1
<1>6. ASSUME NEW s \in Sweeps,
             \/ SweepExpire(s) \/ SweepSkip(s) \/ SweepCollect(s) \/ SweepRows(s)
             \/ SweepForget(s) \/ SweepFails(s) \/ \E j \in Jobs : SweepRead(s, j)
      PROVE  P
  <2>1. bytes' = bytes
    BY <1>6 DEF SweepExpire, SweepSkip, SweepCollect, SweepRows, SweepForget, SweepFails,
       SweepRead, rows
  <2> QED BY <1>2, <2>1
<1>7. ASSUME (\E f \in Keys : FilePublished(f)) \/ PurgeOrg \/ NextMonth PROVE P
  BY <1>2, <1>7 DEF FilePublished, PurgeOrg, NextMonth, rows
<1>8. P
  BY <1>1, <1>3, <1>4, <1>5, <1>6, <1>7 DEF Next, RunStep, SweepStep
<1> QED BY <1>8 DEF P

(* A job in force keeps its revision or takes the next one; while it keeps *)
(* it, no item is opened again.                                            *)
LEMMA RevisionsGrow ==
    ASSUME TypeInv, Outcome, Next, NEW j \in Jobs
    PROVE  job'[j].revision \in {job[j].revision, job[j].revision + 1}
<1> DEFINE P == job'[j].revision \in {job[j].revision, job[j].revision + 1}
<1>1. ASSUME NEW h \in Jobs, Submit(h) PROVE P
  BY <1>1, SubmitJob DEF Others
<1>2. ASSUME NEW h \in Jobs, Cancel(h) PROVE P
  BY <1>2, CancelJob DEF Others
<1>3. ASSUME NEW h \in Jobs, Retry(h) PROVE P
  BY <1>3, RetryJob DEF Others
<1>4. ASSUME NEW h \in Jobs, Claim(h) PROVE P
  BY <1>4, ClaimJob DEF Others
<1>5. ASSUME NEW h \in Jobs, LeaseLapses(h) \/ Stall(h) PROVE P
  BY <1>5, LeaseJob DEF SameButLease
<1>6. ASSUME NEW h \in Jobs, RetentionPasses(h) PROVE P
  BY <1>6, RetentionJob DEF Others
<1>7. ASSUME NEW r \in Runs, Start(r) \/ StartBundle(r) PROVE P
  BY <1>7, LeaseJob DEF SameButLease
<1>8. ASSUME NEW r \in Runs, Finish(r) PROVE P
  BY <1>8, FinishJob DEF Others
<1>9. ASSUME NEW r \in Runs, Release(r) PROVE P
  BY <1>9, ReleaseJob
<1>10. ASSUME NEW s \in Sweeps, SweepExpire(s) PROVE P
  <2>1. sweep[s].job \in Jobs
    BY <1>10 DEF SweepExpire, SweepOK, Outcome
  <2> QED BY <1>10, <2>1, ExpireJob DEF Others
<1>11. ASSUME NEW s \in Sweeps, SweepForget(s) PROVE P
  <2>1. sweep[s].job \in Jobs
    BY <1>11 DEF SweepForget, SweepOK, Outcome
  <2> QED BY <1>11, <2>1, ForgetJob DEF Others
<1>12. ASSUME PurgeOrg PROVE P
  BY <1>12, PurgeJob
<1>13. ASSUME job' = job PROVE P
  BY <1>13
<1> HIDE DEF P
<1>14. P
  BY <1>1, <1>2, <1>3, <1>4, <1>5, <1>6, <1>7, <1>8, <1>9, <1>10, <1>11, <1>12, <1>13, OtherSteps
     DEF Next, RunStep, SweepStep
<1> QED BY <1>14 DEF P

(* An item that is not open is opened by a submission or a retry alone.    *)
LEMMA ItemsStayClosed ==
    ASSUME TypeInv, Outcome, Next, NEW i \in Items, ~Open(i),
           job[JobOf[i]].state # "None", job'[JobOf[i]].revision = job[JobOf[i]].revision
    PROVE  ~Open(i)'
<1>0. item \in [Items -> ItemStates \cup {"None"}] /\ JobOf[i] \in Jobs /\ job[JobOf[i]] \in Job
  BY ConstantsAssumption DEF TypeInv, TypeOK
<1> DEFINE P == ~Open(i)'
<1>1. ASSUME item'[i] = item[i] PROVE P
  BY <1>1 DEF Open
<1>2. ASSUME NEW h \in Jobs, Submit(h) PROVE P
  <2>1. JobOf[i] # h /\ item'[i] = IF JobOf[i] = h THEN "Queued" ELSE item[i]
    BY <1>2 DEF Submit
  <2> QED BY <1>1, <2>1
<1>3. ASSUME NEW h \in Jobs, Cancel(h) PROVE P
  <2>1. item'[i] \in {item[i], "Canceled"}
    BY <1>3 DEF Cancel
  <2> QED BY <2>1 DEF Open
<1>4. ASSUME NEW h \in Jobs, Retry(h) PROVE P
  <2>1. JobOf[i] # h
    <3>1. job'[h].revision = job[h].revision + 1
      BY <1>4, RetryJob
    <3>2. job[h].revision \in Nat
      BY DEF TypeInv, TypeOK, Job
    <3> QED BY <3>1, <3>2
  <2>2. item'[i] = IF i \in FailedItems(h) THEN "Queued" ELSE item[i]
    BY <1>4 DEF Retry
  <2> QED BY <1>1, <2>1, <2>2 DEF FailedItems, ItemsOf
<1>5. ASSUME NEW h \in Jobs, Claim(h) PROVE P
  <2>1. item'[i] = IF JobOf[i] = h /\ item[i] = "Running" THEN "Queued" ELSE item[i]
    BY <1>5 DEF Claim
  <2> QED BY <1>1, <2>1 DEF Open
<1>6. ASSUME NEW r \in Runs, Start(r) PROVE P
  <2>1. /\ run[r].pc = "start" /\ Has(r) /\ RunOK(r) /\ run[r].part \in Items
        /\ item' = [item EXCEPT ![run[r].part] = "Running"]
    BY <1>6 DEF Start, Owns, Has, Outcome, TypeInv, LocalsOK
  <2>2. item[run[r].part] = "Queued"
    BY <2>1 DEF RunOK, Knows
  <2> QED BY <1>0, <1>1, <2>1, <2>2 DEF Open
<1>7. ASSUME NEW r \in Runs, SettleCommit(r) PROVE P
  <2>1. item' = [item EXCEPT ![run[r].part] = IF run[r].ok THEN "Succeeded" ELSE "Failed"]
    BY <1>7 DEF SettleCommit
  <2> QED BY <1>0, <2>1 DEF Open
<1>8. ASSUME NEW s \in Sweeps, SweepForget(s) PROVE P
  <2>1. item'[i] \in {item[i], "None"}
    BY <1>8 DEF SweepForget
  <2> QED BY <2>1 DEF Open
<1>9. ASSUME item' = item PROVE P
  BY <1>1, <1>9
<1> HIDE DEF P
<1>10. ASSUME NEW h \in Jobs,
              \/ IgnoredDelivery(h) \/ SweepResume(h) \/ LeaseLapses(h) \/ Stall(h)
              \/ RetentionPasses(h)
       PROVE  P
  BY <1>9, <1>10 DEF IgnoredDelivery, SweepResume, LeaseLapses, Stall, RetentionPasses, rows
<1>11. ASSUME NEW r \in Runs,
              \/ Load(r) \/ PickItem(r) \/ PickNone(r) \/ Render(r) \/ Settle(r)
              \/ StartBundle(r) \/ WriteZip(r) \/ BundleFails(r) \/ ZipReady(r) \/ ZipCommit(r)
              \/ Finish(r) \/ LostOwnership(r) \/ Release(r) \/ Crash(r) \/ Abort(r)
       PROVE  P
  BY <1>9, <1>11 DEF Load, PickItem, PickNone, Render, Settle, StartBundle, WriteZip, BundleFails,
     ZipReady, ZipCommit, Finish, LostOwnership, Release, Crash, Abort, rows
<1>12. ASSUME NEW s \in Sweeps,
              \/ SweepExpire(s) \/ SweepSkip(s) \/ SweepCollect(s) \/ SweepDelete(s)
              \/ SweepRows(s) \/ SweepFails(s) \/ \E h \in Jobs : SweepRead(s, h)
       PROVE  P
  BY <1>9, <1>12 DEF SweepExpire, SweepSkip, SweepCollect, SweepDelete, SweepRows, SweepFails,
     SweepRead, rows
<1>13. ASSUME (\E f \in Keys : FilePublished(f)) \/ NextMonth \/ PurgeOrg PROVE P
  BY <1>9, <1>13 DEF FilePublished, NextMonth, PurgeOrg, rows
<1>14. P
  BY <1>2, <1>3, <1>4, <1>5, <1>6, <1>7, <1>8, <1>10, <1>11, <1>12, <1>13
     DEF Next, RunStep, SweepStep
<1> QED BY <1>14 DEF P

-----------------------------------------------------------------------------
(* Bundles *)

\* The labels at which a run has read the job, and those of the bundle.
Informed == {"pick", "start"} \cup Inside \cup After
Bundling == {"bundle", "zip", "zipready", "zipping"}

\* The run that builds a bundle knows the revision and the PDFs, has a row for
\* the bundle and then the object, and commits for a job it still holds.
BuilderOK(r) ==
    /\ run[r].pc # "new" => job[run[r].job].state # "None"
    /\ run[r].pc \in Informed /\ Has(r) => run[r].rev = job[run[r].job].revision
    /\ run[r].pc \in Bundling /\ Has(r) => run[r].pdfs = ReadyPdfs(run[r].job)
    /\ run[r].pc \in Bundling \ {"bundle"} /\ Has(r) =>
          /\ art[Key(r)].state = "pending" /\ art[Key(r)].rev = run[r].rev
          /\ art[Key(r)].of = run[r].pdfs
    /\ run[r].pc \in {"zipready", "zipping"} /\ Has(r) => Key(r) \in bytes
    /\ run[r].pc = "zipping" => Has(r) \/ job[run[r].job].state = "Purging"

\* What a download relies on.
Whole(k, j) ==
    /\ k \in bytes
    /\ art[k].of = ReadyPdfs(j)
    /\ \A i \in Items : JobOf[i] = j => ~Open(i)

BundleOK(k) ==
    k[2] = Bundle /\ art[k].state # "none" /\ InForce(run[k[1]].job) =>
        /\ art[k].rev <= job[run[k[1]].job].revision
        /\ (Ready(k) /\ ~Expired(run[k[1]].job) /\ art[k].rev = job[run[k[1]].job].revision)
              => Whole(k, run[k[1]].job)

Bundles ==
    /\ \A r \in Runs : BuilderOK(r)
    /\ \A k \in Keys : BundleOK(k)
    /\ \A s \in Sweeps : sweep[s].pc = "delete" => sweep[s].todo \subseteq sweep[s].keys

(* A sweep deletes nothing it has not collected.                           *)
LEMMA TodoStep ==
    ASSUME TypeInv, Next, NEW s \in Sweeps,
           sweep[s].pc = "delete" => sweep[s].todo \subseteq sweep[s].keys
    PROVE  sweep'[s].pc = "delete" => sweep'[s].todo \subseteq sweep'[s].keys
<1>0. sweep \in [Sweeps -> Sweep] /\ sweep[s] \in Sweep
  BY DEF TypeInv, TypeOK
<1> DEFINE P == sweep'[s].pc = "delete" => sweep'[s].todo \subseteq sweep'[s].keys
<1>1. ASSUME sweep'[s] = sweep[s] PROVE P
  BY <1>1
<1>2. ASSUME sweep' = sweep PROVE P
  BY <1>2
<1>3. ASSUME NEW t \in Sweeps, SweepCollect(t) PROVE P
  <2> DEFINE keys == {k \in KeysOf(sweep[t].job) : sweep[t].purging \/ Disposable(k)}
  <2>1. sweep' = [sweep EXCEPT ![t].pc = "delete", ![t].keys = keys, ![t].todo = keys]
    BY <1>3 DEF SweepCollect
  <2> HIDE DEF keys
  <2> QED BY <1>0, <2>1 DEF Sweep
<1>4. ASSUME NEW t \in Sweeps, SweepDelete(t) PROVE P
  <2>1. PICK k \in sweep[t].todo : sweep' = [sweep EXCEPT ![t].todo = @ \ {k}]
    BY <1>4 DEF SweepDelete
  <2> QED BY <1>0, <2>1 DEF Sweep
<1>5. ASSUME NEW t \in Sweeps,
             \/ SweepExpire(t) \/ SweepSkip(t) \/ SweepRows(t) \/ SweepForget(t)
             \/ SweepFails(t) \/ \E j \in Jobs : SweepRead(t, j)
      PROVE  P
  <2>1. /\ t # s => sweep'[s] = sweep[s]
        /\ t = s => sweep'[s].pc # "delete"
    <3>1. CASE SweepExpire(t)
      <4>1. sweep' = [sweep EXCEPT ![t].pc = "collect"]
        BY <3>1 DEF SweepExpire
      <4> QED BY <1>0, <4>1 DEF Sweep
    <3>2. CASE SweepRows(t)
      <4>1. sweep' = [sweep EXCEPT ![t].pc = "row"]
        BY <3>2 DEF SweepRows
      <4> QED BY <1>0, <4>1 DEF Sweep
    <3>3. CASE SweepSkip(t) \/ SweepForget(t) \/ SweepFails(t)
      <4>1. sweep' = [sweep EXCEPT ![t] = IdleSweep]
        BY <3>3 DEF SweepSkip, SweepForget, SweepFails
      <4> QED BY <1>0, <4>1 DEF IdleSweep
    <3>4. CASE \E j \in Jobs : SweepRead(t, j)
      <4>1. PICK j \in Jobs : SweepRead(t, j)
        BY <3>4
      <4>2. \E p, f : sweep' = [sweep EXCEPT ![t].pc = "expire", ![t].job = j,
                                             ![t].purging = p, ![t].forget = f]
        BY <4>1 DEF SweepRead
      <4> QED BY <1>0, <4>2 DEF Sweep
    <3> QED BY <1>5, <3>1, <3>2, <3>3, <3>4
  <2> QED BY <1>1, <2>1
<1> HIDE DEF P
<1>6. ASSUME NEW j \in Jobs,
             \/ Submit(j) \/ Cancel(j) \/ Retry(j) \/ Claim(j) \/ IgnoredDelivery(j)
             \/ SweepResume(j) \/ LeaseLapses(j) \/ Stall(j) \/ RetentionPasses(j)
      PROVE  P
  <2>1. CASE Submit(j)
    BY <1>2, <2>1 DEF Submit
  <2>2. CASE Cancel(j)
    BY <1>2, <2>2 DEF Cancel
  <2>3. CASE Retry(j)
    BY <1>2, <2>3 DEF Retry
  <2>4. CASE Claim(j)
    BY <1>2, <2>4 DEF Claim
  <2> QED BY <1>2, <1>6, <2>1, <2>2, <2>3, <2>4
          DEF IgnoredDelivery, SweepResume, LeaseLapses, Stall, RetentionPasses
<1>7. ASSUME NEW r \in Runs, RunStep(r) \/ Crash(r) \/ Abort(r) PROVE P
  BY <1>2, <1>7 DEF RunStep, Load, PickItem, PickNone, Start, Render, Settle, SettleCommit,
     StartBundle, WriteZip, BundleFails, ZipReady, ZipCommit, Finish, LostOwnership, Release,
     Crash, Abort
<1>8. ASSUME (\E f \in Keys : FilePublished(f)) \/ PurgeOrg \/ NextMonth PROVE P
  BY <1>2, <1>8 DEF FilePublished, PurgeOrg, NextMonth
<1>9. P
  BY <1>3, <1>4, <1>5, <1>6, <1>7, <1>8 DEF Next, SweepStep
<1> QED BY <1>9 DEF P

(* A run that stays where it is has nothing committed in its name.         *)
LEMMA CommitsMove ==
    ASSUME TypeInv, NEW q \in Runs,
           Start(q) \/ StartBundle(q) \/ SettleCommit(q) \/ ZipCommit(q)
    PROVE  run'[q].pc # run[q].pc
<1>0. TypeOK /\ run \in [Runs -> Run] /\ run[q] \in Run
  BY DEF TypeInv, TypeOK
<1>1. CASE Start(q)
  BY <1>0, <1>1, GotoType DEF Start, RunLabels
<1>2. CASE StartBundle(q)
  BY <1>0, <1>2, GotoType DEF StartBundle, RunLabels
<1>3. CASE SettleCommit(q)
  BY <1>0, <1>3, LeaveType DEF SettleCommit, RunLabels
<1>4. CASE ZipCommit(q)
  BY <1>0, <1>4 DEF ZipCommit, Run
<1> QED BY <1>1, <1>2, <1>3, <1>4

(* The job of a run that holds it is settled by that run alone, and its    *)
(* rows and objects stay.                                                  *)
LEMMA HeldStays ==
    ASSUME TypeInv, Outcome, Outcome', Bundles, Next, NEW r \in Runs, run'[r] = run[r],
           NEW j \in Jobs, run[r].job = j, Has(r)
    PROVE  /\ ReadyPdfs(j)' = ReadyPdfs(j)
           /\ \A f \in Keys : f[1] = r => Kept(f) /\ (f \in bytes => f \in bytes')
<1>1. job[j].state = "Running" /\ job[j].owner = r
  BY DEF Has
<1>2. ~Abandoned(j)
  BY <1>1, ConstantsAssumption DEF Abandoned
<1>3. ASSUME NEW q \in Runs, SettleCommit(q), run[q].job = j PROVE FALSE
  <2>1. run[q].pc = "settling" /\ RunOK(q)
    BY <1>3 DEF SettleCommit, Outcome
  <2>2. q = r
    BY <1>1, <1>3, <2>1 DEF RunOK, Has
  <2> QED BY <1>3, <2>2, CommitsMove
<1>4. ReadyPdfs(j)' = ReadyPdfs(j)
  BY <1>2, <1>3, PdfsStay
<1>5. ASSUME NEW f \in Keys, f[1] = r PROVE Kept(f) /\ (f \in bytes => f \in bytes')
  <2>1. ~Swept(f)
    BY <1>2, <1>5, SweptIsAbandoned
  <2>2. ~Written(f)
    <3> SUFFICES ASSUME NEW q \in Runs, f = Key(q),
                        Start(q) \/ StartBundle(q) \/ SettleCommit(q) \/ ZipCommit(q)
                 PROVE  FALSE
      BY DEF Written
    <3>1. q = r
      BY <1>5 DEF Key
    <3> QED BY <3>1, CommitsMove
  <2>3. \A s \in Sweeps : sweep[s].pc = "delete" => sweep[s].todo \subseteq sweep[s].keys
    BY DEF Bundles
  <2> QED BY <2>1, <2>2, <2>3, ArtChange, BytesStay
<1> QED BY <1>4, <1>5

(* Steps of the others leave a builder what it knows.                      *)
LEMMA BuilderBystander ==
    ASSUME TypeInv, Outcome, Outcome', Bundles, Next, NEW r \in Runs, run'[r] = run[r]
    PROVE  BuilderOK(r)'
<1>0. BuilderOK(r) /\ \A s \in Sweeps : SweepOK(s)
  BY DEF Bundles, Outcome
<1>1. CASE run[r].pc = "new"
  BY <1>1 DEF BuilderOK, Informed, Bundling, Inside, After
<1>2. CASE run[r].pc # "new"
  <2>1. PICK j \in Jobs : j = run[r].job
    BY <1>2 DEF TypeInv, LocalsOK
  <2>2. job[j].state # "None" /\ job'[j].state # "None"
    BY <1>0, <1>2, <2>1, JobsGoOn DEF BuilderOK
  <2>3. ASSUME Has(r)'
        PROVE  /\ Has(r) /\ job'[j].revision = job[j].revision
               /\ ReadyPdfs(j)' = ReadyPdfs(j)
               /\ \A f \in Keys : f[1] = r => Kept(f) /\ (f \in bytes => f \in bytes')
    <3>1. job'[j].state = "Running" /\ job'[j].owner = r
      BY <2>1, <2>3 DEF Has
    <3>2. Has(r) /\ job'[j].revision = job[j].revision
      BY <1>2, <2>1, <3>1, NoWayBack DEF Has
    <3> QED BY <2>1, <3>2, HeldStays
  <2>4. run[r].pc = "zipping" => Has(r)' \/ job'[j].state = "Purging"
    <3>1. ASSUME run[r].pc = "zipping", job[j].state = "Purging" PROVE job'[j].state = "Purging"
      BY <2>1, <3>1, TxKeeps
    <3>2. ASSUME run[r].pc = "zipping", Has(r) PROVE Has(r)' \/ job'[j].state = "Purging"
      BY <2>1, <2>2, <3>2, TxKeeps DEF Has
    <3> QED BY <1>0, <2>1, <3>1, <3>2 DEF BuilderOK
  <2>5. run[r].pc \in Informed /\ Has(r)' => run[r].rev = job'[j].revision
    BY <1>0, <2>1, <2>3 DEF BuilderOK
  <2>6. run[r].pc \in Bundling /\ Has(r)' => run[r].pdfs = ReadyPdfs(j)'
    BY <1>0, <2>1, <2>3 DEF BuilderOK
  <2>7. ASSUME run[r].pc \in Bundling \ {"bundle"}, Has(r)'
        PROVE  /\ art'[Key(r)].state = "pending" /\ art'[Key(r)].rev = run[r].rev
               /\ art'[Key(r)].of = run[r].pdfs
               /\ run[r].pc \in {"zipready", "zipping"} => Key(r) \in bytes'
    <3>1. PICK f \in Keys : f = Key(r)
      BY <2>7, KeyType DEF Bundling
    <3>2. f[1] = r
      BY <3>1 DEF Key
    <3> QED BY <1>0, <2>3, <2>7, <3>1, <3>2 DEF BuilderOK, Kept
  <2>8. /\ Key(r)' = Key(r) /\ run'[r].pc = run[r].pc /\ run'[r].job = j
        /\ run'[r].rev = run[r].rev /\ run'[r].pdfs = run[r].pdfs
    BY <2>1 DEF Key
  <2>9. run'[r].pc \in {"zipready", "zipping"} => run[r].pc \in Bundling \ {"bundle"}
    BY <2>8 DEF Bundling
  <2>10. Informed' = Informed /\ Bundling' = Bundling
    BY DEF Informed, Bundling, Inside, After
  <2>11. ReadyPdfs(run[r].job)' = ReadyPdfs(j)'
    BY <2>8
  <2> HIDE DEF Informed, Bundling
  <2> QED BY <2>2, <2>4, <2>5, <2>6, <2>7, <2>8, <2>9, <2>10, <2>11 DEF BuilderOK
<1> QED BY <1>1, <1>2

(* A run that is not building a bundle need only know the revision.        *)
LEMMA NotBundling ==
    ASSUME NEW r, NEW j, run'[r].job = j, job'[j].state # "None", run'[r].pc \notin Bundling,
           run'[r].pc \in Informed /\ Has(r)' => run'[r].rev = job'[j].revision
    PROVE  BuilderOK(r)'
<1>1. Informed' = Informed /\ Bundling' = Bundling
  BY DEF Informed, Bundling, Inside, After
<1>2. run'[r].pc \notin {"zipready", "zipping"}
  BY DEF Bundling
<1> HIDE DEF Informed, Bundling
<1> QED BY <1>1, <1>2 DEF BuilderOK

(* What a run reads in PickNone is the Ready PDFs, while it holds the job. *)
LEMMA PickedPdfs ==
    ASSUME Outcome, NEW j \in Jobs, job[j].state = "Running"
    PROVE  {k \in ReadyPdfs(j) : k[2] \in Succeeded(j)} = ReadyPdfs(j)
<1>1. ReadyPdfs(j) = {k \in Keys : k[2] \in Items /\ JobOf[k[2]] = j /\ Ready(k)}
  BY ReadyPdfsAre
<1>2. ASSUME NEW k \in ReadyPdfs(j) PROVE k[2] \in Succeeded(j)
  <2>1. k \in Keys /\ k[2] \in Items /\ JobOf[k[2]] = j /\ Ready(k)
    BY <1>1, <1>2
  <2>2. InForce(j)
    BY DEF InForce, Exists, JobStates
  <2>3. item[k[2]] = "Succeeded"
    BY <2>1, <2>2 DEF Outcome, PdfOK, HasPdf
  <2> QED BY <2>1, <2>3 DEF Succeeded, ItemsOf
<1> QED BY <1>2

(* The PDFs of a job that a run holds stay, unless that run settles.       *)
LEMMA HeldPdfs ==
    ASSUME TypeInv, Outcome, Outcome', Next, NEW r \in Runs, NEW j \in Jobs, run[r].job = j,
           Has(r), run[r].pc # "settling"
    PROVE  ReadyPdfs(j)' = ReadyPdfs(j)
<1>1. job[j].state = "Running" /\ job[j].owner = r
  BY DEF Has
<1>2. ~Abandoned(j)
  BY <1>1, ConstantsAssumption DEF Abandoned
<1>3. ASSUME NEW q \in Runs, SettleCommit(q), run[q].job = j PROVE FALSE
  BY <1>1, <1>3 DEF SettleCommit, Outcome, RunOK, Has
<1> QED BY <1>2, <1>3, PdfsStay

(* A step of a builder leaves it knowing what its next label says.         *)
LEMMA BuilderOwnStep ==
    ASSUME TypeInv, Outcome, Outcome', Bundles, Next, NEW r \in Runs,
           RunStep(r) \/ Crash(r) \/ Abort(r)
    PROVE  BuilderOK(r)'
<1>0. /\ TypeOK /\ run \in [Runs -> Run] /\ run[r] \in Run
      /\ BuilderOK(r) /\ RunOK(r) /\ \A s \in Sweeps : SweepOK(s)
  BY DEF TypeInv, TypeOK, Bundles, Outcome
<1>1. run[r].pc # "new"
  BY DEF RunStep, Load, PickItem, PickNone, Start, Render, Settle, SettleCommit, StartBundle,
     WriteZip, BundleFails, ZipReady, ZipCommit, Finish, LostOwnership, Release, Crash, Abort,
     Active
<1>2. PICK j \in Jobs : j = run[r].job
  BY <1>1 DEF TypeInv, LocalsOK
<1>3. job'[j].state # "None"
  BY <1>0, <1>1, <1>2, JobsGoOn DEF BuilderOK
<1>4. run'[r].job = j
  BY <1>1, <1>2, RunsGoOn
<1>5. ASSUME Has(r)' PROVE Has(r) /\ job'[j].revision = job[j].revision
  <2>1. job'[j].state = "Running" /\ job'[j].owner = r
    BY <1>4, <1>5 DEF Has
  <2> QED BY <1>1, <1>2, <2>1, NoWayBack DEF Has
<1>6. ASSUME run'[r].pc \notin Bundling,
             \/ run[r].pc \in Informed /\ run'[r].rev = run[r].rev
             \/ run'[r].pc \notin Informed
      PROVE  BuilderOK(r)'
  <2>1. run'[r].pc \in Informed /\ Has(r)' => run'[r].rev = job'[j].revision
    BY <1>0, <1>2, <1>5, <1>6 DEF BuilderOK
  <2> QED BY <1>3, <1>4, <1>6, <2>1, NotBundling
<1>7. ASSUME run'[r].pc \in Bundling, run'[r].rev = run[r].rev, run[r].pc \in Informed,
             run[r].pc # "settling", Has(r)' => run'[r].pdfs = ReadyPdfs(j),
             NEW f \in Keys, Key(r)' = f,
             run'[r].pc # "bundle" /\ Has(r)' =>
                 /\ art'[f].state = "pending" /\ art'[f].rev = run'[r].rev
                 /\ art'[f].of = run'[r].pdfs
                 /\ run'[r].pc \in {"zipready", "zipping"} => f \in bytes',
             run'[r].pc = "zipping" => Has(r)'
      PROVE  BuilderOK(r)'
  <2>1. Informed' = Informed /\ Bundling' = Bundling
    BY DEF Informed, Bundling, Inside, After
  <2>2. Has(r)' => run'[r].rev = job'[j].revision
    BY <1>0, <1>2, <1>5, <1>7 DEF BuilderOK
  <2>3. Has(r)' => run'[r].pdfs = ReadyPdfs(j)'
    BY <1>2, <1>5, <1>7, HeldPdfs
  <2>4. ReadyPdfs(run[r].job)' = ReadyPdfs(j)'
    BY <1>4
  <2> HIDE DEF Informed, Bundling
  <2>5. run'[r].pc \in {"zipready", "zipping"} => run'[r].pc # "bundle"
    OBVIOUS
  <2> QED BY <1>3, <1>4, <1>7, <2>1, <2>2, <2>3, <2>4, <2>5 DEF BuilderOK
<1>10. ASSUME Load(r) PROVE BuilderOK(r)'
  <2>1. CASE Leave(r, "release")
    <3>1. run'[r].pc = "release"
      BY <1>0, <2>1, LeaveType DEF RunLabels
    <3> QED BY <1>6, <3>1 DEF Informed, Bundling, Inside, After
  <2>2. CASE run' = [run EXCEPT ![r].pc = "pick", ![r].rev = job[run[r].job].revision]
    <3>1. run'[r].pc = "pick" /\ run'[r].rev = job[j].revision
      BY <1>0, <1>2, <2>2 DEF Run
    <3>2. job' = job
      BY <1>10 DEF Load
    <3>3. run'[r].pc \notin Bundling
      BY <3>1 DEF Bundling
    <3> QED BY <1>3, <1>4, <3>1, <3>2, <3>3, NotBundling
  <2> QED BY <1>10, <2>1, <2>2 DEF Load
<1>11. ASSUME PickItem(r) PROVE BuilderOK(r)'
  <2>1. run'[r].pc = "start" /\ run'[r].rev = run[r].rev /\ run[r].pc = "pick"
    BY <1>0, <1>11 DEF PickItem, Run
  <2> QED BY <1>6, <2>1 DEF Informed, Bundling, Inside, After
<1>12. ASSUME PickNone(r) PROVE BuilderOK(r)'
  <2> DEFINE label == IF NeedsBundle(r) THEN "bundle" ELSE "finish"
  <2>1. /\ run'[r].pc = label /\ run'[r].rev = run[r].rev /\ run'[r].part = Bundle
        /\ run'[r].pdfs = {k \in ReadyPdfs(j) : k[2] \in Succeeded(j)}
    BY <1>0, <1>2, <1>12 DEF PickNone, Run
  <2>2. run[r].pc = "pick" /\ label \in {"bundle", "finish"}
    BY <1>12 DEF PickNone
  <2> HIDE DEF label
  <2>3. CASE label = "finish"
    BY <1>6, <2>1, <2>2, <2>3 DEF Informed, Bundling, Inside, After
  <2>4. CASE label = "bundle"
    <3>1. Has(r)' => run'[r].pdfs = ReadyPdfs(j)
      BY <1>2, <1>5, <2>1, PickedPdfs DEF Has
    <3>2. PICK f \in Keys : f = <<r, Bundle>>
      BY DEF Keys, Parts
    <3>3. Key(r)' = f
      BY <2>1, <3>2 DEF Key
    <3>4. run'[r].pc \in Bundling /\ run[r].pc \in Informed
      BY <2>1, <2>2, <2>4 DEF Bundling, Informed
    <3> QED BY <1>7, <2>1, <2>2, <2>4, <3>1, <3>3, <3>4
  <2> QED BY <2>2, <2>3, <2>4
<1>13. ASSUME Start(r) \/ Settle(r) \/ Render(r) PROVE BuilderOK(r)'
  <2>1. /\ run'[r].pc \in {"render", "settle", "settling"} /\ run'[r].rev = run[r].rev
        /\ run[r].pc \in {"start", "render", "settle"}
    <3>1. CASE Start(r)
      BY <1>0, <3>1, GotoType DEF Start, RunLabels
    <3>2. CASE Settle(r)
      BY <1>0, <3>2, GotoType DEF Settle, RunLabels
    <3>3. CASE Render(r)
      BY <1>0, <3>3 DEF Render, Run
    <3> QED BY <1>13, <3>1, <3>2, <3>3
  <2> QED BY <1>6, <2>1 DEF Informed, Bundling, Inside, After
<1>14. ASSUME \/ SettleCommit(r) \/ Finish(r) \/ LostOwnership(r) \/ Release(r)
              \/ Crash(r) \/ Abort(r)
       PROVE  BuilderOK(r)'
  <2>1. PICK label \in {"load", "release", "done"} : Leave(r, label)
    BY <1>14 DEF SettleCommit, Finish, LostOwnership, Release, Crash, Abort
  <2>2. run'[r].pc \in {"load", "release", "done"}
    BY <1>0, <2>1, LeaveType DEF RunLabels
  <2> QED BY <1>6, <2>2 DEF Informed, Bundling, Inside, After
<1>15. ASSUME BundleFails(r) \/ ZipCommit(r) PROVE BuilderOK(r)'
  <2>1. /\ run'[r].pc = "finish" /\ run'[r].rev = run[r].rev
        /\ run[r].pc \in {"zip", "zipready", "zipping"}
    BY <1>0, <1>15 DEF BundleFails, ZipCommit, Run
  <2> QED BY <1>6, <2>1 DEF Informed, Bundling, Inside, After
<1>16. ASSUME StartBundle(r) PROVE BuilderOK(r)'
  <2>1. PICK f \in Keys : f = Key(r)
    BY <1>16, KeyType DEF StartBundle
  <2>2. /\ run'[r].pc = "zip" /\ run'[r].rev = run[r].rev /\ run'[r].pdfs = run[r].pdfs
        /\ run'[r].part = run[r].part /\ run[r].pc = "bundle" /\ Has(r)
    BY <1>0, <1>16 DEF StartBundle, Goto, Run, Owns, Has
  <2>3. run[r].pdfs = ReadyPdfs(j) /\ run[r].pdfs \in SUBSET Keys
    BY <1>0, <1>2, <2>2 DEF BuilderOK, Bundling, Run
  <2>4. /\ art'[f].state = "pending" /\ art'[f].rev = run[r].rev /\ art'[f].of = run[r].pdfs
    BY <1>16, <2>1, <2>3, IntendArt DEF StartBundle
  <2>5. Key(r)' = f
    BY <2>1, <2>2 DEF Key
  <2>6. run'[r].pc \in Bundling /\ run[r].pc \in Informed
    BY <2>2 DEF Bundling, Informed, After
  <2> QED BY <1>7, <2>2, <2>3, <2>4, <2>5, <2>6
<1>17. ASSUME WriteZip(r) PROVE BuilderOK(r)'
  <2>1. PICK f \in Keys : f = Key(r)
    BY <1>17, KeyType DEF WriteZip
  <2>2. /\ run'[r].pc = "zipready" /\ run'[r].rev = run[r].rev /\ run'[r].pdfs = run[r].pdfs
        /\ run'[r].part = run[r].part /\ run[r].pc = "zip"
        /\ art' = art /\ f \in bytes'
    BY <1>0, <1>17, <2>1 DEF WriteZip, Goto, Run
  <2>3. Has(r) => /\ run[r].pdfs = ReadyPdfs(j)
                  /\ art[f].state = "pending" /\ art[f].rev = run[r].rev
                  /\ art[f].of = run[r].pdfs
    BY <1>0, <1>2, <2>1, <2>2 DEF BuilderOK, Bundling
  <2>4. Key(r)' = f
    BY <2>1, <2>2 DEF Key
  <2>5. run'[r].pc \in Bundling /\ run[r].pc \in Informed
    BY <2>2 DEF Bundling, Informed, After
  <2> QED BY <1>5, <1>7, <2>2, <2>3, <2>4, <2>5
<1>18. ASSUME ZipReady(r) PROVE BuilderOK(r)'
  <2>1. PICK label \in {"zipping", "finish"} : Goto(r, label) /\ (label = "zipping" => Owns(r))
    BY <1>18 DEF ZipReady
  <2>2. /\ run'[r].pc = label /\ run'[r].rev = run[r].rev /\ run'[r].pdfs = run[r].pdfs
        /\ run'[r].part = run[r].part
    BY <1>0, <2>1 DEF Goto, Run
  <2>3. run[r].pc = "zipready" /\ job' = job /\ art' = art /\ bytes' = bytes
    BY <1>18 DEF ZipReady, rows
  <2>4. CASE label = "finish"
    BY <1>6, <2>2, <2>3, <2>4 DEF Informed, Bundling, Inside, After
  <2>5. CASE label = "zipping"
    <3>1. PICK f \in Keys : f = Key(r)
      BY <2>3, KeyType
    <3>2. Has(r) /\ Has(r)'
      BY <1>2, <1>4, <2>1, <2>3, <2>5 DEF Owns, Has
    <3>3. /\ run[r].pdfs = ReadyPdfs(j) /\ f \in bytes
          /\ art[f].state = "pending" /\ art[f].rev = run[r].rev /\ art[f].of = run[r].pdfs
      BY <1>0, <1>2, <2>3, <3>1, <3>2 DEF BuilderOK, Bundling
    <3>4. Key(r)' = f
      BY <2>2, <3>1 DEF Key
    <3>5. run'[r].pc \in Bundling /\ run[r].pc \in Informed
      BY <2>2, <2>3, <2>5 DEF Bundling, Informed, After
    <3> QED BY <1>7, <2>2, <2>3, <2>5, <3>2, <3>3, <3>4, <3>5
  <2> QED BY <2>4, <2>5
<1> QED BY <1>10, <1>11, <1>12, <1>13, <1>14, <1>15, <1>16, <1>17, <1>18 DEF RunStep

(* Every step leaves every builder knowing what its label says.            *)
LEMMA BuilderStep ==
    ASSUME TypeInv, Outcome, Outcome', Bundles, Next, NEW r \in Runs
    PROVE  BuilderOK(r)'
<1>1. CASE run'[r] = run[r]
  BY <1>1, BuilderBystander
<1>2. ASSUME NEW j \in Jobs, Claim(j), run[r].pc = "new",
             run' = [run EXCEPT ![r].pc = "load", ![r].job = j]
      PROVE  BuilderOK(r)'
  <2>1. run'[r].pc = "load" /\ run'[r].job = j
    BY <1>2 DEF TypeInv, TypeOK, Run
  <2>2. job'[j].state # "None"
    BY <1>2, ClaimJob
  <2>3. run'[r].pc \notin Bundling /\ run'[r].pc \notin Informed
    BY <2>1 DEF Informed, Bundling, Inside, After
  <2> QED BY <2>1, <2>2, <2>3, NotBundling
<1> QED BY <1>1, <1>2, OneRunMoves, BuilderOwnStep

(* A bundle that a download may hand out stays whole, and a new one is.    *)
LEMMA BundleStep ==
    ASSUME TypeInv, TypeInv', Outcome, Outcome', Bundles, Next, NEW k \in Keys
    PROVE  BundleOK(k)'
<1> SUFFICES ASSUME k[2] = Bundle, art'[k].state # "none", InForce(run[k[1]].job)'
             PROVE  /\ art'[k].rev <= job'[run'[k[1]].job].revision
                    /\ Ready(k)' /\ ~Expired(run[k[1]].job)'
                          /\ art'[k].rev = job'[run'[k[1]].job].revision
                       => Whole(k, run[k[1]].job)'
  BY DEF BundleOK
<1>0. /\ k[1] \in Runs /\ BundleOK(k) /\ RowOK(k)
      /\ \A r \in Runs : BuilderOK(r) /\ RunOK(r)
      /\ \A s \in Sweeps : SweepOK(s)
      /\ \A s \in Sweeps : sweep[s].pc = "delete" => sweep[s].todo \subseteq sweep[s].keys
      /\ art[k].rev \in Nat /\ \A h \in Jobs : job[h] \in Job
  BY DEF Outcome, Bundles, Keys, TypeInv, TypeOK, Row
<1>1. ASSUME run[k[1]].pc # "new"
      PROVE  \E j \in Jobs : /\ run[k[1]].job = j /\ run'[k[1]].job = j
                             /\ InForce(j) /\ InForce(j)'
  <2>1. PICK j \in Jobs : j = run[k[1]].job
    BY <1>0, <1>1 DEF TypeInv, LocalsOK
  <2>2. run'[k[1]].job = j
    BY <1>0, <1>1, <2>1, RunsGoOn
  <2>3. InForce(j)'
    BY <2>2
  <2>4. job[j].state # "None" /\ job[j].state \in JobStates \cup {"None", "Gone"}
    BY <1>0, <1>1, <2>1 DEF BuilderOK, Job
  <2>5. job[j].state \notin {"Purging", "Gone"}
    BY <1>0, <2>3, JobsGoOn DEF InForce, Exists, JobStates
  <2> QED BY <2>1, <2>2, <2>3, <2>4, <2>5 DEF InForce, Exists
<1>2. CASE Kept(k)
  <2>1. art[k].state # "none" /\ art'[k].rev = art[k].rev /\ art'[k].of = art[k].of
    BY <1>2 DEF Kept
  <2>2. PICK j \in Jobs : /\ run[k[1]].job = j /\ run'[k[1]].job = j
                          /\ InForce(j) /\ InForce(j)'
    BY <1>0, <1>1, <2>1 DEF RowOK
  <2>3. /\ art[k].rev <= job[j].revision
        /\ Ready(k) /\ ~Expired(j) /\ art[k].rev = job[j].revision => Whole(k, j)
    BY <1>0, <2>1, <2>2 DEF BundleOK
  <2>4. /\ job[j].revision \in Nat
        /\ job'[j].revision \in {job[j].revision, job[j].revision + 1}
    BY <1>0, RevisionsGrow DEF Job
  <2>5. ASSUME Ready(k)', ~Expired(j)', art'[k].rev = job'[j].revision PROVE Whole(k, j)'
    <3>1. Ready(k)
      BY <1>2, <2>5 DEF Kept, Ready
    <3>2. ~Expired(j)
      BY <1>0, <2>5, JobsGoOn DEF Expired
    <3>3. art[k].rev = job[j].revision /\ job'[j].revision = job[j].revision
      BY <1>0, <2>1, <2>3, <2>4, <2>5
    <3>4. Whole(k, j)
      BY <2>3, <3>1, <3>2, <3>3
    <3>5. ~Abandoned(j)
      BY <3>2 DEF Abandoned
    <3>6. k \in bytes'
      BY <1>0, <2>2, <3>4, <3>5, BytesStay, SweptIsAbandoned DEF Whole
    <3>7. ASSUME NEW r \in Runs, SettleCommit(r), run[r].job = j PROVE FALSE
      <4>1. run[r].pc = "settling" /\ RunOK(r) /\ run[r].part \in Items
        BY <1>0, <3>7 DEF SettleCommit, TypeInv, LocalsOK
      <4>2. Has(r)
        BY <2>2, <3>7, <4>1 DEF RunOK, InForce
      <4>3. item[run[r].part] = "Running" /\ JobOf[run[r].part] = j
        BY <3>7, <4>1, <4>2 DEF RunOK, Knows, Inside
      <4> QED BY <3>4, <4>1, <4>3 DEF Whole, Open
    <3>8. ReadyPdfs(j)' = ReadyPdfs(j)
      BY <3>5, <3>7, PdfsStay
    <3>9. ASSUME NEW i \in Items, JobOf[i] = j PROVE ~Open(i)'
      BY <2>2, <3>3, <3>4, <3>9, ItemsStayClosed DEF Whole, InForce, Exists, JobStates
    <3> QED BY <2>1, <3>4, <3>6, <3>8, <3>9 DEF Whole
  <2>6. Expired(run[k[1]].job)' = Expired(j)' /\ Whole(k, run[k[1]].job)' = Whole(k, j)'
    BY <2>2
  <2> QED BY <1>0, <2>1, <2>2, <2>3, <2>4, <2>5, <2>6
<1>3. CASE Written(k)
  <2>1. PICK r \in Runs : /\ k = Key(r)
                          /\ Start(r) \/ StartBundle(r) \/ SettleCommit(r) \/ ZipCommit(r)
    BY <1>3 DEF Written
  <2>2. run[r].part = Bundle /\ k[1] = r
    BY <2>1 DEF Key
  <2>3. StartBundle(r) \/ ZipCommit(r)
    BY <2>1, <2>2, ConstantsAssumption DEF Start, SettleCommit, TypeInv, LocalsOK
  <2>4. run[r].pc \in {"bundle", "zipping"}
    BY <2>3 DEF StartBundle, ZipCommit
  <2>5. PICK j \in Jobs : /\ run[r].job = j /\ run'[r].job = j
                          /\ InForce(j) /\ InForce(j)'
    BY <1>1, <2>2, <2>4
  <2>6. /\ job[j].revision \in Nat
        /\ job'[j].revision \in {job[j].revision, job[j].revision + 1}
    BY <1>0, RevisionsGrow DEF Job
  <2>7. CASE StartBundle(r)
    <3>1. Intend(r, run[r].pdfs) /\ run[r].pdfs \in SUBSET Keys /\ run[r].rev = job[j].revision
      BY <2>5, <2>7 DEF StartBundle, Owns, TypeInv, TypeOK, Run
    <3>2. art'[k].state = "pending" /\ art'[k].rev = job[j].revision
      BY <2>1, <3>1, IntendArt
    <3> QED BY <2>2, <2>5, <2>6, <3>2 DEF Ready
  <2>8. CASE ZipCommit(r)
    <3>1. /\ art' = [art EXCEPT ![Key(r)].state = "ready"] /\ run[r].pc = "zipping"
          /\ bytes' = bytes /\ item' = item
      BY <2>8 DEF ZipCommit
    <3>2. art'[k].rev = art[k].rev /\ art'[k].of = art[k].of
      BY <2>1, <3>1, ReadyArt
    <3>3. Has(r)
      BY <1>0, <2>5, <3>1 DEF BuilderOK, InForce
    <3>4. /\ art[k].rev = job[j].revision /\ art[k].of = ReadyPdfs(j) /\ k \in bytes
      BY <1>0, <2>1, <2>5, <3>1, <3>3 DEF BuilderOK, Bundling, Informed, After
    <3>5. ReadyPdfs(j)' = ReadyPdfs(j)
      BY <2>5, <3>1, <3>3, HeldPdfs
    <3>6. \A i \in Items : JobOf[i] = j => ~Open(i)
      BY <1>0, <2>5, <3>1, <3>3 DEF RunOK, Knows, Between, After, ItemsOf, Open
    <3>7. \A i \in Items : JobOf[i] = j => ~Open(i)'
      BY <3>1, <3>6 DEF Open
    <3>8. Whole(k, j)'
      BY <3>1, <3>2, <3>4, <3>5, <3>7 DEF Whole
    <3>9. Whole(k, run[k[1]].job)'
      BY <2>2, <2>5, <3>8
    <3> QED BY <2>2, <2>5, <2>6, <3>2, <3>4, <3>9
  <2> QED BY <2>3, <2>7, <2>8
<1>4. CASE art'[k] = NoRow
  BY <1>4 DEF NoRow
<1> QED BY <1>2, <1>3, <1>4, ArtChange

(* At first there is no run, no row and no sweep.                          *)
LEMMA BundlesInit == Init => Bundles
<1> SUFFICES ASSUME Init PROVE Bundles
  OBVIOUS
<1>1. /\ \A r \in Runs : run[r].pc = "new"
      /\ \A k \in Keys : art[k].state = "none"
      /\ \A s \in Sweeps : sweep[s].pc = "idle"
  BY DEF Init, NewRun, NoRow, IdleSweep
<1> QED BY <1>1 DEF Bundles, BuilderOK, BundleOK, Informed, Bundling, Inside, After

(* Every step keeps the invariant of the bundles.                          *)
LEMMA BundlesStep ==
    ASSUME TypeInv, TypeInv', Outcome, Outcome', Bundles, [Next]_vars
    PROVE  Bundles'
<1>1. CASE Next
  <2>1. \A s \in Sweeps : sweep'[s].pc = "delete" => sweep'[s].todo \subseteq sweep'[s].keys
    BY <1>1, TodoStep DEF Bundles
  <2>2. \A r \in Runs : BuilderOK(r)'
    BY <1>1, BuilderStep
  <2>3. \A k \in Keys : BundleOK(k)'
    BY <1>1, BundleStep
  <2> QED BY <2>1, <2>2, <2>3 DEF Bundles
<1>2. CASE UNCHANGED vars
  <2>1. \A r \in Runs : BuilderOK(r)'
    BY <1>2 DEF vars, Bundles, BuilderOK, Has, ReadyPdfs, KeysOf, Ready, Key, Informed, Bundling,
       Inside, After
  <2>2. \A k \in Keys : BundleOK(k)'
    BY <1>2 DEF vars, Bundles, BundleOK, Whole, InForce, Exists, Expired, ReadyPdfs, KeysOf, Ready,
       Open
  <2> QED BY <1>2, <2>1, <2>2 DEF Bundles, vars
<1> QED BY <1>1, <1>2

(* The invariants hold throughout.                                         *)
LEMMA BundlesAlways == Spec => [](TypeInv /\ Outcome /\ Bundles)
<1>1. Spec => []TypeInv
  BY InitType, TypeStep, PTL DEF Spec
<1>2. TypeInv /\ TypeInv' /\ Outcome /\ Outcome' /\ Bundles /\ [Next]_vars => Bundles'
  BY BundlesStep
<1> QED BY <1>1, <1>2, OutcomeAlways, BundlesInit, PTL DEF Spec

(***************************************************************************)
(* ReportRunner.Complete and the Download endpoint: whatever retries,      *)
(* duplicate deliveries, stale runs, crashes, expiries and purges do, the  *)
(* bundle a download hands out is in the object store and holds exactly    *)
(* the PDFs of the items that have succeeded.                              *)
(***************************************************************************)
THEOREM DownloadsAreCurrent == Spec => []DownloadIsCurrent
<1>1. ASSUME TypeInv, Outcome, Bundles PROVE DownloadIsCurrent
  <2> SUFFICES ASSUME NEW k \in Keys, Downloadable(k)
               PROVE  k \in bytes /\ art[k].of = ReadyPdfs(run[k[1]].job)
    BY DEF DownloadIsCurrent
  <2>1. /\ k[2] = Bundle /\ Ready(k) /\ InForce(run[k[1]].job)
        /\ art[k].rev = job[run[k[1]].job].revision /\ ~Expired(run[k[1]].job)
    BY DEF Downloadable, InForce, Expired
  <2>2. art[k].state # "none" /\ BundleOK(k)
    BY <1>1, <2>1 DEF Ready, Bundles
  <2> QED BY <2>1, <2>2 DEF BundleOK, Whole
<1> QED BY <1>1, BundlesAlways, PTL

-----------------------------------------------------------------------------
(* Objects *)

\* A run that writes an object still has the lease, and a row that names it.
WriterOK(r) ==
    Writing(r) =>
        /\ job[run[r].job].owner = r /\ job[run[r].job].leased
        /\ job[run[r].job].state \in {"Running", "Canceled", "Purging"}
        /\ art[Key(r)].state # "none"

\* A sweep has collected what there is to delete, and deletes objects before rows.
CollectOK(s) ==
    /\ sweep[s].pc = "delete" =>
          /\ \A k \in sweep[s].keys \ sweep[s].todo : k \notin bytes
          /\ \A k \in KeysOf(sweep[s].job) : Disposable(k) => k \in sweep[s].keys
    /\ sweep[s].pc = "row" => \A k \in KeysOf(sweep[s].job) : ~Disposable(k)

Objects ==
    /\ \A r \in Runs : WriterOK(r)
    /\ \A s \in Sweeps : CollectOK(s)
    /\ NoOrphanBytes

(* A run begins to write when it has persisted the object's key.           *)
LEMMA WritingBegins ==
    ASSUME TypeInv, Next, NEW r \in Runs, run'[r] # run[r], run'[r].pc \in {"render", "zip"}
    PROVE  Start(r) \/ StartBundle(r)
<1>0. TypeOK /\ run \in [Runs -> Run] /\ run[r] \in Run
  BY DEF TypeInv, TypeOK
<1> DEFINE P == Start(r) \/ StartBundle(r)
<1>1. ASSUME NEW j \in Jobs, run' = [run EXCEPT ![r].pc = "load", ![r].job = j] PROVE P
  BY <1>0, <1>1 DEF Run
<1>2. ASSUME NEW label \in {"load", "release", "done"}, Leave(r, label) PROVE P
  BY <1>0, <1>2, LeaveType DEF RunLabels
<1>3. ASSUME Load(r) PROVE P
  BY <1>0, <1>2, <1>3 DEF Load, Run
<1>4. ASSUME PickItem(r) PROVE P
  BY <1>0, <1>4 DEF PickItem, Run
<1>5. ASSUME PickNone(r) PROVE P
  BY <1>0, <1>5 DEF PickNone, Run
<1>6. ASSUME Render(r) PROVE P
  BY <1>0, <1>6 DEF Render, Run
<1>7. ASSUME NEW label \in {"settling", "zipready", "zipping", "finish"}, Goto(r, label) PROVE P
  BY <1>0, <1>7, GotoType DEF RunLabels
<1>8. ASSUME BundleFails(r) \/ ZipCommit(r) PROVE P
  BY <1>0, <1>8 DEF BundleFails, ZipCommit, Run
<1>9. ASSUME Settle(r) \/ WriteZip(r) \/ ZipReady(r) PROVE P
  BY <1>7, <1>9 DEF Settle, WriteZip, ZipReady
<1>10. ASSUME \/ SettleCommit(r) \/ Finish(r) \/ LostOwnership(r) \/ Release(r)
              \/ Crash(r) \/ Abort(r)
       PROVE  P
  BY <1>2, <1>10 DEF SettleCommit, Finish, LostOwnership, Release, Crash, Abort
<1> QED BY <1>1, <1>3, <1>4, <1>5, <1>6, <1>8, <1>9, <1>10, OneRunMoves DEF RunStep

(* No step takes the lease from a run that writes.                         *)
LEMMA WriterKeepsLease ==
    ASSUME ~Pauses, TypeInv, Outcome, Next, NEW r \in Runs, run'[r] = run[r], Writing(r),
           NEW j \in Jobs, run[r].job = j, job[j].owner = r, job[j].leased,
           job[j].state \in {"Running", "Canceled", "Purging"}
    PROVE  /\ job'[j].owner = r /\ job'[j].leased
           /\ job'[j].state \in {"Running", "Canceled", "Purging"}
<1>0. /\ job \in [Jobs -> Job] /\ run[r].pc \in {"render", "zip"} /\ r # None
      /\ \A s \in Sweeps : SweepOK(s)
  BY ConstantsAssumption DEF TypeInv, TypeOK, Writing, Outcome
<1> DEFINE P == /\ job'[j].owner = r /\ job'[j].leased
                /\ job'[j].state \in {"Running", "Canceled", "Purging"}
<1>1. ASSUME job'[j] = job[j] PROVE P
  BY <1>1
<1>2. ASSUME NEW h \in Jobs, Submit(h) PROVE P
  BY <1>1, <1>2, SubmitJob DEF Others
<1>3. ASSUME NEW h \in Jobs, Cancel(h) PROVE P
  BY <1>1, <1>3, CancelJob DEF Others
<1>4. ASSUME NEW h \in Jobs, Retry(h) PROVE P
  BY <1>1, <1>4, RetryJob DEF Others
<1>5. ASSUME NEW h \in Jobs, Claim(h) PROVE P
  BY <1>1, <1>5, ClaimJob DEF Others, Claimable
<1>6. ASSUME NEW h \in Jobs, LeaseLapses(h) \/ Stall(h) PROVE P
  <2>1. h # j
    BY <1>0, <1>6 DEF LeaseLapses, Stall, HeldByActiveRun, Active, Writing
  <2>2. job' = [job EXCEPT ![h].leased = FALSE]
    BY <1>6 DEF LeaseLapses, Stall
  <2> QED BY <1>0, <1>1, <2>1, <2>2
<1>7. ASSUME NEW h \in Jobs, RetentionPasses(h) PROVE P
  BY <1>1, <1>7, RetentionJob DEF Others
<1>8. ASSUME NEW q \in Runs, Start(q) \/ StartBundle(q) PROVE P
  <2>1. SameButLease(j)
    BY <1>8, LeaseJob
  <2>2. job' = [job EXCEPT ![run[q].job].leased = TRUE]
    BY <1>8 DEF Start, StartBundle, Intend
  <2>3. job'[j].leased
    BY <1>0, <2>2 DEF Job
  <2> QED BY <2>1, <2>3 DEF SameButLease
<1>9. ASSUME NEW q \in Runs, Finish(q) PROVE P
  <2>1. run[q].pc = "finish"
    BY <1>9 DEF Finish
  <2> QED BY <1>0, <1>1, <1>9, <2>1, FinishJob DEF Others, Owns
<1>10. ASSUME NEW q \in Runs, Release(q) PROVE P
  <2>1. run[q].pc = "release"
    BY <1>10 DEF Release
  <2> QED BY <1>0, <1>1, <1>10, <2>1, ReleaseJob
<1>11. ASSUME NEW s \in Sweeps, SweepExpire(s) PROVE P
  <2>1. sweep[s].job \in Jobs
    BY <1>0, <1>11 DEF SweepExpire, SweepOK
  <2> QED BY <1>1, <1>11, <2>1, ExpireJob DEF Others
<1>12. ASSUME NEW s \in Sweeps, SweepForget(s) PROVE P
  <2>1. sweep[s].job \in Jobs /\ job[sweep[s].job].owner = None
    BY <1>0, <1>12 DEF SweepForget, SweepOK, Abandoned
  <2> QED BY <1>0, <1>1, <1>12, <2>1, ForgetJob DEF Others
<1>13. ASSUME PurgeOrg PROVE P
  BY <1>13, PurgeJob DEF Exists, JobStates
<1>14. ASSUME job' = job PROVE P
  BY <1>1, <1>14
<1> HIDE DEF P
<1>15. P
  BY <1>2, <1>3, <1>4, <1>5, <1>6, <1>7, <1>8, <1>9, <1>10, <1>11, <1>12, <1>13, <1>14, OtherSteps
     DEF Next, RunStep, SweepStep
<1> QED BY <1>15 DEF P

(* A run that writes keeps its lease and the row of its object.            *)
LEMMA WriterStep ==
    ASSUME ~Pauses, TypeInv, Outcome, Objects, Next, NEW r \in Runs
    PROVE  WriterOK(r)'
<1>0. WriterOK(r) /\ TypeOK /\ run \in [Runs -> Run]
  BY DEF Objects, TypeInv, TypeOK
<1> SUFFICES ASSUME Writing(r)'
             PROVE  /\ job'[run'[r].job].owner = r /\ job'[run'[r].job].leased
                    /\ job'[run'[r].job].state \in {"Running", "Canceled", "Purging"}
                    /\ art'[Key(r)'].state # "none"
  BY DEF WriterOK
<1>1. CASE run'[r] = run[r]
  <2>1. Writing(r) /\ Key(r)' = Key(r)
    BY <1>1 DEF Writing, Key
  <2>2. PICK f \in Keys : f = Key(r)
    BY <2>1, KeyType DEF Writing
  <2>3. PICK j \in Jobs : j = run[r].job
    BY <2>1, KeyType DEF Writing
  <2>4. /\ job[j].owner = r /\ job[j].leased /\ art[f].state # "none"
        /\ job[j].state \in {"Running", "Canceled", "Purging"}
    BY <1>0, <2>1, <2>2, <2>3 DEF WriterOK
  <2>5. /\ job'[j].owner = r /\ job'[j].leased
        /\ job'[j].state \in {"Running", "Canceled", "Purging"}
    BY <1>1, <2>1, <2>3, <2>4, WriterKeepsLease
  <2>6. ~Swept(f)
    <3>1. ~Abandoned(j) /\ f[1] = r
      BY <2>2, <2>4, ConstantsAssumption DEF Abandoned, Key
    <3> QED BY <2>3, <3>1, SweptIsAbandoned
  <2>7. ~Written(f)
    <3> SUFFICES ASSUME NEW q \in Runs, f = Key(q),
                        Start(q) \/ StartBundle(q) \/ SettleCommit(q) \/ ZipCommit(q)
                 PROVE  FALSE
      BY DEF Written
    <3>1. q = r
      BY <2>2 DEF Key
    <3> QED BY <1>1, <3>1, CommitsMove
  <2>8. art'[f].state # "none"
    BY <2>4, <2>6, <2>7, ArtChange DEF Kept
  <2> QED BY <1>1, <2>1, <2>2, <2>3, <2>5, <2>8
<1>2. CASE run'[r] # run[r]
  <2>1. Start(r) \/ StartBundle(r)
    BY <1>2, WritingBegins DEF Writing
  <2>2. PICK label \in {"render", "zip"} : Goto(r, label)
    BY <2>1 DEF Start, StartBundle
  <2>3. run'[r].job = run[r].job /\ run'[r].part = run[r].part
    BY <1>0, <2>2, GotoType DEF RunLabels
  <2>4. run[r].pc \in {"start", "bundle"} /\ Owns(r)
    BY <2>1 DEF Start, StartBundle
  <2>5. PICK of \in SUBSET Keys : Intend(r, of)
    BY <2>1 DEF Start, StartBundle, TypeInv, TypeOK, Run
  <2>6. PICK j \in Jobs : j = run[r].job
    BY <2>4, KeyType
  <2>7. Key(r)' = Key(r) /\ art'[Key(r)].state = "pending"
    BY <2>3, <2>4, <2>5, KeyType, IntendArt DEF Key
  <2>8. job' = [job EXCEPT ![j].leased = TRUE]
    BY <2>5, <2>6 DEF Intend
  <2>9. job'[j].leased /\ job'[j].owner = r /\ job'[j].state = "Running"
    BY <2>4, <2>6, <2>8 DEF Owns, TypeInv, TypeOK, Job
  <2> QED BY <2>3, <2>6, <2>7, <2>9
<1> QED BY <1>1, <1>2

(* Objects are written by the runs that are at it.                         *)
LEMMA BytesGrow ==
    ASSUME TypeInv, Next, NEW k, k \in bytes', k \notin bytes
    PROVE  \E r \in Runs : Writing(r) /\ k = Key(r)
<1> DEFINE P == \E r \in Runs : Writing(r) /\ k = Key(r)
<1>1. ASSUME NEW r \in Runs, Render(r) \/ WriteZip(r) \/ BundleFails(r) \/ Crash(r) \/ Abort(r)
      PROVE  P
  BY <1>1 DEF Render, WriteZip, BundleFails, Crash, Abort, CutShort, Writing
<1>2. ASSUME bytes' \subseteq bytes PROVE P
  BY <1>2
<1> HIDE DEF P
<1>3. ASSUME NEW j \in Jobs,
             \/ Submit(j) \/ Cancel(j) \/ Retry(j) \/ Claim(j) \/ IgnoredDelivery(j)
             \/ SweepResume(j) \/ LeaseLapses(j) \/ Stall(j) \/ RetentionPasses(j)
      PROVE  P
  <2>1. CASE Submit(j)
    BY <1>2, <2>1 DEF Submit
  <2>2. CASE Cancel(j)
    BY <1>2, <2>2 DEF Cancel
  <2>3. CASE Retry(j)
    BY <1>2, <2>3 DEF Retry
  <2>4. CASE Claim(j)
    BY <1>2, <2>4 DEF Claim
  <2> QED BY <1>2, <1>3, <2>1, <2>2, <2>3, <2>4
          DEF IgnoredDelivery, SweepResume, LeaseLapses, Stall, RetentionPasses, rows
<1>4. ASSUME NEW r \in Runs,
             \/ Load(r) \/ PickItem(r) \/ PickNone(r) \/ Start(r) \/ Settle(r) \/ SettleCommit(r)
             \/ StartBundle(r) \/ ZipReady(r) \/ ZipCommit(r) \/ Finish(r)
             \/ LostOwnership(r) \/ Release(r)
      PROVE  P
  <2>1. bytes' = bytes
    BY <1>4 DEF Load, PickItem, PickNone, Start, Settle, SettleCommit, StartBundle, ZipReady,
       ZipCommit, Finish, LostOwnership, Release, rows
  <2> QED BY <1>2, <2>1
<1>5. ASSUME NEW s \in Sweeps,
             \/ SweepExpire(s) \/ SweepSkip(s) \/ SweepCollect(s) \/ SweepDelete(s)
             \/ SweepRows(s) \/ SweepForget(s) \/ SweepFails(s) \/ \E j \in Jobs : SweepRead(s, j)
      PROVE  P
  <2>1. bytes' \subseteq bytes
    BY <1>5 DEF SweepExpire, SweepSkip, SweepCollect, SweepDelete, SweepRows, SweepForget,
       SweepFails, SweepRead, rows
  <2> QED BY <1>2, <2>1
<1>6. ASSUME (\E f \in Keys : FilePublished(f)) \/ PurgeOrg \/ NextMonth PROVE P
  BY <1>2, <1>6 DEF FilePublished, PurgeOrg, NextMonth, rows
<1>7. P
  BY <1>1, <1>3, <1>4, <1>5, <1>6 DEF Next, RunStep, SweepStep
<1> QED BY <1>7 DEF P

(* An abandoned job gets no row any more.                                  *)
LEMMA RowsOfAbandoned ==
    ASSUME TypeInv, Outcome, Next, NEW j \in Jobs, Abandoned(j), NEW k \in Keys,
           run'[k[1]].job = j, art'[k].state # "none"
    PROVE  k \in KeysOf(j) /\ Kept(k)
<1>0. k[1] \in Runs /\ RowOK(k)
  BY DEF Keys, Outcome
<1>1. ASSUME Written(k) PROVE FALSE
  <2>1. PICK r \in Runs : /\ k = Key(r)
                          /\ Start(r) \/ StartBundle(r) \/ SettleCommit(r) \/ ZipCommit(r)
    BY <1>1 DEF Written
  <2>2. run[r].pc \in {"start", "bundle", "settling", "zipping"} /\ k[1] = r
    BY <2>1 DEF Start, StartBundle, SettleCommit, ZipCommit, Key
  <2>3. run[r].job = j
    BY <2>2, RunsGoOn
  <2>4. ~Owns(r)
    BY <2>3, ConstantsAssumption DEF Owns, Abandoned
  <2>5. run[r].pc \notin {"settling", "zipping"}
    BY <2>3 DEF Abandoned, InTx
  <2> QED BY <2>1, <2>4, <2>5 DEF Start, StartBundle, SettleCommit, ZipCommit
<1>2. Kept(k)
  BY <1>1, ArtChange DEF NoRow
<1>3. art[k].state # "none"
  BY <1>2 DEF Kept
<1>4. run[k[1]].job = j
  BY <1>0, <1>3, RunsGoOn DEF RowOK
<1> QED BY <1>2, <1>3, <1>4 DEF KeysOf

(* Nobody writes objects for it.                                           *)
LEMMA BytesOfAbandoned ==
    ASSUME TypeInv, Objects, Next, NEW j \in Jobs, Abandoned(j), NEW k, k \in bytes',
           run[k[1]].job = j
    PROVE  k \in bytes
<1> SUFFICES ASSUME k \notin bytes PROVE FALSE
  OBVIOUS
<1>1. PICK r \in Runs : Writing(r) /\ k = Key(r)
  BY BytesGrow
<1>2. run[r].job = j /\ WriterOK(r)
  BY <1>1 DEF Key, Objects
<1> QED BY <1>1, <1>2, ConstantsAssumption DEF WriterOK, Abandoned

(* A sweep that has collected leaves nothing out, whatever happens then.   *)
LEMMA CollectedStays ==
    ASSUME TypeInv, Outcome, Bundles, Objects, Next, NEW s \in Sweeps,
           sweep[s].pc \in {"delete", "row"}, NEW j \in Jobs, j = sweep[s].job
    PROVE  /\ sweep[s].pc = "delete" =>
                /\ \A k \in sweep[s].keys \ sweep[s].todo : k \notin bytes'
                /\ \A k \in KeysOf(j)' : Disposable(k)' => k \in sweep[s].keys
           /\ sweep[s].pc = "row" => \A k \in KeysOf(j)' : ~Disposable(k)'
<1>0. CollectOK(s) /\ SweepOK(s) /\ Abandoned(j)
  BY DEF Objects, Outcome, SweepOK
<1>1. ASSUME NEW k \in KeysOf(j)', Disposable(k)' PROVE k \in KeysOf(j) /\ Disposable(k)
  <2>1. k \in Keys /\ run'[k[1]].job = j /\ art'[k].state # "none"
    BY <1>1 DEF KeysOf
  <2>2. k \in KeysOf(j) /\ Kept(k)
    BY <1>0, <2>1, RowsOfAbandoned
  <2> QED BY <1>1, <2>2 DEF Kept, Disposable
<1>2. ASSUME sweep[s].pc = "delete", NEW k \in sweep[s].keys \ sweep[s].todo PROVE k \notin bytes'
  <2>1. run[k[1]].job = j /\ k \notin bytes
    BY <1>0, <1>2 DEF SweepOK, CollectOK
  <2> QED BY <1>0, <2>1, BytesOfAbandoned
<1> QED BY <1>0, <1>1, <1>2 DEF CollectOK

(* A step moves one sweep; the others stay where they are.                 *)
LEMMA OneSweepMoves ==
    ASSUME TypeInv, Next, NEW s \in Sweeps, sweep'[s] # sweep[s]
    PROVE  SweepStep(s) \/ SweepFails(s) \/ \E j \in Jobs : SweepRead(s, j)
<1>0. sweep \in [Sweeps -> Sweep]
  BY DEF TypeInv, TypeOK
<1>1. ASSUME sweep' = sweep PROVE FALSE
  BY <1>1
<1>2. ASSUME NEW t \in Sweeps, SweepStep(t) \/ SweepFails(t) \/ \E j \in Jobs : SweepRead(t, j)
      PROVE  t = s
  <2>1. \E row : sweep' = [sweep EXCEPT ![t] = row]
    <3>1. CASE SweepExpire(t)
      BY <1>0, <3>1 DEF SweepExpire
    <3>2. CASE SweepCollect(t)
      BY <1>0, <3>2 DEF SweepCollect
    <3>3. CASE SweepDelete(t)
      BY <1>0, <3>3 DEF SweepDelete
    <3>4. CASE SweepRows(t)
      BY <1>0, <3>4 DEF SweepRows
    <3>5. CASE SweepSkip(t) \/ SweepForget(t) \/ SweepFails(t)
      BY <1>0, <3>5 DEF SweepSkip, SweepForget, SweepFails
    <3>6. CASE \E j \in Jobs : SweepRead(t, j)
      <4>1. PICK j \in Jobs : SweepRead(t, j)
        BY <3>6
      <4>2. \E p, f : sweep' = [sweep EXCEPT ![t].pc = "expire", ![t].job = j,
                                             ![t].purging = p, ![t].forget = f]
        BY <4>1 DEF SweepRead
      <4> QED BY <1>0, <4>2
    <3> QED BY <1>2, <3>1, <3>2, <3>3, <3>4, <3>5, <3>6 DEF SweepStep
  <2> QED BY <1>0, <2>1
<1>3. ASSUME NEW j \in Jobs,
             \/ Submit(j) \/ Cancel(j) \/ Retry(j) \/ Claim(j) \/ IgnoredDelivery(j)
             \/ SweepResume(j) \/ LeaseLapses(j) \/ Stall(j) \/ RetentionPasses(j)
      PROVE  FALSE
  <2>1. CASE Claim(j)
    BY <1>1, <2>1 DEF Claim
  <2> QED BY <1>1, <1>3, <2>1
          DEF Submit, Cancel, Retry, IgnoredDelivery, SweepResume, LeaseLapses, Stall, RetentionPasses
<1>4. ASSUME NEW r \in Runs, RunStep(r) \/ Crash(r) \/ Abort(r) PROVE FALSE
  BY <1>1, <1>4 DEF RunStep, Load, PickItem, PickNone, Start, Render, Settle, SettleCommit,
     StartBundle, WriteZip, BundleFails, ZipReady, ZipCommit, Finish, LostOwnership, Release,
     Crash, Abort
<1>5. ASSUME (\E f \in Keys : FilePublished(f)) \/ PurgeOrg \/ NextMonth PROVE FALSE
  BY <1>1, <1>5 DEF FilePublished, PurgeOrg, NextMonth
<1> QED BY <1>2, <1>3, <1>4, <1>5 DEF Next

(* A sweep always has collected what it must delete.                       *)
LEMMA CollectStep ==
    ASSUME TypeInv, Outcome, Bundles, Objects, Next, NEW s \in Sweeps
    PROVE  CollectOK(s)'
<1>0. sweep \in [Sweeps -> Sweep] /\ sweep[s] \in Sweep /\ CollectOK(s) /\ SweepOK(s)
  BY DEF TypeInv, TypeOK, Objects, Outcome
<1>1. CASE sweep'[s].pc \notin {"delete", "row"}
  BY <1>1 DEF CollectOK
<1>2. CASE sweep'[s] = sweep[s] /\ sweep[s].pc \in {"delete", "row"}
  <2>1. PICK j \in Jobs : j = sweep[s].job
    BY <1>0, <1>2 DEF SweepOK
  <2>2. /\ sweep[s].pc = "delete" =>
             /\ \A k \in sweep[s].keys \ sweep[s].todo : k \notin bytes'
             /\ \A k \in KeysOf(j)' : Disposable(k)' => k \in sweep[s].keys
        /\ sweep[s].pc = "row" => \A k \in KeysOf(j)' : ~Disposable(k)'
    BY <1>2, <2>1, CollectedStays
  <2>3. KeysOf(sweep[s].job)' = KeysOf(j)'
    BY <1>2, <2>1
  <2> QED BY <1>2, <2>2, <2>3 DEF CollectOK
<1>3. ASSUME SweepCollect(s) PROVE CollectOK(s)'
  <2> DEFINE keys == {k \in KeysOf(sweep[s].job) : sweep[s].purging \/ Disposable(k)}
  <2>1. /\ sweep' = [sweep EXCEPT ![s].pc = "delete", ![s].keys = keys, ![s].todo = keys]
        /\ sweep[s].pc = "collect" /\ art' = art /\ run' = run
    BY <1>3 DEF SweepCollect, rows
  <2>2. PICK j \in Jobs : j = sweep[s].job
    BY <1>0, <2>1 DEF SweepOK
  <2>3. \A k \in KeysOf(j) : Disposable(k) => k \in keys
    BY <2>2
  <2> HIDE DEF keys
  <2>4. /\ sweep'[s].pc = "delete" /\ sweep'[s].keys = keys /\ sweep'[s].todo = keys
        /\ sweep'[s].job = j
    BY <1>0, <2>1, <2>2 DEF Sweep
  <2>5. KeysOf(sweep[s].job)' = KeysOf(j)
    BY <2>1, <2>4 DEF KeysOf
  <2>6. \A k : Disposable(k)' <=> Disposable(k)
    BY <2>1 DEF Disposable
  <2> QED BY <2>3, <2>4, <2>5, <2>6 DEF CollectOK
<1>4. ASSUME SweepDelete(s) PROVE CollectOK(s)'
  <2>1. PICK d \in sweep[s].todo : /\ sweep' = [sweep EXCEPT ![s].todo = @ \ {d}]
                                   /\ bytes' = bytes \ {d}
    BY <1>4 DEF SweepDelete
  <2>2. sweep[s].pc = "delete" /\ art' = art /\ run' = run
    BY <1>4 DEF SweepDelete
  <2>3. PICK j \in Jobs : j = sweep[s].job
    BY <1>0, <2>2 DEF SweepOK
  <2>4. /\ sweep'[s].pc = "delete" /\ sweep'[s].keys = sweep[s].keys
        /\ sweep'[s].todo = sweep[s].todo \ {d} /\ sweep'[s].job = j
    BY <1>0, <2>1, <2>2, <2>3 DEF Sweep
  <2>5. KeysOf(sweep[s].job)' = KeysOf(j)
    BY <2>2, <2>4 DEF KeysOf
  <2>6. \A k : Disposable(k)' <=> Disposable(k)
    BY <2>2 DEF Disposable
  <2> QED BY <1>0, <2>1, <2>2, <2>3, <2>4, <2>5, <2>6 DEF CollectOK
<1>5. ASSUME SweepRows(s) PROVE CollectOK(s)'
  <2>1. /\ sweep' = [sweep EXCEPT ![s].pc = "row"] /\ sweep[s].pc = "delete"
        /\ art' = [k \in Keys |-> IF k \in sweep[s].keys THEN NoRow ELSE art[k]]
    BY <1>5 DEF SweepRows
  <2>2. PICK j \in Jobs : j = sweep[s].job
    BY <1>0, <2>1 DEF SweepOK
  <2>3. sweep'[s].pc = "row" /\ sweep'[s].job = j
    BY <1>0, <2>1, <2>2 DEF Sweep
  <2>4. \A k \in KeysOf(j)' : Disposable(k)' => k \in sweep[s].keys
    BY <2>1, <2>2, CollectedStays
  <2>5. \A k \in KeysOf(j)' : k \notin sweep[s].keys
    BY <2>1 DEF KeysOf, NoRow
  <2>6. KeysOf(sweep[s].job)' = KeysOf(j)'
    BY <2>3
  <2> QED BY <2>3, <2>4, <2>5, <2>6 DEF CollectOK
<1>6. ASSUME SweepExpire(s) PROVE CollectOK(s)'
  BY <1>0, <1>1, <1>6 DEF SweepExpire, Sweep
<1>7. ASSUME SweepSkip(s) \/ SweepForget(s) \/ SweepFails(s) PROVE CollectOK(s)'
  BY <1>0, <1>1, <1>7 DEF SweepSkip, SweepForget, SweepFails, IdleSweep
<1>8. ASSUME NEW j \in Jobs, SweepRead(s, j) PROVE CollectOK(s)'
  <2>1. \E p, f : sweep' = [sweep EXCEPT ![s].pc = "expire", ![s].job = j,
                                         ![s].purging = p, ![s].forget = f]
    BY <1>8 DEF SweepRead
  <2> QED BY <1>0, <1>1, <2>1 DEF Sweep
<1> QED BY <1>1, <1>2, <1>3, <1>4, <1>5, <1>6, <1>7, <1>8, OneSweepMoves DEF SweepStep

(* Rows go after the objects they name.                                    *)
LEMMA OrphanStep ==
    ASSUME TypeInv, TypeInv', Outcome, Bundles, Objects, Next
    PROVE  NoOrphanBytes'
<1> SUFFICES ASSUME NEW k \in bytes', art'[k].state = "none" PROVE FALSE
  BY DEF NoOrphanBytes
<1>0. k \in Keys /\ art \in [Keys -> Row]
  BY DEF TypeInv, TypeOK
<1>1. art[k].state # "none"
  <2>1. CASE k \in bytes
    BY <2>1 DEF Objects, NoOrphanBytes
  <2>2. CASE k \notin bytes
    BY <2>2, BytesGrow DEF Objects, WriterOK
  <2> QED BY <2>1, <2>2
<1>2. ASSUME Written(k) PROVE FALSE
  <2>1. PICK r \in Runs : /\ k = Key(r)
                          /\ Start(r) \/ StartBundle(r) \/ SettleCommit(r) \/ ZipCommit(r)
    BY <1>2 DEF Written
  <2>2. CASE Start(r) \/ StartBundle(r)
    <3>1. PICK of \in SUBSET Keys : Intend(r, of)
      BY <2>2 DEF Start, StartBundle, TypeInv, TypeOK, Run
    <3> QED BY <1>0, <2>1, <3>1, IntendArt
  <2>3. CASE SettleCommit(r) \/ ZipCommit(r)
    <3>1. art' = art \/ art' = [art EXCEPT ![Key(r)].state = "ready"]
      BY <2>3 DEF SettleCommit, ZipCommit
    <3> QED BY <1>0, <1>1, <2>1, <3>1, ReadyArt
  <2> QED BY <2>1, <2>2, <2>3
<1>3. Dropped(k)
  BY <1>0, <1>1, <1>2, ArtChange DEF Kept
<1>4. PICK s \in Sweeps :
         \/ SweepRows(s) /\ k \in sweep[s].keys
         \/ SweepForget(s) /\ k \in KeysOf(sweep[s].job) /\ ReadyPdfs(sweep[s].job) = {}
  BY <1>3 DEF Dropped
<1>5. CollectOK(s)
  BY DEF Objects
<1>6. CASE SweepRows(s) /\ k \in sweep[s].keys
  <2>1. sweep[s].pc = "delete" /\ sweep[s].todo = {} /\ bytes' = bytes
    BY <1>6 DEF SweepRows
  <2> QED BY <1>5, <1>6, <2>1 DEF CollectOK
<1>7. CASE SweepForget(s) /\ k \in KeysOf(sweep[s].job) /\ ReadyPdfs(sweep[s].job) = {}
  <2>1. sweep[s].pc = "row"
    BY <1>7 DEF SweepForget
  <2>2. ~Disposable(k)
    BY <1>5, <1>7, <2>1 DEF CollectOK
  <2>3. k[2] \in Items /\ Ready(k)
    BY <1>0, <1>1, <2>2 DEF Disposable, Keys, Parts, Row, Ready
  <2> QED BY <1>7, <2>3 DEF ReadyPdfs
<1> QED BY <1>4, <1>6, <1>7

(* At first nothing is written or swept.                                   *)
LEMMA ObjectsInit == Init => Objects
<1> SUFFICES ASSUME Init PROVE Objects
  OBVIOUS
<1>1. /\ \A r \in Runs : run[r].pc = "new"
      /\ \A s \in Sweeps : sweep[s].pc = "idle"
      /\ bytes = {}
  BY DEF Init, NewRun, IdleSweep
<1> QED BY <1>1 DEF Objects, WriterOK, Writing, CollectOK, NoOrphanBytes

(* Every step keeps the invariant of the objects.                          *)
LEMMA ObjectsStep ==
    ASSUME ~Pauses, TypeInv, TypeInv', Outcome, Bundles, Objects, [Next]_vars
    PROVE  Objects'
<1>1. CASE Next
  <2>1. \A r \in Runs : WriterOK(r)'
    BY <1>1, WriterStep
  <2>2. \A s \in Sweeps : CollectOK(s)'
    BY <1>1, CollectStep
  <2> QED BY <1>1, <2>1, <2>2, OrphanStep DEF Objects
<1>2. CASE UNCHANGED vars
  <2>1. \A r \in Runs : WriterOK(r)'
    BY <1>2 DEF vars, Objects, WriterOK, Writing, Key
  <2>2. \A s \in Sweeps : CollectOK(s)'
    BY <1>2 DEF vars, Objects, CollectOK, KeysOf, Disposable
  <2>3. NoOrphanBytes'
    BY <1>2 DEF vars, Objects, NoOrphanBytes
  <2> QED BY <2>1, <2>2, <2>3 DEF Objects
<1> QED BY <1>1, <1>2

(* The invariant of the objects holds throughout.                          *)
LEMMA ObjectsAlways == ASSUME ~Pauses PROVE Spec => []Objects
<1>1. TypeInv /\ TypeInv' /\ Outcome /\ Bundles /\ Objects /\ [Next]_vars => Objects'
  BY ObjectsStep
<1> QED BY <1>1, BundlesAlways, ObjectsInit, PTL DEF Spec

(***************************************************************************)
(* ReportRunner persists an object's key before it writes, and             *)
(* MaintainReportsHandler deletes objects before rows: as long as no       *)
(* process outlives its lease in the middle of a write, every object has a *)
(* row that names it, through crashes, aborted sweeps and several sweeps   *)
(* of one job.                                                             *)
(***************************************************************************)
THEOREM ObjectsAreNamed == ASSUME ~Pauses PROVE Spec => []NoOrphanBytes
<1>1. Objects => NoOrphanBytes
  BY DEF Objects
<1> QED BY <1>1, ObjectsAlways, PTL

(***************************************************************************)
(* The lease of ReportRunner: under the same condition no two runs write   *)
(* objects of the same job, not even when the job was canceled, purged or  *)
(* delivered twice.                                                        *)
(***************************************************************************)
THEOREM WritersAreAlone == ASSUME ~Pauses PROVE Spec => []OneWriter
<1>1. Objects => OneWriter
  BY DEF Objects, OneWriter, WriterOK
<1> QED BY <1>1, ObjectsAlways, PTL
=============================================================================
