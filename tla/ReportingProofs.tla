-------------------------- MODULE ReportingProofs --------------------------
(***************************************************************************)
(* Theorems about Reporting for every set of jobs, items, runs and sweeps  *)
(* and every value of the limits.                                          *)
(***************************************************************************)
EXTENDS Reporting, FiniteSetTheorems, TLAPS

(* What a run's locals hold at each label: the part of TypeOK that needs   *)
(* to know where the run is.                                               *)
LocalsOK ==
    \A r \in Runs :
        /\ run[r].pc # "new" => run[r].job \in Jobs
        /\ run[r].pc \in {"start", "render", "settle", "settling"}
              => run[r].part \in Items
        /\ run[r].pc \in {"bundle", "zip", "zipready", "zipping"}
              => run[r].part = Bundle

TypeInv == TypeOK /\ LocalsOK

(* The initial state is well typed.                                        *)
LEMMA InitType == Init => TypeInv
BY ConstantsAssumption
   DEF Init, TypeInv, TypeOK, LocalsOK, Job, Entry, NoEntry, Row, NoRow, Run,
       NewRun, RunLabels, Sweep, IdleSweep, Months, Retentions

(* The endpoints keep the types.                                           *)
LEMMA EndpointType ==
    ASSUME TypeInv, NEW j \in Jobs, Submit(j) \/ Cancel(j) \/ Retry(j)
    PROVE  TypeInv'
<1>1. CASE Submit(j)
  <2>1. job' \in [Jobs -> Job]
    BY <1>1 DEF TypeInv, TypeOK, Submit, Job, JobStates
  <2>2. item' \in [Items -> ItemStates \cup {"None"}]
    BY <1>1 DEF TypeInv, TypeOK, Submit, ItemStates
  <2>3. entry' \in [Items -> Entry]
    BY <1>1 DEF TypeInv, TypeOK, Submit, Reserve, Entry
  <2> QED
    BY <1>1, <2>1, <2>2, <2>3 DEF TypeInv, TypeOK, LocalsOK, Submit, world, Months
<1>2. CASE Cancel(j)
  <2>1. job' \in [Jobs -> Job]
    <3>1. [job[j] EXCEPT !.revision = @ + 1] \in Job
      BY DEF TypeInv, TypeOK, Job
    <3>2. Finished("Canceled", [job[j] EXCEPT !.revision = @ + 1]) \in Job
      BY <3>1 DEF Finished, Job, JobStates, Retentions
    <3> QED BY <1>2, <3>2 DEF TypeInv, TypeOK, Cancel
  <2>2. item' \in [Items -> ItemStates \cup {"None"}]
    BY <1>2 DEF TypeInv, TypeOK, Cancel, ItemStates
  <2>3. entry' \in [Items -> Entry]
    BY <1>2, ConstantsAssumption
       DEF TypeInv, TypeOK, Cancel, ReleaseQuota, Entry, NoEntry, Months
  <2> QED
    BY <1>2, <2>1, <2>2, <2>3
       DEF TypeInv, TypeOK, LocalsOK, Cancel, outbox, world
<1>3. CASE Retry(j)
  <2>1. job' \in [Jobs -> Job]
    BY <1>3, ConstantsAssumption DEF TypeInv, TypeOK, Retry, Job, JobStates
  <2>2. item' \in [Items -> ItemStates \cup {"None"}]
    BY <1>3 DEF TypeInv, TypeOK, Retry, ItemStates
  <2>3. entry' \in [Items -> Entry]
    BY <1>3 DEF TypeInv, TypeOK, Retry, Reserve, Entry
  <2> QED
    BY <1>3, <2>1, <2>2, <2>3 DEF TypeInv, TypeOK, LocalsOK, Retry, world
<1> QED BY <1>1, <1>2, <1>3

(* Deliveries, time and the sweep's redelivery keep the types.             *)
LEMMA JobStepType ==
    ASSUME TypeInv, NEW j \in Jobs,
           \/ Claim(j) \/ IgnoredDelivery(j) \/ SweepResume(j)
           \/ LeaseLapses(j) \/ Stall(j) \/ RetentionPasses(j)
    PROVE  TypeInv'
<1>1. CASE Claim(j)
  <2> DEFINE r == Fresh
  <2>1. r \in Runs /\ run[r].pc = "new"
    BY <1>1 DEF Claim, Fresh
  <2> HIDE DEF r
  <2>2. /\ queue' \in {queue, queue \ {j}}
        /\ job' = [job EXCEPT ![j].state = "Running", ![j].owner = r,
                              ![j].leased = TRUE]
        /\ item' = [i \in Items |->
                      IF JobOf[i] = j /\ item[i] = "Running"
                      THEN "Queued" ELSE item[i]]
        /\ run' = [run EXCEPT ![r].pc = "load", ![r].job = j]
        /\ UNCHANGED <<entry, art, bytes, publish, sweep, world>>
    BY <1>1 DEF Claim, r
  <2>3. job' \in [Jobs -> Job]
    <3> DEFINE row == [job[j] EXCEPT !.state = "Running", !.owner = r, !.leased = TRUE]
    <3>1. row \in Job
      BY <2>1 DEF TypeInv, TypeOK, Job, JobStates
    <3>2. job' = [job EXCEPT ![j] = row]
      BY <2>2 DEF TypeInv, TypeOK
    <3> QED BY <3>1, <3>2 DEF TypeInv, TypeOK
  <2>4. item' \in [Items -> ItemStates \cup {"None"}]
    BY <2>2 DEF TypeInv, TypeOK, ItemStates
  <2>5. run' \in [Runs -> Run]
    <3> DEFINE locals == [run[r] EXCEPT !.pc = "load", !.job = j]
    <3>1. locals \in Run
      BY <2>1 DEF TypeInv, TypeOK, Run, RunLabels
    <3>2. run' = [run EXCEPT ![r] = locals]
      BY <2>2 DEF TypeInv, TypeOK
    <3> QED BY <3>1, <3>2 DEF TypeInv, TypeOK
  <2>6. LocalsOK'
    BY <2>1, <2>2 DEF TypeInv, TypeOK, LocalsOK, Run
  <2> QED
    BY <2>2, <2>3, <2>4, <2>5, <2>6 DEF TypeInv, TypeOK, world
<1>2. CASE IgnoredDelivery(j)
  BY <1>2 DEF TypeInv, TypeOK, LocalsOK, IgnoredDelivery, rows, world
<1>3. CASE SweepResume(j)
  <2>1. publish' \subseteq Keys
    BY <1>3 DEF TypeInv, TypeOK, SweepResume, Republished, Unfiled, ReadyPdfs, KeysOf
  <2> QED
    BY <1>3, <2>1 DEF TypeInv, TypeOK, LocalsOK, SweepResume, rows, world
<1>4. CASE LeaseLapses(j)
  <2>1. job' \in [Jobs -> Job]
    BY <1>4 DEF TypeInv, TypeOK, LeaseLapses, Job
  <2> QED
    BY <1>4, <2>1 DEF TypeInv, TypeOK, LocalsOK, LeaseLapses, rows, outbox, world
<1>5. CASE Stall(j)
  <2>1. job' \in [Jobs -> Job]
    BY <1>5 DEF TypeInv, TypeOK, Stall, Job
  <2>2. faults' \in 0 .. MaxFaults
    BY <1>5, ConstantsAssumption DEF TypeInv, TypeOK, Stall, Fault
  <2> QED
    BY <1>5, <2>1, <2>2 DEF TypeInv, TypeOK, LocalsOK, Stall, rows, outbox
<1>6. CASE RetentionPasses(j)
  <2>1. job' \in [Jobs -> Job]
    BY <1>6 DEF TypeInv, TypeOK, RetentionPasses, Job, Retentions
  <2> QED
    BY <1>6, <2>1 DEF TypeInv, TypeOK, LocalsOK, RetentionPasses, rows, outbox, world
<1> QED BY <1>1, <1>2, <1>3, <1>4, <1>5, <1>6

(* A jump changes the program counter of one run only.                     *)
LEMMA GotoType ==
    ASSUME TypeOK, NEW r \in Runs, NEW label \in RunLabels, Goto(r, label)
    PROVE  /\ run' \in [Runs -> Run]
           /\ \A q \in Runs : /\ run'[q].pc = IF q = r THEN label ELSE run[q].pc
                              /\ run'[q].job = run[q].job
                              /\ run'[q].part = run[q].part
                              /\ run'[q].rev = run[q].rev
<1> DEFINE locals == [run[r] EXCEPT !.pc = label]
<1>1. locals \in Run
  BY DEF TypeOK, Run
<1>2. run' = [run EXCEPT ![r] = locals]
  BY DEF Goto, TypeOK
<1>3. run' \in [Runs -> Run]
  BY <1>1, <1>2 DEF TypeOK
<1>4. \A q \in Runs : run'[q] = IF q = r THEN locals ELSE run[q]
  BY <1>2 DEF TypeOK
<1>5. /\ locals.pc = label /\ locals.job = run[r].job
      /\ locals.part = run[r].part /\ locals.rev = run[r].rev
  BY DEF TypeOK, Run
<1> QED BY <1>3, <1>4, <1>5

(* Leaving the loop body forgets the locals of one run only.               *)
LEMMA LeaveType ==
    ASSUME TypeOK, NEW r \in Runs, NEW label \in RunLabels, Leave(r, label)
    PROVE  /\ run' \in [Runs -> Run]
           /\ \A q \in Runs : /\ run'[q].pc = IF q = r THEN label ELSE run[q].pc
                              /\ run'[q].job = run[q].job
                              /\ q # r => run'[q] = run[q]
<1> DEFINE locals == [NewRun EXCEPT !.pc = label, !.job = run[r].job]
<1>1. locals \in Run
  BY DEF TypeOK, Run, NewRun
<1>2. run' = [run EXCEPT ![r] = locals]
  BY DEF Leave, TypeOK
<1>3. run' \in [Runs -> Run]
  BY <1>1, <1>2 DEF TypeOK
<1>4. \A q \in Runs : run'[q] = IF q = r THEN locals ELSE run[q]
  BY <1>2 DEF TypeOK
<1>5. locals.pc = label /\ locals.job = run[r].job
  BY DEF TypeOK, NewRun
<1> QED BY <1>3, <1>4, <1>5

(* A step that only leaves the loop body keeps the types.                  *)
LEMMA LeaveLocals ==
    ASSUME TypeInv, NEW r \in Runs, run[r].pc # "new",
           NEW label \in {"load", "release", "done"}, Leave(r, label)
    PROVE  run' \in [Runs -> Run] /\ LocalsOK'
<1>1. label \in RunLabels
  BY DEF RunLabels
<1>2. /\ run' \in [Runs -> Run]
      /\ \A q \in Runs : /\ run'[q].pc = IF q = r THEN label ELSE run[q].pc
                         /\ run'[q].job = run[q].job
                         /\ q # r => run'[q] = run[q]
  BY <1>1, LeaveType DEF TypeInv
<1> QED BY <1>2 DEF TypeInv, LocalsOK

(* The object key of a run that has a part is a key.                       *)
LEMMA KeyType ==
    ASSUME TypeInv, NEW r \in Runs,
           run[r].pc \in {"start", "render", "settle", "settling", "bundle",
                          "zip", "zipready", "zipping"}
    PROVE  Key(r) \in Keys /\ run[r].job \in Jobs
BY DEF TypeInv, LocalsOK, Key, Keys, Parts

(* Reading the job and choosing what to do next keeps the types.           *)
LEMMA ReadType ==
    ASSUME TypeInv, NEW r \in Runs, Load(r) \/ PickItem(r) \/ PickNone(r)
    PROVE  TypeInv'
<1> USE DEF TypeInv
<1>1. CASE Load(r)
  <2>1. run[r].pc = "load" /\ run[r].job \in Jobs
    BY <1>1 DEF Load, LocalsOK
  <2>2. CASE job[run[r].job].state = "Running" /\ job[run[r].job].owner = r
    <3> DEFINE locals == [run[r] EXCEPT !.pc = "pick", !.rev = job[run[r].job].revision]
    <3>1. locals \in Run
      BY <2>1 DEF TypeOK, Run, RunLabels, Job
    <3>2. run' = [run EXCEPT ![r] = locals]
      BY <1>1, <2>2 DEF Load, TypeOK
    <3>3. run' \in [Runs -> Run]
      BY <3>1, <3>2 DEF TypeOK
    <3>4. LocalsOK'
      BY <2>1, <3>2, <3>3 DEF TypeOK, LocalsOK, Run
    <3> QED
      BY <1>1, <3>3, <3>4 DEF TypeOK, Load, rows, outbox, world
  <2>3. CASE ~(job[run[r].job].state = "Running" /\ job[run[r].job].owner = r)
    <3>1. run' \in [Runs -> Run] /\ LocalsOK'
      BY <1>1, <2>1, <2>3, LeaveLocals DEF Load
    <3> QED
      BY <1>1, <3>1 DEF TypeOK, Load, rows, outbox, world
  <2> QED BY <2>2, <2>3
<1>2. CASE PickItem(r)
  <2>1. PICK i \in ItemsOf(run[r].job) :
           run' = [run EXCEPT ![r].pc = "start", ![r].part = i]
    BY <1>2 DEF PickItem
  <2>2. i \in Items /\ run[r].pc = "pick" /\ run[r].job \in Jobs
    BY <1>2 DEF PickItem, ItemsOf, LocalsOK
  <2> DEFINE locals == [run[r] EXCEPT !.pc = "start", !.part = i]
  <2>3. locals \in Run
    BY <2>2 DEF TypeOK, Run, RunLabels, Parts
  <2>4. run' = [run EXCEPT ![r] = locals]
    BY <2>1 DEF TypeOK
  <2>5. run' \in [Runs -> Run]
    BY <2>3, <2>4 DEF TypeOK
  <2>6. LocalsOK'
    BY <2>2, <2>4, <2>5 DEF TypeOK, LocalsOK, Run
  <2> QED
    BY <1>2, <2>5, <2>6 DEF TypeOK, PickItem, rows, outbox, world
<1>3. CASE PickNone(r)
  <2> DEFINE j == run[r].job
             next == IF NeedsBundle(r) THEN "bundle" ELSE "finish"
             mine == {k \in ReadyPdfs(j) : k[2] \in Succeeded(j)}
             locals == [run[r] EXCEPT !.pc = next, !.part = Bundle,
                                      !.good = Succeeded(j), !.pdfs = mine,
                                      !.verdict = Verdict(j)]
  <2>1. run[r].pc = "pick" /\ j \in Jobs
    BY <1>3 DEF PickNone, LocalsOK
  <2>2. /\ next \in {"bundle", "finish"}
        /\ Succeeded(j) \subseteq Items
        /\ mine \subseteq Keys
        /\ Verdict(j) \in {"Completed", "CompletedWithErrors", "Failed"}
    BY DEF Succeeded, ItemsOf, ReadyPdfs, KeysOf, Verdict
  <2>3. run' = [run EXCEPT ![r] = locals]
    BY <1>3 DEF PickNone, TypeOK
  <2> HIDE DEF next, mine
  <2>4. locals \in Run
    <3> DEFINE good == Succeeded(j)
               verdict == Verdict(j)
    <3>1. run[r] \in Run
      BY DEF TypeOK
    <3> HIDE DEF good, verdict
    <3>2. [run[r] EXCEPT !.pc = next, !.part = Bundle] \in Run
      BY <2>2, <3>1 DEF Run, RunLabels, Parts
    <3>3. [run[r] EXCEPT !.pc = next, !.part = Bundle, !.good = good,
                         !.pdfs = mine, !.verdict = verdict] \in Run
      BY <2>2, <3>2 DEF Run, good, verdict
    <3> QED BY <3>3 DEF good, verdict
  <2>5. run' \in [Runs -> Run]
    BY <2>3, <2>4 DEF TypeOK
  <2>6. LocalsOK'
    BY <2>1, <2>2, <2>3, <2>5 DEF TypeOK, LocalsOK, Run
  <2> QED
    BY <1>3, <2>5, <2>6 DEF TypeOK, PickNone, rows, outbox, world
<1> QED BY <1>1, <1>2, <1>3

(* A jump between the labels that keep part and job keeps LocalsOK.        *)
LEMMA GotoLocals ==
    ASSUME TypeInv, NEW r \in Runs, NEW label, Goto(r, label),
           \/ /\ run[r].pc \in {"start", "render", "settle"}
              /\ label \in {"render", "settle", "settling"}
           \/ /\ run[r].pc \in {"bundle", "zip", "zipready"}
              /\ label \in {"zip", "zipready", "zipping", "finish"}
    PROVE  run' \in [Runs -> Run] /\ LocalsOK'
<1>1. label \in RunLabels
  BY DEF RunLabels
<1>2. /\ run' \in [Runs -> Run]
      /\ \A q \in Runs : /\ run'[q].pc = IF q = r THEN label ELSE run[q].pc
                         /\ run'[q].job = run[q].job
                         /\ run'[q].part = run[q].part
  BY <1>1, GotoType DEF TypeInv
<1> QED BY <1>2 DEF TypeInv, LocalsOK

(* Recording an intended object keeps the types.                           *)
LEMMA IntendType ==
    ASSUME TypeInv, NEW r \in Runs, NEW of \in SUBSET Keys, Intend(r, of),
           run[r].pc \in {"start", "bundle"}
    PROVE  art' \in [Keys -> Row] /\ job' \in [Jobs -> Job]
<1>1. run[r].rev \in Nat /\ run[r].job \in Jobs /\ Key(r) \in Keys
  BY KeyType DEF TypeInv, TypeOK, Run
<1>2. [state |-> "pending", rev |-> run[r].rev, of |-> of] \in Row
  BY <1>1 DEF Row
<1>3. art' \in [Keys -> Row]
  BY <1>1, <1>2 DEF Intend, TypeInv, TypeOK
<1> DEFINE j == run[r].job
           row == [job[j] EXCEPT !.leased = TRUE]
<1>4. row \in Job
  BY <1>1 DEF TypeInv, TypeOK, Job
<1>5. job' = [job EXCEPT ![j] = row]
  BY DEF Intend, TypeInv, TypeOK
<1> QED BY <1>1, <1>3, <1>4, <1>5 DEF TypeInv, TypeOK

(* An interrupted write adds at most the run's own object.                 *)
LEMMA CutShortType ==
    ASSUME TypeInv, NEW r \in Runs, CutShort(r)
    PROVE  bytes' \subseteq Keys
<1>1. CASE Writing(r)
  <2>1. Key(r) \in Keys
    BY <1>1, KeyType DEF Writing
  <2> QED BY <1>1, <2>1 DEF CutShort, TypeInv, TypeOK
<1>2. CASE ~Writing(r)
  BY <1>2 DEF CutShort, TypeInv, TypeOK
<1> QED BY <1>1, <1>2

(* Producing a PDF keeps the types.                                        *)
LEMMA ItemStepType ==
    ASSUME TypeInv, NEW r \in Runs,
           Start(r) \/ Render(r) \/ Settle(r) \/ SettleCommit(r)
    PROVE  TypeInv'
<1>1. CASE Start(r)
  <2>1. run' \in [Runs -> Run] /\ LocalsOK'
    BY <1>1, GotoLocals DEF Start
  <2>2. art' \in [Keys -> Row] /\ job' \in [Jobs -> Job]
    BY <1>1, IntendType DEF Start
  <2>3. item' \in [Items -> ItemStates \cup {"None"}]
    BY <1>1 DEF Start, TypeInv, TypeOK, ItemStates
  <2> QED
    BY <1>1, <2>1, <2>2, <2>3 DEF Start, TypeInv, TypeOK, outbox, world
<1>2. CASE Render(r)
  <2>1. run[r].pc = "render" /\ Key(r) \in Keys
    BY <1>2, KeyType DEF Render
  <2>2. bytes' \subseteq Keys
    BY <1>2, <2>1, CutShortType DEF Render, TypeInv, TypeOK
  <2>3. PICK ok \in BOOLEAN : run' = [run EXCEPT ![r].pc = "settle", ![r].ok = ok]
    BY <1>2 DEF Render
  <2> DEFINE locals == [run[r] EXCEPT !.pc = "settle", !.ok = ok]
  <2>4. locals \in Run
    BY DEF TypeInv, TypeOK, Run, RunLabels
  <2>5. run' = [run EXCEPT ![r] = locals]
    BY <2>3 DEF TypeInv, TypeOK
  <2>6. run' \in [Runs -> Run]
    BY <2>4, <2>5 DEF TypeInv, TypeOK
  <2>7. LocalsOK'
    BY <2>1, <2>5, <2>6 DEF TypeInv, TypeOK, LocalsOK, Run
  <2> QED
    BY <1>2, <2>2, <2>6, <2>7 DEF Render, TypeInv, TypeOK, outbox, world
<1>3. CASE Settle(r)
  <2>1. run' \in [Runs -> Run] /\ LocalsOK'
    BY <1>3, GotoLocals DEF Settle
  <2> QED
    BY <1>3, <2>1 DEF Settle, TypeInv, TypeOK, rows, outbox, world
<1>4. CASE SettleCommit(r)
  <2> DEFINE i == run[r].part
  <2>1. run[r].pc = "settling" /\ i \in Items /\ Key(r) \in Keys
    BY <1>4, KeyType DEF SettleCommit, TypeInv, LocalsOK
  <2>2. run' \in [Runs -> Run] /\ LocalsOK'
    BY <1>4, <2>1, LeaveLocals DEF SettleCommit
  <2>3. entry' \in [Items -> Entry]
    <3> DEFINE c == [entry[i] EXCEPT !.charge = "consumed"]
    <3>1. entry \in [Items -> Entry] /\ c \in Entry /\ NoEntry \in Entry
      BY <2>1, ConstantsAssumption DEF TypeInv, TypeOK, Entry, NoEntry, Months
    <3>2. \/ entry' = entry
          \/ entry' = [entry EXCEPT ![i] = c]
          \/ entry' = [entry EXCEPT ![i] = NoEntry]
      BY <1>4 DEF SettleCommit, SettleQuota
    <3> QED BY <3>1, <3>2
  <2>4. item' \in [Items -> ItemStates \cup {"None"}]
    BY <1>4 DEF SettleCommit, TypeInv, TypeOK, ItemStates
  <2>5. art' \in [Keys -> Row] /\ publish' \subseteq Keys
    <3>1. [art[Key(r)] EXCEPT !.state = "ready"] \in Row
      BY <2>1 DEF TypeInv, TypeOK, Row
    <3> QED BY <1>4, <2>1, <3>1 DEF SettleCommit, TypeInv, TypeOK
  <2> QED
    BY <1>4, <2>2, <2>3, <2>4, <2>5 DEF SettleCommit, TypeInv, TypeOK, world
<1> QED BY <1>1, <1>2, <1>3, <1>4

(* Producing the bundle keeps the types.                                   *)
LEMMA BundleStepType ==
    ASSUME TypeInv, NEW r \in Runs,
           \/ StartBundle(r) \/ WriteZip(r) \/ BundleFails(r)
           \/ ZipReady(r) \/ ZipCommit(r)
    PROVE  TypeInv'
<1>1. CASE StartBundle(r)
  <2>1. run' \in [Runs -> Run] /\ LocalsOK'
    BY <1>1, GotoLocals DEF StartBundle
  <2>2. run[r].pdfs \in SUBSET Keys
    BY DEF TypeInv, TypeOK, Run
  <2>3. art' \in [Keys -> Row] /\ job' \in [Jobs -> Job]
    BY <1>1, <2>2, IntendType DEF StartBundle
  <2> QED
    BY <1>1, <2>1, <2>3 DEF StartBundle, TypeInv, TypeOK, outbox, world
<1>2. CASE WriteZip(r)
  <2>1. run' \in [Runs -> Run] /\ LocalsOK'
    BY <1>2, GotoLocals DEF WriteZip
  <2>2. Key(r) \in Keys
    BY <1>2, KeyType DEF WriteZip
  <2> QED
    BY <1>2, <2>1, <2>2 DEF WriteZip, TypeInv, TypeOK, outbox, world
<1>3. CASE BundleFails(r)
  <2>1. bytes' \subseteq Keys
    BY <1>3, CutShortType DEF BundleFails
  <2> DEFINE locals == [run[r] EXCEPT !.pc = "finish", !.verdict = "Failed"]
  <2>2. locals \in Run
    BY DEF TypeInv, TypeOK, Run, RunLabels
  <2>3. run' = [run EXCEPT ![r] = locals]
    BY <1>3 DEF BundleFails, TypeInv, TypeOK
  <2>4. run' \in [Runs -> Run]
    BY <2>2, <2>3 DEF TypeInv, TypeOK
  <2>5. LocalsOK'
    BY <1>3, <2>3, <2>4 DEF BundleFails, TypeInv, TypeOK, LocalsOK, Run
  <2> QED
    BY <1>3, <2>1, <2>4, <2>5 DEF BundleFails, TypeInv, TypeOK, outbox, world
<1>4. CASE ZipReady(r)
  <2>1. run' \in [Runs -> Run] /\ LocalsOK'
    BY <1>4, GotoLocals DEF ZipReady
  <2> QED
    BY <1>4, <2>1 DEF ZipReady, TypeInv, TypeOK, rows, outbox, world
<1>5. CASE ZipCommit(r)
  <2>1. run[r].pc = "zipping" /\ Key(r) \in Keys /\ run[r].job \in Jobs
    BY <1>5, KeyType DEF ZipCommit
  <2>2. art' \in [Keys -> Row]
    <3>1. [art[Key(r)] EXCEPT !.state = "ready"] \in Row
      BY <2>1 DEF TypeInv, TypeOK, Row
    <3> QED BY <1>5, <2>1, <3>1 DEF ZipCommit, TypeInv, TypeOK
  <2>3. PICK v \in {run[r].verdict, "Failed"} :
           run' = [run EXCEPT ![r].pc = "finish", ![r].verdict = v]
    BY <1>5 DEF ZipCommit
  <2> DEFINE locals == [run[r] EXCEPT !.pc = "finish", !.verdict = v]
  <2>4. v \in {"Completed", "CompletedWithErrors", "Failed"}
    BY DEF TypeInv, TypeOK, Run
  <2>5. locals \in Run
    BY <2>4 DEF TypeInv, TypeOK, Run, RunLabels
  <2>6. run' = [run EXCEPT ![r] = locals]
    BY <2>3 DEF TypeInv, TypeOK
  <2>7. run' \in [Runs -> Run]
    BY <2>5, <2>6 DEF TypeInv, TypeOK
  <2>8. LocalsOK'
    BY <2>1, <2>6, <2>7 DEF TypeInv, TypeOK, LocalsOK, Run
  <2> QED
    BY <1>5, <2>2, <2>7, <2>8 DEF ZipCommit, TypeInv, TypeOK, outbox, world
<1> QED BY <1>1, <1>2, <1>3, <1>4, <1>5

(* Finishing a job row gives a job row.                                    *)
LEMMA FinishedType ==
    ASSUME NEW row \in Job, NEW state \in JobStates
    PROVE  Finished(state, row) \in Job
<1>1. [row EXCEPT !.state = state] \in Job
  BY DEF Job
<1>2. [row EXCEPT !.state = state, !.retention = "kept"] \in Job
  BY DEF Job, Retentions
<1>3. Finished(state, row) \in {[row EXCEPT !.state = state],
                               [row EXCEPT !.state = state, !.retention = "kept"]}
  BY DEF Finished, Job
<1> QED BY <1>1, <1>2, <1>3

(* Ending a run, by itself or by a fault, keeps the types.                 *)
LEMMA RunEndType ==
    ASSUME TypeInv, NEW r \in Runs,
           \/ Finish(r) \/ LostOwnership(r) \/ Release(r)
           \/ Crash(r) \/ Abort(r)
    PROVE  TypeInv'
<1>1. CASE Finish(r)
  <2> DEFINE j == run[r].job
  <2>1. run' \in [Runs -> Run] /\ LocalsOK'
    BY <1>1, LeaveLocals DEF Finish
  <2>2. j \in Jobs
    BY <1>1 DEF Finish, TypeInv, LocalsOK
  <2>3. Finished(run[r].verdict, job[j]) \in Job
    <3>1. job[j] \in Job /\ run[r].verdict \in {"Completed", "CompletedWithErrors", "Failed"}
      BY <2>2 DEF TypeInv, TypeOK, Run
    <3> QED BY <3>1, FinishedType DEF JobStates
  <2>4. job' \in [Jobs -> Job]
    BY <1>1, <2>2, <2>3 DEF Finish, TypeInv, TypeOK
  <2> QED
    BY <1>1, <2>1, <2>4 DEF Finish, TypeInv, TypeOK, rows, outbox, world
<1>2. CASE LostOwnership(r)
  <2>1. run' \in [Runs -> Run] /\ LocalsOK'
    BY <1>2, LeaveLocals DEF LostOwnership
  <2> QED
    BY <1>2, <2>1 DEF LostOwnership, TypeInv, TypeOK, rows, outbox, world
<1>3. CASE Release(r)
  <2> DEFINE j == run[r].job
             row == [job[j] EXCEPT !.owner = None, !.leased = FALSE]
  <2>1. run' \in [Runs -> Run] /\ LocalsOK'
    BY <1>3, LeaveLocals DEF Release
  <2>2. j \in Jobs
    BY <1>3 DEF Release, TypeInv, LocalsOK
  <2>3. row \in Job
    <3>1. job[j] \in Job
      BY <2>2 DEF TypeInv, TypeOK
    <3> HIDE DEF j
    <3> QED BY <3>1 DEF Job
  <2>4. job' = job \/ job' = [job EXCEPT ![j] = row]
    BY <1>3 DEF Release, TypeInv, TypeOK
  <2>5. job' \in [Jobs -> Job]
    BY <2>2, <2>3, <2>4 DEF TypeInv, TypeOK
  <2> QED
    BY <1>3, <2>1, <2>5 DEF Release, TypeInv, TypeOK, rows, outbox, world
<1>4. CASE Crash(r)
  <2>1. run' \in [Runs -> Run] /\ LocalsOK'
    BY <1>4, LeaveLocals DEF Crash, Active
  <2>2. bytes' \subseteq Keys
    BY <1>4, CutShortType DEF Crash
  <2>3. faults' \in 0 .. MaxFaults
    BY <1>4, ConstantsAssumption DEF Crash, Fault, TypeInv, TypeOK
  <2> QED
    BY <1>4, <2>1, <2>2, <2>3 DEF Crash, TypeInv, TypeOK, outbox
<1>5. CASE Abort(r)
  <2>1. run' \in [Runs -> Run] /\ LocalsOK'
    BY <1>5, LeaveLocals DEF Abort, Active
  <2>2. bytes' \subseteq Keys
    BY <1>5, CutShortType DEF Abort
  <2>3. faults' \in 0 .. MaxFaults
    BY <1>5, ConstantsAssumption DEF Abort, Fault, TypeInv, TypeOK
  <2> QED
    BY <1>5, <2>1, <2>2, <2>3 DEF Abort, TypeInv, TypeOK, outbox
<1> QED BY <1>1, <1>2, <1>3, <1>4, <1>5

(* Every step of the sweep keeps the types.                                *)
LEMMA SweepType ==
    ASSUME TypeInv, NEW s \in Sweeps,
           \/ SweepStep(s) \/ SweepFails(s)
           \/ \E j \in Jobs : SweepRead(s, j)
    PROVE  TypeInv'
<1>0. IdleSweep \in Sweep /\ sweep[s] \in Sweep
  BY DEF TypeInv, TypeOK, Sweep, IdleSweep
<1>1. CASE \E j \in Jobs : SweepRead(s, j)
  <2>1. PICK j \in Jobs : SweepRead(s, j)
    BY <1>1
  <2> DEFINE p == (job[j].state = "Purging")
             f == (job[j].retention = "forgotten")
             row == [sweep[s] EXCEPT !.pc = "expire", !.job = j,
                                     !.purging = p, !.forget = f]
  <2>2. row \in Sweep
    BY <1>0 DEF Sweep
  <2>3. sweep' = [sweep EXCEPT ![s] = row]
    BY <2>1 DEF SweepRead, TypeInv, TypeOK
  <2>4. sweep' \in [Sweeps -> Sweep]
    BY <2>2, <2>3 DEF TypeInv, TypeOK
  <2>5. publish' \subseteq Keys
    BY <2>1 DEF SweepRead, Republished, Unfiled, ReadyPdfs, KeysOf, TypeInv, TypeOK
  <2> QED
    BY <2>1, <2>4, <2>5 DEF SweepRead, TypeInv, TypeOK, LocalsOK, rows, world
<1>2. CASE SweepExpire(s)
  <2> DEFINE j == sweep[s].job
             n == IF job[j].revision < MaxRevision
                  THEN job[j].revision + 1 ELSE job[j].revision
             st == IF Live(j) THEN "Expired" ELSE job[j].state
             row == [job[j] EXCEPT !.state = st, !.revision = n,
                                   !.owner = None, !.leased = FALSE]
  <2>1. job' = [job EXCEPT ![j] = row]
    BY <1>2 DEF SweepExpire, TypeInv, TypeOK
  <2>2. ASSUME j \in Jobs PROVE row \in Job
    <3>1. job[j] \in Job /\ MaxRevision \in Nat
      BY <2>2, ConstantsAssumption DEF TypeInv, TypeOK
    <3>2. n \in Nat /\ st \in JobStates \cup {"None", "Gone"}
      BY <3>1 DEF Job, JobStates
    <3> HIDE DEF j, n, st
    <3> QED BY <3>1, <3>2 DEF Job
  <2>3. job' \in [Jobs -> Job]
    BY <2>1, <2>2 DEF TypeInv, TypeOK
  <2>4. entry' \in [Items -> Entry]
    BY <1>2, ConstantsAssumption
       DEF SweepExpire, ReleaseQuota, TypeInv, TypeOK, Entry, NoEntry, Months
  <2>5. [sweep[s] EXCEPT !.pc = "collect"] \in Sweep
    BY <1>0 DEF Sweep
  <2>6. sweep' \in [Sweeps -> Sweep]
    BY <1>2, <2>5 DEF SweepExpire, TypeInv, TypeOK
  <2> QED
    BY <1>2, <2>3, <2>4, <2>6 DEF SweepExpire, TypeInv, TypeOK, LocalsOK, outbox, world
<1>3. CASE SweepSkip(s)
  <2>1. sweep' \in [Sweeps -> Sweep]
    BY <1>0, <1>3 DEF SweepSkip, TypeInv, TypeOK
  <2> QED
    BY <1>3, <2>1 DEF SweepSkip, TypeInv, TypeOK, LocalsOK, rows, outbox, world
<1>4. CASE SweepCollect(s)
  <2> DEFINE keys == {k \in KeysOf(sweep[s].job) : sweep[s].purging \/ Disposable(k)}
             row == [sweep[s] EXCEPT !.pc = "delete", !.keys = keys, !.todo = keys]
  <2>1. keys \subseteq Keys
    BY DEF KeysOf
  <2>2. sweep' = [sweep EXCEPT ![s] = row]
    BY <1>4 DEF SweepCollect, TypeInv, TypeOK
  <2> HIDE DEF keys
  <2>3. row \in Sweep
    BY <1>0, <2>1 DEF Sweep
  <2>4. sweep' \in [Sweeps -> Sweep]
    BY <2>2, <2>3 DEF TypeInv, TypeOK
  <2> QED
    BY <1>4, <2>4 DEF SweepCollect, TypeInv, TypeOK, LocalsOK, rows, outbox, world
<1>5. CASE SweepDelete(s)
  <2>1. PICK k \in sweep[s].todo :
           /\ bytes' = bytes \ {k}
           /\ sweep' = [sweep EXCEPT ![s].todo = @ \ {k}]
    BY <1>5 DEF SweepDelete
  <2>2. [sweep[s] EXCEPT !.todo = @ \ {k}] \in Sweep
    BY <1>0 DEF Sweep
  <2>3. sweep' \in [Sweeps -> Sweep] /\ bytes' \subseteq Keys
    BY <2>1, <2>2 DEF TypeInv, TypeOK
  <2> QED
    BY <1>5, <2>3 DEF SweepDelete, TypeInv, TypeOK, LocalsOK, outbox, world
<1>6. CASE SweepRows(s)
  <2>1. [sweep[s] EXCEPT !.pc = "row"] \in Sweep
    BY <1>0 DEF Sweep
  <2>2. sweep' \in [Sweeps -> Sweep]
    BY <1>6, <2>1 DEF SweepRows, TypeInv, TypeOK
  <2>3. art' \in [Keys -> Row]
    BY <1>6 DEF SweepRows, TypeInv, TypeOK, Row, NoRow
  <2> QED
    BY <1>6, <2>2, <2>3 DEF SweepRows, TypeInv, TypeOK, LocalsOK, outbox, world
<1>7. CASE SweepForget(s)
  <2> DEFINE j == sweep[s].job
             row == [job[j] EXCEPT !.state = "Gone", !.owner = None, !.leased = FALSE]
  <2>1. sweep' \in [Sweeps -> Sweep]
    BY <1>0, <1>7 DEF SweepForget, TypeInv, TypeOK
  <2>2. job' = job \/ job' = [job EXCEPT ![j] = row]
    BY <1>7 DEF SweepForget, TypeInv, TypeOK
  <2>3. ASSUME j \in Jobs PROVE row \in Job
    <3>1. job[j] \in Job
      BY <2>3 DEF TypeInv, TypeOK
    <3> HIDE DEF j
    <3> QED BY <3>1 DEF Job
  <2>4. job' \in [Jobs -> Job]
    BY <2>2, <2>3 DEF TypeInv, TypeOK
  <2>5. item' \in [Items -> ItemStates \cup {"None"}]
    BY <1>7 DEF SweepForget, TypeInv, TypeOK
  <2>6. art' \in [Keys -> Row]
    BY <1>7 DEF SweepForget, TypeInv, TypeOK, Row, NoRow
  <2> QED
    BY <1>7, <2>1, <2>4, <2>5, <2>6
       DEF SweepForget, TypeInv, TypeOK, LocalsOK, outbox, world
<1>8. CASE SweepFails(s)
  <2>1. sweep' \in [Sweeps -> Sweep]
    BY <1>0, <1>8 DEF SweepFails, TypeInv, TypeOK
  <2>2. faults' \in 0 .. MaxFaults
    BY <1>8, ConstantsAssumption DEF SweepFails, Fault, TypeInv, TypeOK
  <2> QED
    BY <1>8, <2>1, <2>2 DEF SweepFails, TypeInv, TypeOK, LocalsOK, rows, outbox
<1> QED
  BY <1>1, <1>2, <1>3, <1>4, <1>5, <1>6, <1>7, <1>8 DEF SweepStep

(* Publication, the purge and the turn of a month keep the types.          *)
LEMMA WorldType ==
    ASSUME TypeInv,
           (\E k \in Keys : FilePublished(k)) \/ PurgeOrg \/ NextMonth
    PROVE  TypeInv'
<1>1. CASE \E k \in Keys : FilePublished(k)
  <2>1. PICK k \in Keys : FilePublished(k)
    BY <1>1
  <2> DEFINE st == IF Ready(k) THEN "filed" ELSE art[k].state
             row == [art[k] EXCEPT !.state = st]
  <2>2. row \in Row
    BY DEF TypeInv, TypeOK, Row
  <2>3. art' = art \/ art' = [art EXCEPT ![k] = row]
    BY <2>1 DEF FilePublished, TypeInv, TypeOK
  <2>4. art' \in [Keys -> Row]
    BY <2>2, <2>3 DEF TypeInv, TypeOK
  <2> QED
    BY <2>1, <2>4 DEF FilePublished, TypeInv, TypeOK, LocalsOK, world
<1>2. CASE PurgeOrg
  <2>1. \A j \in Jobs :
           [job[j] EXCEPT !.state = "Purging", !.revision = @ + 1,
                          !.retention = "forgotten"] \in Job
    <3> TAKE j \in Jobs
    <3>1. job[j] \in Job
      BY DEF TypeInv, TypeOK
    <3> DEFINE n == job[j].revision + 1
    <3>2. n \in Nat
      BY <3>1 DEF Job
    <3>3. [job[j] EXCEPT !.state = "Purging", !.revision = job[j].revision + 1,
                         !.retention = "forgotten"]
            = [job[j] EXCEPT !.state = "Purging", !.revision = n,
                             !.retention = "forgotten"]
      OBVIOUS
    <3> HIDE DEF n
    <3>4. [job[j] EXCEPT !.state = "Purging", !.revision = n,
                         !.retention = "forgotten"] \in Job
      BY <3>1, <3>2 DEF Job, JobStates, Retentions
    <3> QED BY <3>3, <3>4
  <2>2. job' \in [Jobs -> Job]
    BY <1>2, <2>1 DEF PurgeOrg, TypeInv, TypeOK
  <2>3. entry' \in [Items -> Entry]
    <3>1. NoEntry \in Entry
      BY ConstantsAssumption DEF Entry, NoEntry, Months
    <3>2. entry' = [i \in Items |-> NoEntry]
      BY <1>2 DEF PurgeOrg
    <3> QED BY <3>1, <3>2
  <2>4. purges' \in 0 .. MaxPurges
    <3>1. purges < MaxPurges /\ purges' = purges + 1
      BY <1>2 DEF PurgeOrg
    <3> QED BY <3>1, ConstantsAssumption DEF TypeInv, TypeOK
  <2> QED
    BY <1>2, <2>2, <2>3, <2>4 DEF PurgeOrg, TypeInv, TypeOK, LocalsOK, outbox
<1>3. CASE NextMonth
  BY <1>3, ConstantsAssumption
     DEF NextMonth, TypeInv, TypeOK, LocalsOK, Months, rows, outbox
<1> QED BY <1>1, <1>2, <1>3

(* The type invariant, with what the runs' locals hold, is inductive.      *)
LEMMA TypeStep == TypeInv /\ [Next]_vars => TypeInv'
<1> SUFFICES ASSUME TypeInv, [Next]_vars PROVE TypeInv'
  OBVIOUS
<1>1. CASE UNCHANGED vars
  BY <1>1 DEF vars, TypeInv, TypeOK, LocalsOK
<1>2. CASE Next
  BY <1>2, EndpointType, JobStepType, ReadType, ItemStepType, BundleStepType,
     RunEndType, SweepType, WorldType
     DEF Next, RunStep
<1> QED BY <1>1, <1>2

(* Rows, locals, messages and counters of report execution keep their      *)
(* types in every reachable state.                                         *)
THEOREM TypeCorrect == Spec => []TypeOK
<1>1. Spec => []TypeInv
  BY InitType, TypeStep, PTL DEF Spec
<1> QED BY <1>1, PTL DEF TypeInv

-----------------------------------------------------------------------------
(* The monthly limit *)

(* Reserved units are added to the current month only, within the limit.   *)
LEMMA ReserveWithinLimit ==
    ASSUME TypeInv, QuotaWithinLimit, NEW S \in SUBSET Items, Reserve(S)
    PROVE  QuotaWithinLimit'
<1> SUFFICES ASSUME NEW m \in Months PROVE Cardinality(EntriesIn(m)') <= Limit
  BY DEF QuotaWithinLimit
<1>1. IsFiniteSet(EntriesIn(m)) /\ IsFiniteSet(S)
  BY FS_Subset, ConstantsAssumption DEF EntriesIn
<1>2. CASE m # month \/ S = {}
  <2>1. EntriesIn(m)' = EntriesIn(m)
    BY <1>2 DEF Reserve, EntriesIn, TypeInv, TypeOK
  <2> QED BY <2>1 DEF QuotaWithinLimit
<1>3. CASE m = month /\ S # {}
  <2>1. EntriesIn(m)' = EntriesIn(m) \cup S
    BY <1>3 DEF Reserve, EntriesIn, TypeInv, TypeOK
  <2>2. /\ Cardinality(EntriesIn(m)) \in Nat
        /\ Cardinality(S) \in Nat
        /\ Cardinality(EntriesIn(m) \cap S) \in Nat
    BY <1>1, FS_CardinalityType, FS_Intersection
  <2>3. Cardinality(EntriesIn(m) \cup S)
          = Cardinality(EntriesIn(m)) + Cardinality(S)
              - Cardinality(EntriesIn(m) \cap S)
    BY <1>1, FS_Union
  <2>4. Cardinality(EntriesIn(m)) + Cardinality(S) <= Limit
    BY <1>3 DEF Reserve, HasRoomFor
  <2> QED BY <2>1, <2>2, <2>3, <2>4, ConstantsAssumption
<1> QED BY <1>2, <1>3

(* A step that books no new unit keeps within the limit.                   *)
LEMMA NoNewUnits ==
    ASSUME TypeInv, QuotaWithinLimit,
           \A m \in Months : EntriesIn(m)' \subseteq EntriesIn(m)
    PROVE  QuotaWithinLimit'
<1> SUFFICES ASSUME NEW m \in Months PROVE Cardinality(EntriesIn(m)') <= Limit
  BY DEF QuotaWithinLimit
<1>1. IsFiniteSet(EntriesIn(m))
  BY FS_Subset, ConstantsAssumption DEF EntriesIn
<1>2. /\ Cardinality(EntriesIn(m)') <= Cardinality(EntriesIn(m))
      /\ IsFiniteSet(EntriesIn(m)')
  BY <1>1, FS_Subset
<1>3. Cardinality(EntriesIn(m)) \in Nat /\ Cardinality(EntriesIn(m)') \in Nat
  BY <1>1, <1>2, FS_CardinalityType
<1> QED BY <1>2, <1>3, ConstantsAssumption DEF QuotaWithinLimit

(* Only Submit and Retry book units.                                       *)
LEMMA QuotaStep ==
    ASSUME TypeInv, QuotaWithinLimit, [Next]_vars
    PROVE  QuotaWithinLimit'
<1>1. ASSUME NEW j \in Jobs, Submit(j) \/ Retry(j) PROVE QuotaWithinLimit'
  <2>1. ItemsOf(j) \in SUBSET Items /\ FailedItems(j) \in SUBSET Items
    BY DEF ItemsOf, FailedItems
  <2> QED BY <1>1, <2>1, ReserveWithinLimit DEF Submit, Retry
<1>2. ASSUME NEW j \in Jobs, ReleaseQuota(j) PROVE QuotaWithinLimit'
  <2>1. \A m \in Months : EntriesIn(m)' \subseteq EntriesIn(m)
    BY <1>2 DEF ReleaseQuota, EntriesIn, NoEntry, TypeInv, TypeOK
  <2> QED BY <2>1, NoNewUnits
<1>3. ASSUME NEW r \in Runs, SettleCommit(r) PROVE QuotaWithinLimit'
  <2> DEFINE i == run[r].part
  <2>1. i \in Items /\ SettleQuota(i, run[r].ok)
    BY <1>3 DEF SettleCommit, TypeInv, LocalsOK
  <2>2. \A e \in Items : /\ entry'[e].charge # "none" => entry[e].charge # "none"
                         /\ entry'[e].charge # "none" => entry'[e].month = entry[e].month
    <3> DEFINE c == [entry[i] EXCEPT !.charge = "consumed"]
    <3>1. entry \in [Items -> Entry] /\ entry[i] \in Entry
      BY <2>1 DEF TypeInv, TypeOK
    <3>2. c.month = entry[i].month
      BY <3>1 DEF Entry
    <3>3. \/ entry' = entry
          \/ entry[i].charge # "none" /\ entry' = [entry EXCEPT ![i] = c]
          \/ entry' = [entry EXCEPT ![i] = NoEntry]
      BY <2>1, <3>1 DEF SettleQuota
    <3> HIDE DEF i, c
    <3> QED BY <2>1, <3>1, <3>2, <3>3 DEF NoEntry
  <2>3. \A m \in Months : EntriesIn(m)' \subseteq EntriesIn(m)
    BY <2>2 DEF EntriesIn
  <2> QED BY <2>3, NoNewUnits
<1>4. ASSUME PurgeOrg PROVE QuotaWithinLimit'
  <2>1. entry' = [i \in Items |-> NoEntry]
    BY <1>4 DEF PurgeOrg
  <2>2. \A m \in Months : EntriesIn(m)' = {}
    BY <2>1 DEF EntriesIn, NoEntry
  <2> QED BY <2>2, NoNewUnits
<1>5. ASSUME entry' = entry PROVE QuotaWithinLimit'
  BY <1>5 DEF QuotaWithinLimit, EntriesIn
<1>6. CASE UNCHANGED vars
  BY <1>5, <1>6 DEF vars
<1>7. ASSUME NEW j \in Jobs, Cancel(j) PROVE QuotaWithinLimit'
  BY <1>2, <1>7 DEF Cancel
<1>8. ASSUME NEW s \in Sweeps, SweepExpire(s) PROVE QuotaWithinLimit'
  <2>1. \A m \in Months : EntriesIn(m)' \subseteq EntriesIn(m)
    BY <1>8 DEF SweepExpire, ReleaseQuota, EntriesIn, NoEntry, TypeInv, TypeOK
  <2> QED BY <2>1, NoNewUnits
<1>9. CASE Next
  <2>1. ASSUME NEW j \in Jobs,
               \/ Claim(j) \/ IgnoredDelivery(j) \/ SweepResume(j)
               \/ LeaseLapses(j) \/ Stall(j) \/ RetentionPasses(j)
        PROVE  entry' = entry
    BY <2>1 DEF Claim, IgnoredDelivery, SweepResume, LeaseLapses, Stall,
                RetentionPasses, rows
  <2>2. ASSUME NEW r \in Runs, RunStep(r) \/ Crash(r) \/ Abort(r), ~SettleCommit(r)
        PROVE  entry' = entry
    BY <2>2 DEF RunStep, Load, PickItem, PickNone, Start, Render, Settle,
                StartBundle, WriteZip, BundleFails, ZipReady, ZipCommit, Finish,
                LostOwnership, Release, Crash, Abort, rows
  <2>3. ASSUME NEW s \in Sweeps, NEW j \in Jobs,
               \/ SweepStep(s) \/ SweepFails(s) \/ SweepRead(s, j),
               ~SweepExpire(s)
        PROVE  entry' = entry
    BY <2>3 DEF SweepStep, SweepSkip, SweepCollect, SweepDelete, SweepRows,
                SweepForget, SweepFails, SweepRead, rows
  <2>4. ASSUME NEW s \in Sweeps, SweepStep(s) \/ SweepFails(s), ~SweepExpire(s)
        PROVE  entry' = entry
    BY <2>4 DEF SweepStep, SweepSkip, SweepCollect, SweepDelete, SweepRows,
                SweepForget, SweepFails, rows
  <2>5. ASSUME NEW k \in Keys, FilePublished(k) PROVE entry' = entry
    BY <2>5 DEF FilePublished
  <2>6. ASSUME NextMonth PROVE entry' = entry
    BY <2>6 DEF NextMonth, rows
  <2> QED
    BY <1>1, <1>3, <1>4, <1>5, <1>7, <1>8, <1>9, <2>1, <2>2, <2>3, <2>4, <2>5, <2>6
       DEF Next
<1> QED BY <1>6, <1>9

(* reports.monthly is strict: for every limit, every number of jobs, runs  *)
(* and sweeps, the units reserved and consumed in a month never exceed it. *)
THEOREM QuotaIsStrict == Spec => []QuotaWithinLimit
<1>1. Init => QuotaWithinLimit
  <2> SUFFICES ASSUME Init, NEW m \in Months PROVE Cardinality(EntriesIn(m)) <= Limit
    BY DEF QuotaWithinLimit
  <2>1. EntriesIn(m) = {}
    BY DEF Init, EntriesIn, NoEntry
  <2> QED BY <2>1, FS_EmptySet, ConstantsAssumption
<1>2. TypeInv /\ QuotaWithinLimit /\ [Next]_vars => QuotaWithinLimit'
  BY QuotaStep
<1>3. Spec => []TypeInv
  BY InitType, TypeStep, PTL DEF Spec
<1> QED BY <1>1, <1>2, <1>3, PTL DEF Spec

-----------------------------------------------------------------------------
(* Lost ownership *)

(* A job never comes back to a run that is past its claim: the lease owner *)
(* is a new run whenever it is set, a job starts running only when it is   *)
(* claimed, and whatever changes the revision takes the job away.          *)
LEMMA NoWayBack ==
    ASSUME TypeInv, Next, NEW r \in Runs, run[r].pc # "new", NEW j \in Jobs,
           job'[j].state = "Running", job'[j].owner = r
    PROVE  /\ job[j].state = "Running" /\ job[j].owner = r
           /\ job'[j].revision = job[j].revision
<1>0. job \in [Jobs -> Job] /\ r # None
  BY ConstantsAssumption DEF TypeInv, TypeOK
<1> DEFINE Same == /\ job'[j].state = job[j].state
                   /\ job'[j].owner = job[j].owner
                   /\ job'[j].revision = job[j].revision
<1>1. ASSUME NEW i \in Jobs,
             Submit(i) \/ Cancel(i) \/ Retry(i) \/ RetentionPasses(i)
      PROVE  Same
  <2>1. CASE Submit(i)
    BY <1>0, <2>1 DEF Submit, Job
  <2>2. CASE Cancel(i)
    <3>1. Finished("Canceled", [job[i] EXCEPT !.revision = @ + 1]).state = "Canceled"
      BY <1>0 DEF Finished, Job
    <3> QED BY <1>0, <2>2, <3>1 DEF Cancel
  <2>3. CASE Retry(i)
    BY <1>0, <2>3 DEF Retry, Job
  <2>4. CASE RetentionPasses(i)
    BY <1>0, <2>4 DEF RetentionPasses, Job
  <2> QED BY <1>1, <2>1, <2>2, <2>3, <2>4
<1>2. ASSUME NEW i \in Jobs, Claim(i) PROVE Same
  <2> DEFINE q == Fresh
  <2>1. q \in Runs /\ run[q].pc = "new"
    BY <1>2 DEF Claim, Fresh
  <2>2. job' = [job EXCEPT ![i].state = "Running", ![i].owner = q, ![i].leased = TRUE]
    BY <1>2 DEF Claim
  <2> HIDE DEF q
  <2> QED BY <1>0, <2>1, <2>2 DEF Job
<1>3. ASSUME NEW i \in Jobs, LeaseLapses(i) \/ Stall(i) PROVE Same
  BY <1>0, <1>3 DEF LeaseLapses, Stall, Job
<1>4. ASSUME NEW i \in Jobs, IgnoredDelivery(i) \/ SweepResume(i) PROVE Same
  BY <1>4 DEF IgnoredDelivery, SweepResume
<1>5. ASSUME NEW q \in Runs, Start(q) \/ StartBundle(q) PROVE Same
  <2>1. \E of : Intend(q, of)
    BY <1>5 DEF Start, StartBundle
  <2>2. job' = [job EXCEPT ![run[q].job].leased = TRUE]
    BY <2>1 DEF Intend
  <2> QED BY <1>0, <2>2 DEF Job
<1>6. ASSUME NEW q \in Runs, Finish(q) PROVE Same
  <2> DEFINE i == run[q].job
  <2>1. i \in Jobs /\ run[q].verdict # "Running"
    BY <1>6 DEF Finish, TypeInv, TypeOK, LocalsOK, Run
  <2>2. Finished(run[q].verdict, job[i]).state = run[q].verdict
    BY <1>0, <2>1 DEF Finished, Job
  <2>3. job' = [job EXCEPT ![i] = Finished(run[q].verdict, job[i])]
    BY <1>6 DEF Finish
  <2> HIDE DEF i
  <2> QED BY <1>0, <2>1, <2>2, <2>3
<1>7. ASSUME NEW q \in Runs, Release(q) PROVE Same
  <2>1. job' = job \/ job' = [job EXCEPT ![run[q].job].owner = None,
                                          ![run[q].job].leased = FALSE]
    BY <1>7 DEF Release
  <2> QED BY <1>0, <2>1 DEF Job
<1>8. ASSUME NEW q \in Runs,
             RunStep(q) \/ Crash(q) \/ Abort(q),
             ~(Start(q) \/ StartBundle(q) \/ Finish(q) \/ Release(q))
      PROVE  job' = job
  BY <1>8 DEF RunStep, Load, PickItem, PickNone, Render, Settle, SettleCommit,
              WriteZip, BundleFails, ZipReady, ZipCommit, LostOwnership, Crash, Abort
<1>9. ASSUME NEW s \in Sweeps, SweepExpire(s) \/ SweepForget(s) PROVE Same
  <2> DEFINE i == sweep[s].job
  <2>1. \/ job' = job
        \/ job'[i].owner = None /\ \A h \in Jobs : h # i => job'[h] = job[h]
    <3>1. CASE SweepExpire(s)
      <4>1. i \in Jobs => job'[i].owner = None
        BY <1>0, <3>1 DEF SweepExpire, Job
      <4>2. i \notin Jobs => job' = job
        BY <1>0, <3>1 DEF SweepExpire
      <4>3. \A h \in Jobs : h # i => job'[h] = job[h]
        BY <1>0, <3>1 DEF SweepExpire
      <4> QED BY <4>1, <4>2, <4>3
    <3>2. CASE SweepForget(s)
      <4>1. \/ job' = job
            \/ job' = [job EXCEPT ![i].state = "Gone", ![i].owner = None,
                                  ![i].leased = FALSE]
        BY <3>2 DEF SweepForget
      <4> QED BY <1>0, <4>1 DEF Job
    <3> QED BY <1>9, <3>1, <3>2
  <2> QED BY <1>0, <2>1
<1>10. ASSUME NEW s \in Sweeps,
              \/ SweepStep(s) \/ SweepFails(s) \/ \E i \in Jobs : SweepRead(s, i),
              ~(SweepExpire(s) \/ SweepForget(s))
       PROVE  job' = job
  BY <1>10 DEF SweepStep, SweepSkip, SweepCollect, SweepDelete, SweepRows,
               SweepFails, SweepRead
<1>11. ASSUME PurgeOrg PROVE Same
  <2>1. job'[j] = job[j] \/ job'[j].state = "Purging"
    BY <1>0, <1>11 DEF PurgeOrg, Job
  <2> QED BY <2>1
<1>12. ASSUME NextMonth \/ \E k \in Keys : FilePublished(k) PROVE job' = job
  BY <1>12 DEF NextMonth, FilePublished
<1>13. Same
  BY <1>1, <1>2, <1>3, <1>4, <1>5, <1>6, <1>7, <1>8, <1>9, <1>10, <1>11, <1>12
     DEF Next
<1> QED BY <1>13

(* While a run holds on, its job and the revision it read stay the same.   *)
LEMMA HoldingKeepsLocals ==
    ASSUME TypeInv, Next, NEW r \in Runs, Holding(r), Holding(r)'
    PROVE  run'[r].job = run[r].job /\ run'[r].rev = run[r].rev
<1>0. run \in [Runs -> Run] /\ run[r] \in Run
  BY DEF TypeInv, TypeOK
<1> DEFINE Same == run'[r].job = run[r].job /\ run'[r].rev = run[r].rev
<1>1. ASSUME NEW i \in Jobs, Claim(i) PROVE Same
  <2> DEFINE q == Fresh
  <2>1. q \in Runs /\ run[q].pc = "new"
    BY <1>1 DEF Claim, Fresh
  <2>2. run' = [run EXCEPT ![q].pc = "load", ![q].job = i]
    BY <1>1 DEF Claim
  <2> HIDE DEF q
  <2> QED BY <1>0, <2>1, <2>2 DEF Holding
<1>2. ASSUME NEW q \in Runs, NEW label, Goto(q, label) PROVE Same
  BY <1>0, <1>2 DEF Goto, Run
<1>3. ASSUME NEW q \in Runs, NEW label \in {"load", "release", "done"}, Leave(q, label)
      PROVE  Same
  BY <1>0, <1>3 DEF Leave, NewRun, Holding
<1>4. ASSUME NEW q \in Runs, Load(q) PROVE Same
  <2>1. \/ Leave(q, "release")
        \/ /\ run[q].pc = "load"
           /\ run' = [run EXCEPT ![q].pc = "pick",
                                 ![q].rev = job[run[q].job].revision]
    BY <1>4 DEF Load
  <2> QED BY <1>0, <1>3, <2>1 DEF Holding
<1>5. ASSUME NEW q \in Runs, PickItem(q) \/ PickNone(q) PROVE Same
  BY <1>0, <1>5 DEF PickItem, PickNone, Holding
<1>6. ASSUME NEW q \in Runs, Render(q) \/ BundleFails(q) \/ ZipCommit(q) PROVE Same
  BY <1>0, <1>6 DEF Render, BundleFails, ZipCommit, Run
<1>7. ASSUME NEW q \in Runs,
             \/ Start(q) \/ Settle(q) \/ StartBundle(q) \/ WriteZip(q) \/ ZipReady(q)
      PROVE  Same
  BY <1>2, <1>7 DEF Start, Settle, StartBundle, WriteZip, ZipReady
<1>8. ASSUME NEW q \in Runs,
             \/ SettleCommit(q) \/ Finish(q) \/ LostOwnership(q)
             \/ Release(q) \/ Crash(q) \/ Abort(q)
      PROVE  Same
  BY <1>3, <1>8 DEF SettleCommit, Finish, LostOwnership, Release, Crash, Abort
<1>9. ASSUME NEW i \in Jobs,
             \/ Submit(i) \/ Cancel(i) \/ Retry(i) \/ IgnoredDelivery(i)
             \/ SweepResume(i) \/ LeaseLapses(i) \/ Stall(i) \/ RetentionPasses(i)
      PROVE  run' = run
  BY <1>9 DEF Submit, Cancel, Retry, IgnoredDelivery, SweepResume, LeaseLapses,
              Stall, RetentionPasses
<1>10. ASSUME NEW s \in Sweeps,
              \/ SweepStep(s) \/ SweepFails(s) \/ \E i \in Jobs : SweepRead(s, i)
       PROVE  run' = run
  BY <1>10 DEF SweepStep, SweepExpire, SweepSkip, SweepCollect, SweepDelete,
               SweepRows, SweepForget, SweepFails, SweepRead
<1>11. ASSUME PurgeOrg \/ NextMonth \/ \E k \in Keys : FilePublished(k)
       PROVE  run' = run
  BY <1>11 DEF PurgeOrg, NextMonth, FilePublished
<1> QED
  BY <1>1, <1>4, <1>5, <1>6, <1>7, <1>8, <1>9, <1>10, <1>11 DEF Next, RunStep

(* Once a run has lost its job, no later check of that run succeeds: a     *)
(* stale worker can neither settle an item, nor publish a bundle, nor      *)
(* finish the job.                                                         *)
THEOREM StaleRunsStayStale == Spec => LostStaysLost
<1>1. Spec => []TypeInv
  BY InitType, TypeStep, PTL DEF Spec
<1>2. ASSUME TypeInv, [Next]_vars
      PROVE  [\A r \in Runs : Holding(r) /\ ~Owns(r) /\ Holding(r)' => ~Owns(r)']_vars
  <2> SUFFICES ASSUME Next, NEW r \in Runs, Holding(r), Holding(r)', Owns(r)'
               PROVE  Owns(r)
    BY <1>2
  <2>1. run'[r].job = run[r].job /\ run'[r].rev = run[r].rev
    BY <1>2, HoldingKeepsLocals
  <2>2. run[r].job \in Jobs /\ run[r].pc # "new"
    BY <1>2 DEF TypeInv, LocalsOK, Holding
  <2>3. job'[run[r].job].state = "Running" /\ job'[run[r].job].owner = r
    BY <2>1 DEF Owns
  <2>4. /\ job[run[r].job].state = "Running" /\ job[run[r].job].owner = r
        /\ job'[run[r].job].revision = job[run[r].job].revision
    BY <1>2, <2>2, <2>3, NoWayBack
  <2> QED BY <2>1, <2>4 DEF Owns
<1> QED BY <1>1, <1>2, PTL DEF Spec, LostStaysLost
=============================================================================
