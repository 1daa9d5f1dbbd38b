------------------------ MODULE OrgLifecycleProofs ------------------------
(***************************************************************************)
(* Proofs about the life of an organization, for any number of             *)
(* overlapping writers, modules and writes: the types, that offboarding    *)
(* is deliberate, and that the directory catches up with the row.  The     *)
(* argument for the second is the concurrency token: a writer whose token  *)
(* is still current has read the row as it is now, so what it checked then *)
(* still holds.  The argument for the third is that every write is either  *)
(* in the directory or in flight, and that the wrap-around comparison      *)
(* orders the ids of writes that are less than half a modulus apart.       *)
(***************************************************************************)
EXTENDS OrgLifecycle, TLAPS

\* Nothing happens to a row that has not been created.
Born == org.status = "none" => org.writes = 0 /\ \A w \in Writers : tx[w] = Idle

\* What a writer has read is not newer than the row.
SeenIsPast == \A w \in Writers : tx[w].seen <= org.writes

\* What the two ways to offboard have checked holds while the token does.
TokenGuards ==
    \A w \in Writers :
        Current(w) => /\ tx[w].op = "offboard" => org.status = "Suspended"
                      /\ tx[w].op = "sweep" => org.closing = "due"

Safe == OrgTypeOK /\ Born /\ SeenIsPast /\ TokenGuards

-----------------------------------------------------------------------------
(* A transaction id is an id and is not reserved. *)
LEMMA XminIsId ==
    ASSUME NEW n \in Nat
    PROVE  Xmin(n) \in 0 .. Modulus - 1
<1> DEFINE d == Modulus - FirstXid
           r == (FirstWrite + n) % d
<1>1. d \in Nat /\ d > 0 /\ FirstWrite + n \in Int /\ FirstXid \in Nat /\ Modulus \in Nat
  BY OrgLifecycleAssumption
<1>2. r \in 0 .. d - 1
  <2> HIDE DEF d
  <2>1. \A a \in Int, b \in Nat : b > 0 => a % b \in 0 .. b - 1
    OBVIOUS
  <2> QED BY <1>1, <2>1
<1>3. Xmin(n) = FirstXid + r
  BY DEF Xmin
<1> QED
  <2> HIDE DEF r
  <2> QED BY <1>1, <1>2, <1>3

(* A writer that is not idle carries one of the operations. *)
LEMMA TxShape ==
    ASSUME OrgTypeOK, NEW w \in Writers
    PROVE  /\ tx[w].op \in Ops \union {"idle"} /\ tx[w].seen \in Nat
           /\ tx[w].op \in Ops => tx[w] # Idle
           /\ tx[w].op = "idle" => tx[w] = Idle
BY DEF OrgTypeOK, Transactions, Idle, Ops

-----------------------------------------------------------------------------
(* Every step keeps the types.                                             *)

\* What an event of the row looks like on the wire.
LEMMA UpsertedIsMessage ==
    ASSUME NEW row, row.writes \in Nat, row.status \in OrgStatuses
    PROVE  Upserted(row) \in Messages
<1>1. Xmin(row.writes) \in 0 .. Modulus - 1
  BY XminIsId
<1> QED BY <1>1 DEF Upserted, Messages

(* What an offboarding fans out is a message.                               *)
LEMMA FanOutIsMessages == FanOut \subseteq Messages
BY DEF FanOut, Messages

(* None of it is an upsert of the directory.                                *)
LEMMA FanOutIsQuiet == \A m \in FanOut : m.type # "upserted"
BY DEF FanOut, Purge, Deleted

\* Saving a row of the right type under a current token.
LEMMA SaveTypes ==
    ASSUME OrgTypeOK, NEW w \in Writers, NEW op, NEW row \in OrgRow,
           NEW publishes \in SUBSET Messages, Save(w, op, row, publishes)
    PROVE  OrgTypeOK'
<1>1. Idle \in Transactions
  BY DEF Transactions
<1> QED BY <1>1 DEF OrgTypeOK, Save

(* A handler that reads the row begins a well-typed transaction.            *)
LEMMA ReadTypes ==
    ASSUME OrgTypeOK, NEW w \in Writers, NEW op \in Ops, NEW goes, ReadRow(w, op, goes)
    PROVE  OrgTypeOK'
<1>1. org.writes \in Nat
  BY DEF OrgTypeOK, OrgRow
<1> DEFINE step == [op |-> op, seen |-> org.writes]
<1>2. step \in Transactions
  BY <1>1 DEF Transactions
<1> HIDE DEF step
<1>3. tx' = [tx EXCEPT ![w] = step]
  BY DEF ReadRow, step
<1> QED BY <1>2, <1>3 DEF OrgTypeOK, ReadRow

\* The rows the handlers save.
LEMMA SavedRows ==
    ASSUME OrgTypeOK
    PROVE  /\ \A s \in OrgStatuses : WithStatus(s) \in OrgRow /\ WithStatus(s).writes \in Nat
                                  /\ WithStatus(s).status = s /\ WithStatus(s).closing = org.closing
                                  /\ WithStatus(s).writes = org.writes + 1
           /\ \A c \in Closings : WithClosing(c) \in OrgRow
                                  /\ WithClosing(c).status = org.status
                                  /\ WithClosing(c).writes = org.writes + 1
<1>1. org \in OrgRow
  BY DEF OrgTypeOK
<1>2. org.writes \in Nat
  BY <1>1 DEF OrgRow
<1> DEFINE next == org.writes + 1
<1>3. next \in Nat
  BY <1>2
<1>4. /\ \A s : WithStatus(s) = [org EXCEPT !.status = s, !.writes = next]
      /\ \A c : WithClosing(c) = [org EXCEPT !.closing = c, !.writes = next]
  BY DEF WithStatus, WithClosing
<1> HIDE DEF next
<1>5. ASSUME NEW s \in OrgStatuses
      PROVE  /\ WithStatus(s) \in OrgRow /\ WithStatus(s).status = s
             /\ WithStatus(s).closing = org.closing /\ WithStatus(s).writes = next
  BY <1>1, <1>3, <1>4 DEF OrgRow
<1>6. ASSUME NEW c \in Closings
      PROVE  /\ WithClosing(c) \in OrgRow /\ WithClosing(c).status = org.status
             /\ WithClosing(c).writes = next
  BY <1>1, <1>3, <1>4 DEF OrgRow
<1> QED BY <1>3, <1>5, <1>6 DEF next

(* A save announces the row it wrote, or says nothing because the status   *)
(* stays or an operator offboards.                                         *)
Announced(row, publishes) ==
    /\ Upserted(row) \in publishes
    /\ \A m \in publishes : m.type = "upserted" => m = Upserted(row)

Silent(op, row, publishes) ==
    /\ \A m \in publishes : m.type # "upserted"
    /\ row.status = org.status \/ (op = "offboard" /\ row.status = "Offboarding")

(* What a writer's step is: it reads, it gives up, or it saves a row one   *)
(* write further whose status is explained by what the writer was doing.   *)
Saves(w) ==
    \E op \in Ops, row \in OrgRow, publishes \in SUBSET Messages :
        /\ Save(w, op, row, publishes)
        /\ row.writes = org.writes + 1
        /\ row.status \in OrgStatuses
        /\ row.status = "Offboarding" /\ org.status # "Offboarding"
               => op \in {"offboard", "sweep"}
        /\ op = "sweep" => row.status = "Offboarding"
        /\ Announced(row, publishes) \/ Silent(op, row, publishes)

Reads(w) ==
    \E op \in Ops : ReadRow(w, op, /\ op = "offboard" => org.status = "Suspended"
                                   /\ op = "sweep" => org.closing = "due" /\ org.status # "Offboarding"
                                   /\ op # "sweep" => MayWrite)

(* A writer's step reads the row, saves it, or meets a conflict.            *)
LEMMA WriterSteps ==
    ASSUME OrgTypeOK, Born, NEW w \in Writers, Writer(w)
    PROVE  Reads(w) \/ Saves(w) \/ Conflict(w)
<1>1. ASSUME NEW op \in Ops, NEW row, NEW publishes, Save(w, op, row, publishes)
      PROVE  org.status \in OrgStatuses
  BY <1>1, TxShape DEF Save, Born, OrgTypeOK, OrgRow
<1>2. \A s \in OrgStatuses : Upserted(WithStatus(s)) \in Messages
  BY SavedRows, UpsertedIsMessage
<1>3. ASSUME NEW op \in {"suspend", "reactivate"}, NEW s \in {"Suspended", "Active"},
             Transition(w, op, s)
      PROVE  Reads(w) \/ Saves(w)
  <2>1. s \in OrgStatuses /\ op \in Ops /\ s # "Offboarding"
    BY DEF OrgStatuses, Ops
  <2>2. CASE ReadRow(w, op, MayWrite /\ org.status # s)
    BY <2>1, <2>2 DEF Reads, ReadRow
  <2>3. CASE Save(w, op, WithStatus(s), {Upserted(WithStatus(s))})
    BY <2>1, <2>3, <1>2, SavedRows DEF Saves, Announced, Ops
  <2> QED BY <1>3, <2>2, <2>3 DEF Transition
<1>4. CASE Rename(w)
  <2>1. CASE ReadRow(w, "rename", MayWrite /\ Admits)
    BY <2>1 DEF Reads, ReadRow, Ops
  <2>2. CASE Save(w, "rename", WithStatus(org.status), {Upserted(WithStatus(org.status))})
    <3>1. "rename" \in Ops BY DEF Ops
    <3>2. org.status \in OrgStatuses BY <1>1, <2>2, <3>1
    <3> QED BY <2>2, <3>1, <3>2, <1>2, SavedRows DEF Saves, Announced
  <2> QED BY <1>4, <2>1, <2>2 DEF Rename
<1>5. CASE RequestClosure(w)
  <2>1. CASE ReadRow(w, "close", MayWrite /\ Admits /\ org.closing = "no")
    BY <2>1 DEF Reads, ReadRow, Ops
  <2>2. CASE Save(w, "close", WithClosing("grace"), {})
    <3>1. "close" \in Ops /\ "grace" \in Closings BY DEF Ops, Closings
    <3>2. org.status \in OrgStatuses BY <1>1, <2>2, <3>1
    <3> QED BY <2>2, <3>1, <3>2, SavedRows DEF Saves, Silent
  <2> QED BY <1>5, <2>1, <2>2 DEF RequestClosure
<1>6. CASE CancelClosure(w)
  <2>1. CASE ReadRow(w, "cancel", MayWrite /\ Admits /\ org.closing # "no")
    BY <2>1 DEF Reads, ReadRow, Ops
  <2>2. CASE Save(w, "cancel", WithClosing("no"), {})
    <3>1. "cancel" \in Ops /\ "no" \in Closings BY DEF Ops, Closings
    <3>2. org.status \in OrgStatuses BY <1>1, <2>2, <3>1
    <3> QED BY <2>2, <3>1, <3>2, SavedRows DEF Saves, Silent
  <2> QED BY <1>6, <2>1, <2>2 DEF CancelClosure
<1>7. CASE ProcessOrgClosure(w)
  <2> DEFINE sends == {Upserted(WithStatus("Offboarding"))} \union FanOut
  <2>1. CASE ReadRow(w, "sweep", org.closing = "due" /\ org.status # "Offboarding")
    BY <2>1 DEF Reads, ReadRow, Ops
  <2>2. CASE Save(w, "sweep", WithStatus("Offboarding"), sends)
    <3>1. "sweep" \in Ops /\ "Offboarding" \in OrgStatuses BY DEF Ops, OrgStatuses
    <3>2. sends \in SUBSET Messages BY <1>2, <3>1, FanOutIsMessages
    <3>3. Announced(WithStatus("Offboarding"), sends) BY FanOutIsQuiet DEF Announced
    <3> HIDE DEF sends
    <3> QED BY <2>2, <3>1, <3>2, <3>3, SavedRows DEF Saves
  <2> QED BY <1>7, <2>1, <2>2 DEF ProcessOrgClosure
<1>8. CASE Offboard(w)
  <2>1. CASE ReadRow(w, "offboard", MayWrite /\ org.status = "Suspended")
    BY <2>1 DEF Reads, ReadRow, Ops
  <2>2. CASE Save(w, "offboard", WithStatus("Offboarding"), FanOut)
    <3>1. "offboard" \in Ops /\ "Offboarding" \in OrgStatuses BY DEF Ops, OrgStatuses
    <3> QED BY <2>2, <3>1, FanOutIsMessages, FanOutIsQuiet, SavedRows DEF Saves, Silent
  <2> QED BY <1>8, <2>1, <2>2 DEF Offboard
<1> QED BY <1>3, <1>4, <1>5, <1>6, <1>7, <1>8 DEF Writer

(* A message changes neither the row nor the transactions, and leaves      *)
(* everything else well typed.                                             *)
LEMMA MessageSteps ==
    ASSUME OrgTypeOK, NEW m \in inbox, DeliverMessage(m) \/ RedeliverMessage(m)
    PROVE  OrgTypeOK' /\ UNCHANGED <<org, tx>>
<1>1. inbox' \subseteq Messages /\ UNCHANGED <<org, tx>> /\ m \in Messages
  BY DEF OrgTypeOK, DeliverMessage, RedeliverMessage
<1>2. Handle(m)
  BY DEF DeliverMessage, RedeliverMessage
<1>3. NoEntry \in [status : OrgStatuses \union {"absent"}, version : 0 .. Modulus - 1]
  BY OrgLifecycleAssumption DEF NoEntry
<1>4. CASE HandleUpserted(m)
  <2>1. m \in [type : {"upserted"}, version : 0 .. Modulus - 1, status : OrgStatuses]
    BY <1>1, <1>4 DEF HandleUpserted, Messages, Purge, Deleted, Founder, Hierarchy
  <2>2. [status |-> m.status, version |-> m.version]
            \in [status : OrgStatuses \union {"absent"}, version : 0 .. Modulus - 1]
    BY <2>1
  <2> QED BY <1>1, <1>4, <2>2 DEF HandleUpserted, OrgTypeOK
<1>5. CASE HandleDeleted(m)
  BY <1>1, <1>3, <1>5 DEF HandleDeleted, OrgTypeOK
<1>6. CASE HandleFounder(m)
  BY <1>1, <1>6 DEF HandleFounder, OrgTypeOK
<1>7. CASE HandleHierarchy(m)
  BY <1>1, <1>7 DEF HandleHierarchy, OrgTypeOK
<1>8. CASE HandlePurge(m)
  BY <1>1, <1>8 DEF HandlePurge, OrgTypeOK
<1> QED BY <1>2, <1>4, <1>5, <1>6, <1>7, <1>8 DEF Handle

-----------------------------------------------------------------------------
(* The inductive invariant. *)
LEMMA InitSafe == OrgInit => Safe
<1> SUFFICES ASSUME OrgInit PROVE Safe
  OBVIOUS
<1>1. OrgTypeOK
  <2>1. org \in OrgRow
    BY DEF OrgInit, OrgRow, Closings
  <2>2. tx \in [Writers -> Transactions]
    BY DEF OrgInit, Transactions
  <2>3. directory \in [status : OrgStatuses \union {"absent"}, version : 0 .. Modulus - 1]
    <3>1. 0 \in 0 .. Modulus - 1
      BY OrgLifecycleAssumption
    <3> QED BY <3>1 DEF OrgInit, NoEntry
  <2>4. owner \in BOOLEAN /\ inbox \subseteq Messages /\ data \in [Modules -> BOOLEAN]
    BY DEF OrgInit
  <2>5. provider \in {"none", "live", "deleted"}
    BY DEF OrgInit
  <2> QED BY <2>1, <2>2, <2>3, <2>4, <2>5 DEF OrgTypeOK
<1>2. Born /\ SeenIsPast /\ TokenGuards
  BY DEF OrgInit, Born, SeenIsPast, TokenGuards, Current, Idle
<1> QED BY <1>1, <1>2 DEF Safe

(* Every step keeps the safe states safe.                                   *)
LEMMA NextSafe == Safe /\ [OrgNext]_orgVars => Safe'
<1> SUFFICES ASSUME Safe, [OrgNext]_orgVars PROVE Safe'
  OBVIOUS
<1>0. OrgTypeOK /\ Born /\ SeenIsPast /\ TokenGuards /\ org.writes \in Nat
  BY DEF Safe, OrgTypeOK, OrgRow
<1>1. CASE CreateOrg
  <2>1. org' = [org EXCEPT !.status = "Active", !.writes = 1] /\ tx' = tx /\ org.status = "none"
    BY <1>1 DEF CreateOrg
  <2>2. org' \in OrgRow /\ org'.status = "Active" /\ org'.writes = 1
    BY <1>0, <2>1 DEF OrgTypeOK, OrgRow, OrgStatuses
  <2>3. Upserted(org') \in Messages
    BY <2>2, UpsertedIsMessage DEF OrgStatuses
  <2>4. OrgTypeOK'
    BY <1>0, <1>1, <2>2, <2>3 DEF CreateOrg, OrgTypeOK, Messages
  <2>5. \A w \in Writers : tx[w] = Idle
    BY <1>0, <2>1 DEF Born
  <2>6. Born' /\ SeenIsPast' /\ TokenGuards'
    BY <2>1, <2>2, <2>5 DEF Born, SeenIsPast, TokenGuards, Current, Idle
  <2> QED BY <2>4, <2>6 DEF Safe
<1>2. CASE GraceLapses
  <2>1. org' = [org EXCEPT !.closing = "due"] /\ UNCHANGED <<tx, inbox, directory, owner, provider, data>>
    BY <1>2 DEF GraceLapses
  <2>2. /\ org' \in OrgRow /\ org'.status = org.status /\ org'.writes = org.writes
        /\ org'.closing = "due"
    BY <1>0, <2>1 DEF OrgTypeOK, OrgRow, Closings
  <2>3. OrgTypeOK'
    BY <1>0, <2>1, <2>2 DEF OrgTypeOK
  <2>4. Born' /\ SeenIsPast' /\ TokenGuards'
    BY <1>0, <2>1, <2>2 DEF Born, SeenIsPast, TokenGuards, Current
  <2> QED BY <2>3, <2>4 DEF Safe
<1>3. ASSUME NEW w \in Writers, Writer(w) PROVE Safe'
  <2>1. CASE Reads(w)
    <3>1. PICK op \in Ops : ReadRow(w, op, /\ op = "offboard" => org.status = "Suspended"
                                           /\ op = "sweep" => org.closing = "due" /\ org.status # "Offboarding"
                                           /\ op # "sweep" => MayWrite)
      BY <2>1 DEF Reads
    <3>2. OrgTypeOK'
      BY <1>0, <3>1, ReadTypes
    <3> DEFINE step == [op |-> op, seen |-> org.writes]
    <3>3. /\ tx' = [tx EXCEPT ![w] = step] /\ org' = org /\ org.status # "none"
          /\ op = "offboard" => org.status = "Suspended"
          /\ op = "sweep" => org.closing = "due"
      BY <3>1 DEF ReadRow
    <3>4. step.op = op /\ step.seen = org.writes
      OBVIOUS
    <3> HIDE DEF step
    <3>5. \A v \in Writers : tx'[v] = IF v = w THEN step ELSE tx[v]
      BY <1>0, <3>3 DEF OrgTypeOK
    <3>6. Born'
      BY <3>3 DEF Born
    <3>7. SeenIsPast'
      BY <1>0, <3>3, <3>4, <3>5 DEF SeenIsPast
    <3>8. TokenGuards'
      BY <1>0, <3>3, <3>4, <3>5 DEF TokenGuards, Current
    <3> QED BY <3>2, <3>6, <3>7, <3>8 DEF Safe
  <2>2. CASE Saves(w)
    <3>1. PICK op \in Ops, row \in OrgRow, publishes \in SUBSET Messages :
               /\ Save(w, op, row, publishes)
               /\ row.writes = org.writes + 1 /\ row.status \in OrgStatuses
      BY <2>2 DEF Saves
    <3>2. OrgTypeOK'
      BY <1>0, <3>1, SaveTypes
    <3>3. org' = row /\ tx' = [tx EXCEPT ![w] = Idle]
      BY <3>1 DEF Save
    <3>4. \A v \in Writers : tx'[v] = IF v = w THEN Idle ELSE tx[v]
      BY <1>0, <3>3 DEF OrgTypeOK
    <3>5. org'.status # "none" /\ org'.writes = org.writes + 1
      BY <3>1, <3>3 DEF OrgStatuses
    <3>6. \A v \in Writers : tx[v].seen \in Nat /\ tx[v].seen <= org.writes
      BY <1>0, TxShape DEF SeenIsPast
    <3>7. \A v \in Writers : tx'[v].seen < org'.writes
      BY <1>0, <3>4, <3>5, <3>6 DEF Idle
    <3>8. \A v \in Writers : tx'[v].seen \in Nat
      BY <3>4, <3>6 DEF Idle
    <3>9. Born' /\ SeenIsPast' /\ TokenGuards'
      BY <1>0, <3>5, <3>7, <3>8 DEF Born, SeenIsPast, TokenGuards, Current
    <3> QED BY <3>2, <3>9 DEF Safe
  <2>3. CASE Conflict(w)
    <3>1. Idle \in Transactions
      BY DEF Transactions
    <3>2. OrgTypeOK' /\ org' = org /\ tx' = [tx EXCEPT ![w] = Idle]
      BY <1>0, <2>3, <3>1 DEF Conflict, OrgTypeOK
    <3>3. \A v \in Writers : tx'[v] = IF v = w THEN Idle ELSE tx[v]
      BY <1>0, <3>2 DEF OrgTypeOK
    <3>4. Born' /\ SeenIsPast' /\ TokenGuards'
      BY <1>0, <3>2, <3>3 DEF Born, SeenIsPast, TokenGuards, Current, Idle
    <3> QED BY <3>2, <3>4 DEF Safe
  <2> QED BY <1>0, <1>3, <2>1, <2>2, <2>3, WriterSteps
<1>4. ASSUME NEW m \in Modules, WriteRows(m) PROVE Safe'
  <2>1. OrgTypeOK' /\ UNCHANGED <<org, tx>>
    BY <1>0, <1>4 DEF WriteRows, OrgTypeOK
  <2> QED BY <1>0, <2>1 DEF Safe, Born, SeenIsPast, TokenGuards, Current
<1>5. ASSUME NEW m \in inbox, DeliverMessage(m) \/ RedeliverMessage(m) PROVE Safe'
  <2>1. OrgTypeOK' /\ UNCHANGED <<org, tx>>
    BY <1>0, <1>5, MessageSteps
  <2> QED BY <1>0, <2>1 DEF Safe, Born, SeenIsPast, TokenGuards, Current
<1>6. CASE UNCHANGED orgVars
  BY <1>0, <1>6 DEF Safe, OrgTypeOK, Born, SeenIsPast, TokenGuards, Current, orgVars
<1> QED BY <1>1, <1>2, <1>3, <1>4, <1>5, <1>6 DEF OrgNext

(* Every state of every behaviour is safe.                                  *)
LEMMA AlwaysSafe == OrgSpec => []Safe
BY InitSafe, NextSafe, PTL DEF OrgSpec

-----------------------------------------------------------------------------
(* The row, the transactions, the messages, the directory entry and the    *)
(* modules' rows keep their types, for every number of writers.            *)
THEOREM TypeCorrect == OrgSpec => []OrgTypeOK
<1>1. Safe => OrgTypeOK
  BY DEF Safe
<1> QED BY <1>1, AlwaysSafe, PTL

(* However many managers, operators and sweeps overlap, an organization is *)
(* only offboarded when it is suspended, or past the grace window of a     *)
(* closure that is still requested at that very moment.                    *)
THEOREM OffboardingIsDeliberate == OrgSpec => OffboardIsDeliberate
<1> DEFINE Step == org'.status = "Offboarding" /\ org.status # "Offboarding"
                      => org.status = "Suspended" \/ org.closing = "due"
<1>1. Safe /\ [OrgNext]_orgVars => [Step]_orgVars
  <2> SUFFICES ASSUME Safe, OrgNext, org'.status = "Offboarding", org.status # "Offboarding"
               PROVE  org.status = "Suspended" \/ org.closing = "due"
    OBVIOUS
  <2>0. OrgTypeOK /\ Born /\ SeenIsPast /\ TokenGuards
    BY DEF Safe
  <2>1. CASE CreateOrg
    BY <2>0, <2>1 DEF CreateOrg, OrgTypeOK, OrgRow
  <2>2. CASE GraceLapses
    BY <2>0, <2>2 DEF GraceLapses, OrgTypeOK, OrgRow
  <2>3. ASSUME NEW w \in Writers, Writer(w)
        PROVE  org.status = "Suspended" \/ org.closing = "due"
    <3>1. CASE Reads(w)
      BY <3>1 DEF Reads, ReadRow
    <3>2. CASE Saves(w)
      <4>1. PICK op \in Ops, row \in OrgRow, publishes \in SUBSET Messages :
                 /\ Save(w, op, row, publishes)
                 /\ row.status = "Offboarding" /\ org.status # "Offboarding"
                        => op \in {"offboard", "sweep"}
        BY <3>2 DEF Saves
      <4>2. tx[w].op = op /\ Current(w) /\ org' = row
        BY <4>1 DEF Save
      <4> QED BY <2>0, <4>1, <4>2 DEF TokenGuards
    <3>3. CASE Conflict(w)
      BY <3>3 DEF Conflict
    <3> QED BY <2>0, <2>3, <3>1, <3>2, <3>3, WriterSteps
  <2>4. ASSUME NEW m \in Modules, WriteRows(m) PROVE FALSE
    BY <2>4 DEF WriteRows
  <2>5. ASSUME NEW m \in inbox, DeliverMessage(m) \/ RedeliverMessage(m) PROVE FALSE
    BY <2>0, <2>5, MessageSteps
  <2> QED BY <2>1, <2>2, <2>3, <2>4, <2>5 DEF OrgNext
<1> QED BY <1>1, AlwaysSafe, PTL DEF OrgSpec, OffboardIsDeliberate
-----------------------------------------------------------------------------
(* Versions.  Ids wrap around and skip the reserved ones, and still        *)
(* compare in the order of the writes they belong to, as long as those     *)
(* span less than half of the ids.                                         *)

(* Quotient and remainder by a positive number.                             *)
LEMMA DivMod ==
    ASSUME NEW a \in Int, NEW d \in Nat \ {0}
    PROVE  a = d * (a \div d) + (a % d) /\ a % d \in 0 .. d - 1 /\ a \div d \in Int
OBVIOUS

\* A remainder is the only one.
LEMMA ModIs ==
    ASSUME NEW d \in Nat \ {0}, NEW a \in Int, NEW q \in Int, NEW r \in 0 .. d - 1, a = d * q + r
    PROVE  a % d = r
<1> DEFINE q2 == a \div d
           r2 == a % d
<1>1. q2 \in Int /\ r2 \in 0 .. d - 1 /\ d * q + r = d * q2 + r2
  BY DivMod
<1> HIDE DEF q2, r2
<1>2. d * (q - q2) = r2 - r /\ d * (q2 - q) = r - r2
  BY <1>1
<1>3. \A x \in Nat : x >= 1 => d * x >= d
  OBVIOUS
<1>4. CASE q > q2
  BY <1>1, <1>2, <1>3, <1>4
<1>5. CASE q2 > q
  BY <1>1, <1>2, <1>3, <1>5
<1>6. r = r2
  BY <1>1, <1>2, <1>4, <1>5
<1> QED BY <1>6 DEF r2

\* Counting on by less than a full turn wraps at most once.
LEMMA ModAdd ==
    ASSUME NEW d \in Nat \ {0}, NEW a \in Int, NEW k \in 0 .. d - 1
    PROVE  (a + k) % d = IF (a % d) + k < d THEN (a % d) + k ELSE (a % d) + k - d
<1> DEFINE q == a \div d
           r == a % d
           b == a + k
<1>1. a = d * q + r /\ r \in 0 .. d - 1 /\ q \in Int /\ b \in Int
  BY DivMod
<1> HIDE DEF q, r
<1>2. CASE r + k < d
  <2>1. r + k \in 0 .. d - 1 /\ b = d * q + (r + k)
    BY <1>1, <1>2
  <2>2. b % d = r + k
    BY <2>1, <1>1, ModIs
  <2> QED BY <2>2, <1>2 DEF r
<1>3. CASE ~(r + k < d)
  <2> DEFINE q1 == q + 1
             r1 == r + k - d
  <2>1. d * q1 = d * q + d
    BY <1>1
  <2>2. q1 \in Int /\ r1 \in 0 .. d - 1 /\ b = d * q1 + r1
    BY <1>1, <1>3, <2>1
  <2> HIDE DEF q1, r1, b
  <2>3. b % d = r1
    BY <1>1, <2>2, ModIs
  <2> QED BY <2>3, <1>3 DEF r, r1, b
<1> QED BY <1>2, <1>3

\* The difference of the ids of two writes of the row.
LEMMA XminDiffers ==
    ASSUME NEW n \in 1 .. MaxWrites + 1, NEW k \in 0 .. MaxWrites
    PROVE  Xmin(n + k) - Xmin(n) \in {k, k - (Modulus - FirstXid)}
<1> DEFINE d == Modulus - FirstXid
           a == FirstWrite + n
<1>1. d \in Nat \ {0} /\ a \in Int /\ k \in 0 .. d - 1
  BY OrgLifecycleAssumption
<1>2. (a + k) % d \in {(a % d) + k, (a % d) + k - d} /\ a % d \in Int
  <2> HIDE DEF d, a
  <2>1. a % d \in 0 .. d - 1
    BY <1>1, DivMod
  <2>2. (a + k) % d = IF (a % d) + k < d THEN (a % d) + k ELSE (a % d) + k - d
    BY <1>1, ModAdd
  <2> DEFINE r == a % d
             t == (a + k) % d
  <2>3. r \in Int /\ t = IF r + k < d THEN r + k ELSE r + k - d
    BY <2>1, <2>2
  <2> HIDE DEF r, t
  <2>4. t \in {r + k, r + k - d}
    BY <2>3
  <2> QED BY <2>3, <2>4 DEF r, t
<1>3. Xmin(n + k) = FirstXid + ((a + k) % d) /\ Xmin(n) = FirstXid + (a % d)
  <2>1. FirstWrite + (n + k) = a + k
    BY OrgLifecycleAssumption
  <2> QED BY <2>1 DEF Xmin
<1> HIDE DEF a
<1> QED BY <1>1, <1>2, <1>3, OrgLifecycleAssumption

(* Transaction ids order the writes, also across the wrap of the counter.   *)
LEMMA IdsAreOrdered ==
    ASSUME NEW n \in 1 .. MaxWrites + 1, NEW d \in 1 .. MaxWrites + 1
    PROVE  /\ Xmin(n) # 0
           /\ IsNewer(Xmin(n), 0)
           /\ IsNewer(Xmin(n), Xmin(d)) <=> n > d
<1>1. /\ Modulus \in Nat \ {0} /\ FirstXid \in Nat \ {0} /\ MaxWrites \in Nat \ {0}
      /\ MaxWrites + FirstXid <= (Modulus \div 2) - 1 /\ 2 * (MaxWrites + FirstXid) < Modulus
      /\ Modulus \div 2 \in Int /\ 2 * (Modulus \div 2) <= Modulus
  <2>1. Modulus = 2 * (Modulus \div 2) + (Modulus % 2) /\ Modulus % 2 \in 0 .. 1 /\ Modulus \div 2 \in Int
    BY DivMod, OrgLifecycleAssumption
  <2> QED BY <2>1, OrgLifecycleAssumption
<1>2. \A i \in 1 .. MaxWrites + 1 : Xmin(i) \in Nat \ {0}
  <2> SUFFICES ASSUME NEW i \in 1 .. MaxWrites + 1 PROVE Xmin(i) \in Nat \ {0}
    OBVIOUS
  <2> DEFINE e == Modulus - FirstXid
             b == FirstWrite + i
  <2>1. e \in Nat \ {0} /\ b \in Int
    BY OrgLifecycleAssumption
  <2>2. b % e \in 0 .. e - 1
    <3> HIDE DEF e, b
    <3> QED BY <2>1, DivMod
  <2>3. Xmin(i) = FirstXid + (b % e)
    BY DEF Xmin
  <2> HIDE DEF b
  <2> QED BY <2>2, <2>3, <1>1
<1>3. \A x \in Int : /\ x \in 0 .. Modulus - 1 => x % Modulus = x
                     /\ x \in (0 - Modulus) .. (0 - 1) => x % Modulus = x + Modulus
  <2>1. ASSUME NEW x \in 0 .. Modulus - 1 PROVE x % Modulus = x
    <3>1. x = Modulus * 0 + x /\ x \in Int
      BY <1>1
    <3> QED BY <1>1, <3>1, ModIs
  <2>2. ASSUME NEW x \in (0 - Modulus) .. (0 - 1) PROVE x % Modulus = x + Modulus
    <3> DEFINE y == x + Modulus
               m == 0 - 1
    <3>1. x = Modulus * m + y /\ x \in Int /\ y \in 0 .. Modulus - 1 /\ m \in Int
      BY <1>1
    <3> HIDE DEF y, m
    <3>2. x % Modulus = y
      BY <1>1, <3>1, ModIs
    <3> QED BY <3>2 DEF y
  <2> QED BY <2>1, <2>2
<1>4. CASE n > d
  <2> DEFINE k == n - d
             x == Xmin(n) - Xmin(d)
  <2>1. k \in 1 .. MaxWrites /\ d + k = n
    BY <1>1, <1>4
  <2>2. x \in {k, k - (Modulus - FirstXid)}
    BY <2>1, XminDiffers
  <2>3. x \in Int /\ x % Modulus \in {k, k + FirstXid}
    <3> HIDE DEF k, x
    <3>1. CASE x = k
      BY <1>1, <1>3, <2>1, <3>1
    <3>2. CASE x = k - (Modulus - FirstXid)
      <4>1. x \in (0 - Modulus) .. (0 - 1) /\ x + Modulus = k + FirstXid
        BY <1>1, <2>1, <3>2
      <4> QED BY <1>3, <4>1
    <3> QED BY <2>2, <3>1, <3>2
  <2>4. x % Modulus \in 1 .. (Modulus \div 2) - 1
    <3> HIDE DEF k, x
    <3> QED BY <1>1, <2>1, <2>3
  <2> QED BY <1>2, <1>4, <2>4 DEF IsNewer
<1>5. CASE n < d
  <2> DEFINE k == d - n
             x == Xmin(n) - Xmin(d)
  <2>1. k \in 1 .. MaxWrites /\ n + k = d
    BY <1>1, <1>5
  <2>2. Xmin(d) - Xmin(n) \in {k, k - (Modulus - FirstXid)}
    BY <2>1, XminDiffers
  <2>3. x \in {0 - k, (Modulus - FirstXid) - k}
    <3> HIDE DEF k
    <3> QED BY <1>1, <1>2, <2>1, <2>2
  <2>4. x % Modulus \in {Modulus - k, (Modulus - FirstXid) - k}
    <3> HIDE DEF k, x
    <3>1. CASE x = 0 - k
      <4>1. x \in (0 - Modulus) .. (0 - 1) /\ x + Modulus = Modulus - k
        BY <1>1, <2>1, <3>1
      <4> QED BY <1>3, <4>1
    <3>2. CASE x = (Modulus - FirstXid) - k
      <4>1. x \in 0 .. Modulus - 1
        BY <1>1, <2>1, <3>2
      <4> QED BY <1>3, <3>2, <4>1
    <3> QED BY <2>3, <3>1, <3>2
  <2>5. ~(x % Modulus \in 1 .. (Modulus \div 2) - 1)
    <3> HIDE DEF k, x
    <3> QED BY <1>1, <2>1, <2>4
  <2> QED BY <1>2, <1>5, <2>5 DEF IsNewer
<1>6. CASE n = d
  <2>1. Xmin(n) - Xmin(d) = 0 /\ 0 % Modulus = 0
    BY <1>1, <1>2, <1>3, <1>6
  <2> QED BY <1>2, <1>6, <2>1 DEF IsNewer
<1>7. IsNewer(Xmin(n), 0)
  BY <1>2 DEF IsNewer
<1> QED BY <1>2, <1>4, <1>5, <1>6, <1>7
-----------------------------------------------------------------------------
(* The directory. *)

\* A transaction with a current token may still write, and the sweep writes
\* no row that is Offboarding already: the writes stay within the bound.
WithinBound ==
    /\ org.writes <= MaxWrites + 1
    /\ org.writes = MaxWrites + 1 => org.status = "Offboarding"
    /\ \A w \in Writers :
           Current(w) /\ tx[w] # Idle
               => IF tx[w].op = "sweep" THEN org.status # "Offboarding" ELSE org.writes < MaxWrites

\* Version v with status s is news of a write up to the last one announced;
\* the news of that one is `told`.
NewsOf(v, s, last, told) == \E n \in 1 .. last : v = Xmin(n) /\ (n = last => s = told)

\* The last announcement is on its way or has arrived, and nothing that is on
\* its way or has arrived is newer.
ToldUpTo(last, told) ==
    /\ told = org.status \/ (org.status = "Offboarding" /\ told = "Suspended")
    /\ \A m \in inbox : m.type = "upserted" => NewsOf(m.version, m.status, last, told)
    /\ directory = NoEntry \/ NewsOf(directory.version, directory.status, last, told)
    /\ \/ \E m \in inbox : m.type = "upserted" /\ m.version = Xmin(last) /\ m.status = told
       \/ directory.version = Xmin(last) /\ directory.status = told

Told == \E last \in 1 .. org.writes, told \in OrgStatuses : ToldUpTo(last, told)

\* Before the creation nobody has been told anything, and after the deletion
\* nothing is promised.
DirectoryInv ==
    /\ WithinBound
    /\ org.status = "none" => inbox = {} /\ directory = NoEntry /\ provider = "none"
    /\ org.status # "none" /\ provider = "live" => Told
(* An announcement that is handled leaves the newer of two versions, and   *)
(* leaves none the newer: what was told last is still on its way or is     *)
(* what the directory says.                                                *)
LEMMA NewsKeepsTold ==
    ASSUME OrgTypeOK, WithinBound, NEW m \in inbox, HandleUpserted(m),
           inbox' = inbox \ {m} \/ inbox' = inbox, org' = org, Told
    PROVE  Told'
<1>1. PICK last \in 1 .. org.writes, told \in OrgStatuses : ToldUpTo(last, told)
  BY DEF Told
<1>2. PICK n \in 1 .. last : m.version = Xmin(n) /\ (n = last => m.status = told)
  BY <1>1 DEF ToldUpTo, NewsOf, HandleUpserted
<1>3. last \in 1 .. MaxWrites + 1 /\ n \in 1 .. MaxWrites + 1
  BY <1>1, <1>2, OrgLifecycleAssumption DEF WithinBound, OrgTypeOK, OrgRow
<1>4. /\ m.type = "upserted"
      /\ directory' = IF IsNewer(m.version, directory.version)
                      THEN [status |-> m.status, version |-> m.version]
                      ELSE directory
  BY DEF HandleUpserted
<1> DEFINE Arrived(d) == directory.version = Xmin(d) /\ (d = last => directory.status = told)
<1>5. \/ IsNewer(m.version, directory.version)
      \/ \E d \in 1 .. last : Arrived(d) /\ n <= d
  <2>1. CASE directory = NoEntry
    BY <1>2, <1>3, <2>1, IdsAreOrdered DEF NoEntry
  <2>2. ASSUME NEW d \in 1 .. last, Arrived(d)
        PROVE  IsNewer(m.version, directory.version) \/ n <= d
    <3>1. d \in 1 .. MaxWrites + 1
      BY <1>3, OrgLifecycleAssumption
    <3> QED BY <1>2, <1>3, <2>2, <3>1, IdsAreOrdered
  <2> QED BY <1>1, <2>1, <2>2 DEF ToldUpTo, NewsOf
<1>6. /\ NewsOf(directory'.version, directory'.status, last, told)
      /\ n = last => directory'.version = Xmin(last) /\ directory'.status = told
  <2>1. CASE IsNewer(m.version, directory.version)
    <3>1. directory'.version = m.version /\ directory'.status = m.status
      BY <1>4, <2>1
    <3> QED BY <1>2, <3>1 DEF NewsOf
  <2>2. CASE ~IsNewer(m.version, directory.version)
    <3>1. PICK d \in 1 .. last : Arrived(d) /\ n <= d
      BY <1>5, <2>2
    <3>2. directory' = directory /\ (n = last => d = last)
      BY <1>2, <1>3, <1>4, <2>2, <3>1
    <3> QED BY <3>1, <3>2 DEF NewsOf
  <2> QED BY <2>1, <2>2
<1>7. \/ \E i \in inbox' : i.type = "upserted" /\ i.version = Xmin(last) /\ i.status = told
      \/ directory'.version = Xmin(last) /\ directory'.status = told
  <2>1. CASE \E i \in inbox : i.type = "upserted" /\ i.version = Xmin(last) /\ i.status = told
    <3>1. PICK i \in inbox : i.type = "upserted" /\ i.version = Xmin(last) /\ i.status = told
      BY <2>1
    <3>2. CASE i = m
      <4>1. IsNewer(Xmin(n), Xmin(last)) <=> n > last
        BY <1>3, IdsAreOrdered
      <4>2. IsNewer(Xmin(last), Xmin(n)) <=> last > n
        BY <1>3, IdsAreOrdered
      <4>3. n = last
        BY <1>2, <1>3, <3>1, <3>2, <4>1, <4>2
      <4> QED BY <1>6, <4>3
    <3>3. CASE i # m
      BY <3>1, <3>3
    <3> QED BY <3>2, <3>3
  <2>2. CASE directory.version = Xmin(last) /\ directory.status = told
    <3>1. CASE IsNewer(m.version, directory.version)
      <4>1. n > last
        BY <1>2, <1>3, <2>2, <3>1, IdsAreOrdered
      <4> QED BY <1>2, <1>3, <4>1
    <3>2. CASE ~IsNewer(m.version, directory.version)
      BY <1>4, <2>2, <3>2
    <3> QED BY <3>1, <3>2
  <2> QED BY <1>1, <2>1, <2>2 DEF ToldUpTo
<1>8. ToldUpTo(last, told)'
  BY <1>1, <1>6, <1>7 DEF ToldUpTo, NewsOf
<1> QED BY <1>1, <1>8 DEF Told

(* A step that announces nothing keeps what was told.                      *)
LEMMA QuietKeepsTold ==
    ASSUME Told, OrgTypeOK, org'.writes \in Nat, org'.writes >= org.writes,
           org'.status = org.status \/ (org.status = "Suspended" /\ org'.status = "Offboarding"),
           directory' = directory,
           \A m : m.type = "upserted" => (m \in inbox' <=> m \in inbox)
    PROVE  Told'
<1>1. PICK last \in 1 .. org.writes, told \in OrgStatuses : ToldUpTo(last, told)
  BY DEF Told
<1>2. last \in 1 .. org'.writes
  BY <1>1 DEF OrgTypeOK, OrgRow
<1>3. ToldUpTo(last, told)'
  BY <1>1 DEF ToldUpTo, NewsOf
<1> QED BY <1>2, <1>3 DEF Told

(* A save that announces its row tells that one last.                      *)
LEMMA AnnouncementIsTold ==
    ASSUME OrgTypeOK, Told, NEW row \in OrgRow, NEW publishes,
           row.writes = org.writes + 1, row.status \in OrgStatuses, Announced(row, publishes),
           org' = row, inbox' = inbox \union publishes, directory' = directory
    PROVE  Told'
<1>1. PICK last \in 1 .. org.writes, told \in OrgStatuses : ToldUpTo(last, told)
  BY DEF Told
<1>0. PICK next : next = org.writes + 1
  OBVIOUS
<1>2. next \in 1 .. org'.writes /\ last < next /\ org.writes \in Nat
  BY <1>0, <1>1 DEF OrgTypeOK, OrgRow
<1>3. Upserted(row).type = "upserted" /\ Upserted(row).version = Xmin(next) /\ Upserted(row).status = row.status
  BY <1>0 DEF Upserted
<1>4. \A v, s : NewsOf(v, s, last, told) => NewsOf(v, s, next, row.status)
  <2> SUFFICES ASSUME NEW v, NEW s, NewsOf(v, s, last, told)
               PROVE  NewsOf(v, s, next, row.status)
    OBVIOUS
  <2>1. PICK n \in 1 .. last : v = Xmin(n)
    BY DEF NewsOf
  <2>2. n \in 1 .. next /\ n # next
    BY <1>2
  <2> QED BY <2>1, <2>2 DEF NewsOf
<1>5. NewsOf(Upserted(row).version, Upserted(row).status, next, row.status)
  BY <1>2, <1>3 DEF NewsOf
<1>6. \A m \in inbox' : m.type = "upserted" => NewsOf(m.version, m.status, next, row.status)
  BY <1>1, <1>4, <1>5 DEF ToldUpTo, Announced
<1>7. directory' = NoEntry \/ NewsOf(directory'.version, directory'.status, next, row.status)
  BY <1>1, <1>4 DEF ToldUpTo
<1>8. \E m \in inbox' : m.type = "upserted" /\ m.version = Xmin(next) /\ m.status = row.status
  BY <1>3 DEF Announced
<1>9. ToldUpTo(next, row.status)'
  BY <1>6, <1>7, <1>8 DEF ToldUpTo, NewsOf
<1> QED BY <1>2, <1>9 DEF Told
(* The directory starts in agreement.                                       *)
LEMMA DirectoryInit == OrgInit => DirectoryInv
BY OrgLifecycleAssumption DEF OrgInit, DirectoryInv, WithinBound, Current, Idle

\* The bound, over a step that leaves the row's writes and status alone.
LEMMA BoundKept ==
    ASSUME OrgTypeOK, WithinBound, NEW w \in Writers, NEW t,
           tx' = [tx EXCEPT ![w] = t], org'.writes = org.writes, org'.status = org.status,
           t = Idle \/ (t.seen = org.writes =>
                            IF t.op = "sweep" THEN org.status # "Offboarding" ELSE org.writes < MaxWrites)
    PROVE  WithinBound'
<1>1. \A v \in Writers : tx'[v] = IF v = w THEN t ELSE tx[v]
  BY DEF OrgTypeOK
<1> QED BY <1>1 DEF WithinBound, Current

(* Every step keeps the directory in agreement.                             *)
LEMMA DirectoryStep == Safe /\ DirectoryInv /\ [OrgNext]_orgVars => DirectoryInv'
<1> SUFFICES ASSUME Safe, DirectoryInv, [OrgNext]_orgVars PROVE DirectoryInv'
  OBVIOUS
<1>0. /\ OrgTypeOK /\ Born /\ SeenIsPast /\ TokenGuards /\ WithinBound /\ org.writes \in Nat
      /\ org.status \in OrgStatuses \union {"none"} /\ MaxWrites \in Nat \ {0}
  BY OrgLifecycleAssumption DEF Safe, DirectoryInv, OrgTypeOK, OrgRow
<1>1. CASE CreateOrg
  <2>1. /\ org' = [org EXCEPT !.status = "Active", !.writes = 1] /\ tx' = tx /\ org.status = "none"
        /\ inbox' = inbox \union {Upserted(org'), Hierarchy, Founder} /\ directory' = directory
    BY <1>1 DEF CreateOrg
  <2>2. org'.status = "Active" /\ org'.writes = 1
    BY <1>0, <2>1 DEF OrgTypeOK, OrgRow
  <2>3. inbox = {} /\ directory = NoEntry /\ \A w \in Writers : tx[w] = Idle
    BY <1>0, <2>1 DEF DirectoryInv, Born
  <2>4. WithinBound'
    BY <1>0, <2>1, <2>2, <2>3 DEF WithinBound
  <2>5. /\ Upserted(org').type = "upserted" /\ Upserted(org').version = Xmin(1) /\ Upserted(org').status = "Active"
        /\ Hierarchy.type # "upserted" /\ Founder.type # "upserted"
    BY <2>2 DEF Upserted, Hierarchy, Founder
  <2>6. ToldUpTo(1, "Active")'
    BY <2>1, <2>2, <2>3, <2>5 DEF ToldUpTo, NewsOf
  <2> QED BY <2>2, <2>4, <2>6 DEF DirectoryInv, Told, OrgStatuses
<1>2. CASE GraceLapses
  <2>1. org' = [org EXCEPT !.closing = "due"] /\ UNCHANGED <<tx, inbox, directory, owner, provider, data>>
    BY <1>2 DEF GraceLapses
  <2>2. org'.status = org.status /\ org'.writes = org.writes
    BY <1>0, <2>1 DEF OrgTypeOK, OrgRow
  <2>3. WithinBound'
    BY <1>0, <2>1, <2>2 DEF WithinBound, Current
  <2>4. Told => Told'
    BY <1>0, <2>1, <2>2, QuietKeepsTold
  <2> QED BY <2>1, <2>2, <2>3, <2>4 DEF DirectoryInv
<1>3. ASSUME NEW w \in Writers, Writer(w) PROVE DirectoryInv'
  <2>1. CASE Reads(w)
    <3>1. PICK op \in Ops : ReadRow(w, op, /\ op = "offboard" => org.status = "Suspended"
                                           /\ op = "sweep" => org.closing = "due" /\ org.status # "Offboarding"
                                           /\ op # "sweep" => MayWrite)
      BY <2>1 DEF Reads
    <3>2. PICK step : step = [op |-> op, seen |-> org.writes]
      OBVIOUS
    <3>3. /\ tx' = [tx EXCEPT ![w] = step] /\ UNCHANGED <<org, inbox, directory, provider>>
          /\ step.op = op /\ step.seen = org.writes
          /\ op = "sweep" => org.status # "Offboarding"
          /\ op # "sweep" => org.writes < MaxWrites
      BY <3>1, <3>2 DEF ReadRow, MayWrite
    <3>4. WithinBound'
      BY <1>0, <3>3, BoundKept
    <3>5. Told => Told'
      BY <1>0, <3>3, QuietKeepsTold
    <3> QED BY <3>3, <3>4, <3>5 DEF DirectoryInv
  <2>2. CASE Saves(w)
    <3>1. PICK op \in Ops, row \in OrgRow, publishes \in SUBSET Messages :
               /\ Save(w, op, row, publishes)
               /\ row.writes = org.writes + 1 /\ row.status \in OrgStatuses
               /\ op = "sweep" => row.status = "Offboarding"
               /\ Announced(row, publishes) \/ Silent(op, row, publishes)
      BY <2>2 DEF Saves
    <3>2. /\ org' = row /\ tx' = [tx EXCEPT ![w] = Idle] /\ tx[w].op = op /\ Current(w)
          /\ inbox' = inbox \union publishes /\ directory' = directory /\ provider' = provider
      BY <3>1 DEF Save
    <3>3. tx[w] # Idle /\ org.status \in OrgStatuses
      BY <1>0, <3>2, TxShape DEF Born
    <3>4. \A v \in Writers : tx'[v] = IF v = w THEN Idle ELSE tx[v]
      BY <1>0, <3>2 DEF OrgTypeOK
    <3>5. \A v \in Writers : tx[v].seen \in Nat /\ tx[v].seen <= org.writes
      BY <1>0, TxShape DEF SeenIsPast
    <3>6. WithinBound'
      <4>1. IF op = "sweep" THEN org.status # "Offboarding" ELSE org.writes < MaxWrites
        BY <1>0, <3>2, <3>3 DEF WithinBound
      <4>2. org'.writes = org.writes + 1 /\ org.writes <= MaxWrites
        BY <1>0, <3>1, <3>2, <4>1 DEF WithinBound
      <4>3. org'.writes = MaxWrites + 1 => org'.status = "Offboarding"
        BY <1>0, <3>1, <3>2, <4>1, <4>2
      <4>4. \A v \in Writers : tx'[v] = Idle \/ tx'[v].seen < org'.writes
        BY <1>0, <3>4, <3>5, <4>2
      <4>5. \A v \in Writers : tx'[v] # Idle => tx'[v].seen \in Nat
        BY <3>4, <3>5
      <4> QED BY <1>0, <4>2, <4>3, <4>4, <4>5 DEF WithinBound, Current
    <3>7. ASSUME Told PROVE Told'
      <4>1. CASE Announced(row, publishes)
        BY <1>0, <3>1, <3>2, <3>7, <4>1, AnnouncementIsTold
      <4>2. CASE Silent(op, row, publishes)
        <5>1. \A m : m.type = "upserted" => (m \in inbox' <=> m \in inbox)
          BY <3>2, <4>2 DEF Silent
        <5>2. org'.status = org.status \/ (org.status = "Suspended" /\ org'.status = "Offboarding")
          BY <1>0, <3>2, <4>2 DEF Silent, TokenGuards
        <5>3. org'.writes \in Nat /\ org'.writes >= org.writes
          BY <1>0, <3>1, <3>2
        <5> QED BY <1>0, <3>2, <3>7, <5>1, <5>2, <5>3, QuietKeepsTold
      <4> QED BY <3>1, <4>1, <4>2
    <3> QED BY <3>1, <3>2, <3>3, <3>6, <3>7 DEF DirectoryInv, OrgStatuses
  <2>3. CASE Conflict(w)
    <3>1. UNCHANGED <<org, inbox, directory, provider>> /\ tx' = [tx EXCEPT ![w] = Idle]
      BY <2>3 DEF Conflict
    <3>2. WithinBound'
      BY <1>0, <3>1, BoundKept
    <3>3. Told => Told'
      BY <1>0, <3>1, QuietKeepsTold
    <3> QED BY <3>1, <3>2, <3>3 DEF DirectoryInv
  <2> QED BY <1>0, <1>3, <2>1, <2>2, <2>3, WriterSteps
<1>4. ASSUME NEW m \in Modules, WriteRows(m) PROVE DirectoryInv'
  <2>1. UNCHANGED <<org, tx, inbox, directory, provider>>
    BY <1>4 DEF WriteRows
  <2>2. Told => Told'
    BY <1>0, <2>1, QuietKeepsTold
  <2> QED BY <1>0, <2>1, <2>2 DEF DirectoryInv, WithinBound, Current
<1>5. ASSUME NEW m \in inbox, DeliverMessage(m) \/ RedeliverMessage(m) PROVE DirectoryInv'
  <2>1. UNCHANGED <<org, tx>> /\ Handle(m) /\ (inbox' = inbox \ {m} \/ inbox' = inbox)
    BY <1>5 DEF DeliverMessage, RedeliverMessage
  <2>2. WithinBound' /\ org.status # "none"
    BY <1>0, <1>5, <2>1 DEF WithinBound, Current, DirectoryInv
  <2>3. CASE HandleUpserted(m)
    BY <1>0, <2>1, <2>2, <2>3, NewsKeepsTold DEF DirectoryInv, HandleUpserted
  <2>4. CASE HandleDeleted(m)
    BY <2>1, <2>2, <2>4 DEF DirectoryInv, HandleDeleted
  <2>5. ASSUME m.type # "upserted", UNCHANGED <<directory, provider>> PROVE DirectoryInv'
    <3>1. \A i : i.type = "upserted" => (i \in inbox' <=> i \in inbox)
      BY <2>1, <2>5
    <3>2. Told => Told'
      BY <1>0, <2>1, <2>5, <3>1, QuietKeepsTold
    <3> QED BY <2>1, <2>2, <2>5, <3>2 DEF DirectoryInv
  <2> QED BY <2>1, <2>3, <2>4, <2>5 DEF Handle, HandleFounder, HandleHierarchy, HandlePurge
<1>6. CASE UNCHANGED orgVars
  <2>1. Told => Told'
    BY <1>0, <1>6, QuietKeepsTold DEF orgVars
  <2> QED BY <1>6, <2>1 DEF orgVars, DirectoryInv, WithinBound, Current
<1> QED BY <1>1, <1>2, <1>3, <1>4, <1>5, <1>6 DEF OrgNext

(* Identity's copy of the organization catches up: once no announcement is *)
(* on its way it shows the row's status, although announcements arrive     *)
(* late, twice, out of order and across a wrap of the transaction ids, for *)
(* any number of writers and any modulus that leaves the ids in flight     *)
(* within half of it.                                                      *)
THEOREM DirectoryCatchesUp == OrgSpec => []DirectoryAgrees
<1>1. Safe /\ DirectoryInv => DirectoryAgrees
  BY DEF DirectoryInv, DirectoryAgrees, Told, ToldUpTo
<1>2. OrgSpec => []DirectoryInv
  BY AlwaysSafe, DirectoryInit, DirectoryStep, PTL DEF OrgSpec
<1> QED BY <1>1, <1>2, AlwaysSafe, PTL
=============================================================================
