--------------------------- MODULE OrgLifecycle ---------------------------
(***************************************************************************)
(* The life of one organization: creation, renaming, suspension,           *)
(* reactivation, self-serve closure, offboarding, and what the other       *)
(* modules learn of it through messages.                                   *)
(*                                                                         *)
(* Tenancy owns the organization row.  Its handlers read the row, decide,  *)
(* and write it back with the row's xmin as concurrency token, so each is  *)
(* two steps here: ReadRow takes the snapshot and Save succeeds only if       *)
(* nobody wrote the row in between.  The messages of a handler leave with  *)
(* its commit (the outbox) and are delivered at least once, in any order.  *)
(* Identity keeps org_directory, a copy of the row that the request        *)
(* pipeline consults; every other module keeps rows of its own that the    *)
(* offboarding fan-out purges.                                             *)
(***************************************************************************)
EXTENDS Integers, FiniteSets

CONSTANTS
    Writers,      \* transactions on the organization row that may overlap
    Modules,      \* the modules with rows to purge, Tenancy's "sites" among them
    Modulus,      \* number of transaction ids (2^32 in PostgreSQL)
    FirstXid,     \* ids below this one are reserved (3 in PostgreSQL)
    FirstWrite,   \* position of the row's first write in the sequence of ids
    MaxWrites     \* bound on the writes of the row, a last closing sweep apart

ASSUME OrgLifecycleAssumption ==
    /\ FirstXid \in Nat \ {0} /\ Modulus \in Nat /\ FirstXid < Modulus
    /\ FirstWrite \in Nat /\ MaxWrites \in Nat \ {0}
    /\ "sites" \in Modules
    \* the writes in flight span less than half of the ids, reserved ones included
    /\ 2 * (MaxWrites + 1 + FirstXid) < Modulus

VARIABLES
    org,        \* the organization row of Tenancy
    tx,         \* per writer: what it is about to do, and the version it read
    inbox,      \* messages published and not yet acknowledged
    directory,  \* Identity's org_directory entry
    owner,      \* whether Identity has the founder's membership and its roles
    provider,   \* the organization at the auth provider: "none", "live", "deleted"
    data        \* per module: does it hold rows of the organization?

orgVars == <<org, tx, inbox, directory, owner, provider, data>>

-----------------------------------------------------------------------------
(* Rows and messages. *)

OrgStatuses == {"Active", "Suspended", "Offboarding"}

\* CloseRequestedAt: null, within the grace window, or past it.
Closings == {"no", "grace", "due"}

\* `writes` counts the writes of the row; its xmin is Xmin(writes).
OrgRow == [status : OrgStatuses \union {"none"}, closing : Closings, writes : Nat]

Ops == {"suspend", "reactivate", "rename", "close", "cancel", "sweep", "offboard"}

Idle == [op |-> "idle", seen |-> 0]

\* A transaction under way and the version of the row it has read.
Transactions == {Idle} \union [op : Ops, seen : Nat]

\* Transaction ids grow by one and wrap around, skipping the reserved ones.
Xmin(n) == FirstXid + ((FirstWrite + n) % (Modulus - FirstXid))

Upserted(row) == [type |-> "upserted", version |-> Xmin(row.writes), status |-> row.status]
Purge(m) == [type |-> "purge", module |-> m]
Deleted == [type |-> "deleted"]
Founder == [type |-> "founder"]
Hierarchy == [type |-> "hierarchy"]

Messages ==
    [type : {"upserted"}, version : 0 .. Modulus - 1, status : OrgStatuses]
    \union {Purge(m) : m \in Modules}
    \union {Deleted, Founder, Hierarchy}

NoEntry == [status |-> "absent", version |-> 0]

OrgTypeOK ==
    /\ org \in OrgRow
    /\ tx \in [Writers -> Transactions]
    /\ inbox \subseteq Messages
    /\ directory \in [status : OrgStatuses \union {"absent"}, version : 0 .. Modulus - 1]
    /\ owner \in BOOLEAN
    /\ provider \in {"none", "live", "deleted"}
    /\ data \in [Modules -> BOOLEAN]

OrgInit ==
    /\ org = [status |-> "none", closing |-> "no", writes |-> 0]
    /\ tx = [w \in Writers |-> Idle]
    /\ inbox = {}
    /\ directory = NoEntry
    /\ owner = FALSE
    /\ provider = "none"
    /\ data = [m \in Modules |-> FALSE]

-----------------------------------------------------------------------------
(* The request pipeline: the suspension middleware looks the organization  *)
(* up in org_directory, an absent entry passing, and the gate asks for a   *)
(* role of a member.                                                       *)

Blocked == {"Suspended", "Offboarding"}

Passes == directory.status \notin Blocked

Admits == Passes /\ owner

-----------------------------------------------------------------------------
(* Tenancy's handlers on the organization row. *)

\* POST /api/orgs.  The provider's organization is created first.
CreateOrg ==
    /\ org.status = "none"
    /\ org' = [org EXCEPT !.status = "Active", !.writes = 1]
    /\ provider' = "live"
    /\ inbox' = inbox \union {Upserted(org'), Hierarchy, Founder}
    /\ UNCHANGED <<tx, directory, owner, data>>

\* A handler reads the row; its early returns are in `goes`.
ReadRow(w, op, goes) ==
    /\ tx[w] = Idle /\ org.status # "none" /\ goes
    /\ tx' = [tx EXCEPT ![w] = [op |-> op, seen |-> org.writes]]
    /\ UNCHANGED <<org, inbox, directory, owner, provider, data>>

AnyRow(w) == TRUE

\* The concurrency token: the row still has the xmin that was read.
Current(w) == org.writes = tx[w].seen

\* The handler saves the row, and what it publishes leaves with the commit.
Save(w, op, row, publishes) ==
    /\ tx[w].op = op /\ Current(w)
    /\ org' = row
    /\ inbox' = inbox \union publishes
    /\ tx' = [tx EXCEPT ![w] = Idle]
    /\ UNCHANGED <<directory, owner, provider, data>>

\* The update matches no row: the request fails, the sweep is delivered again.
Conflict(w) ==
    /\ tx[w] # Idle /\ ~Current(w)
    /\ tx' = [tx EXCEPT ![w] = Idle]
    /\ UNCHANGED <<org, inbox, directory, owner, provider, data>>

\* The row with a new status or a new closing, written once more.
WithStatus(status) == [org EXCEPT !.status = status, !.writes = org.writes + 1]
WithClosing(closing) == [org EXCEPT !.closing = closing, !.writes = org.writes + 1]

MayWrite == org.writes < MaxWrites

TransitionSilently(w, op, status) ==
    \/ ReadRow(w, op, MayWrite /\ org.status # status)
    \/ Save(w, op, WithStatus(status), {})

\* Suspend and Reactivate: by an operator, whatever the other status is.
Transition(w, op, status) ==
    \/ ReadRow(w, op, MayWrite /\ org.status # status)
    \/ Save(w, op, WithStatus(status), {Upserted(WithStatus(status))})

\* PUT /api/org: the name is left out, the write and the event are not.
Rename(w) ==
    \/ ReadRow(w, "rename", MayWrite /\ Admits)
    \/ Save(w, "rename", WithStatus(org.status), {Upserted(WithStatus(org.status))})

\* Closing and its cancellation tell no module.
RequestClosure(w) ==
    \/ ReadRow(w, "close", MayWrite /\ Admits /\ org.closing = "no")
    \/ Save(w, "close", WithClosing("grace"), {})

CancelClosure(w) ==
    \/ ReadRow(w, "cancel", MayWrite /\ Admits /\ org.closing # "no")
    \/ Save(w, "cancel", WithClosing("no"), {})

\* One command per owning module, and the news for Identity.
FanOut == {Purge(m) : m \in Modules} \union {Deleted}

\* The daily sweep: a closure whose window is over offboards.
ProcessOrgClosure(w) ==
    \/ ReadRow(w, "sweep", org.closing = "due" /\ org.status # "Offboarding")
    \/ Save(w, "sweep", WithStatus("Offboarding"),
            {Upserted(WithStatus("Offboarding"))} \union FanOut)

\* By an operator, in a second step after suspension.  Publishes the purges
\* but no OrganizationUpserted.
Offboard(w) ==
    \/ ReadRow(w, "offboard", MayWrite /\ org.status = "Suspended")
    \/ Save(w, "offboard", WithStatus("Offboarding"), FanOut)

Writer(w) ==
    \/ Transition(w, "suspend", "Suspended") \/ Transition(w, "reactivate", "Active")
    \/ Rename(w) \/ RequestClosure(w) \/ CancelClosure(w)
    \/ ProcessOrgClosure(w) \/ Offboard(w) \/ Conflict(w)

\* The grace window of a requested closure ends.
GraceLapses ==
    /\ org.closing = "grace"
    /\ org' = [org EXCEPT !.closing = "due"]
    /\ UNCHANGED <<tx, inbox, directory, owner, provider, data>>

-----------------------------------------------------------------------------
(* Identity: the directory copy, memberships, and the end of both. *)

IsGreater(incoming, applied) == incoming # 0 /\ incoming > applied

\* The signed 32-bit difference of two ids is positive; zero is no version.
IsNewer(incoming, applied) ==
    /\ incoming # 0
    /\ \/ applied = 0
       \/ (incoming - applied) % Modulus \in 1 .. (Modulus \div 2) - 1

HandleUpserted(m) ==
    /\ m.type = "upserted"
    /\ directory' = IF IsNewer(m.version, directory.version)
                    THEN [status |-> m.status, version |-> m.version]
                    ELSE directory
    /\ UNCHANGED <<owner, provider, data>>

HandleDeleted(m) ==
    /\ m.type = "deleted"
    /\ directory' = NoEntry
    /\ owner' = FALSE
    /\ provider' = "deleted"
    /\ UNCHANGED data

\* The first member of an organization without roles seeds them and owns it.
HandleFounder(m) ==
    /\ m.type = "founder"
    /\ owner' = TRUE
    /\ UNCHANGED <<directory, provider, data>>

-----------------------------------------------------------------------------
(* The modules' rows. *)

\* The default hierarchy, unless the organization has one by then.
HandleHierarchy(m) ==
    /\ m.type = "hierarchy"
    /\ data' = [data EXCEPT !["sites"] = TRUE]
    /\ UNCHANGED <<directory, owner, provider>>

HandlePurge(m) ==
    /\ m.type = "purge"
    /\ data' = [data EXCEPT ![m.module] = FALSE]
    /\ UNCHANGED <<directory, owner, provider>>

\* A member's request.  No module looks at the organization row itself.
WriteRows(m) ==
    /\ Admits
    /\ data' = [data EXCEPT ![m] = TRUE]
    /\ UNCHANGED <<org, tx, inbox, directory, owner, provider>>

-----------------------------------------------------------------------------
(* Delivery: at least once, in any order.  A message whose handler has     *)
(* committed and which is not acknowledged will be delivered again.        *)

Handle(m) ==
    \/ HandleUpserted(m) \/ HandleDeleted(m) \/ HandleFounder(m)
    \/ HandleHierarchy(m) \/ HandlePurge(m)

DeliverMessage(m) == Handle(m) /\ inbox' = inbox \ {m} /\ UNCHANGED <<org, tx>>

RedeliverMessage(m) == Handle(m) /\ UNCHANGED <<inbox, org, tx>>

OrgNext ==
    \/ CreateOrg \/ GraceLapses
    \/ \E w \in Writers : Writer(w)
    \/ \E m \in Modules : WriteRows(m)
    \/ \E m \in inbox : DeliverMessage(m) \/ RedeliverMessage(m)

OrgSpec == OrgInit /\ [][OrgNext]_orgVars

\* Durable messages are handled in the end, transactions end, and the closure
\* sweep comes round every day.
OrgFairness ==
    /\ WF_orgVars(\E m \in inbox : m.type = "upserted" /\ DeliverMessage(m))
    /\ \A w \in Writers : WF_orgVars(tx[w] # Idle /\ Writer(w))
    /\ WF_orgVars(\E w \in Writers : tx[w] = Idle /\ ProcessOrgClosure(w))

-----------------------------------------------------------------------------
(* Once no OrganizationUpserted is in flight the directory shows the       *)
(* row's status, although events were delivered late, twice and across a   *)
(* wrap of the ids.  The operator's offboarding sends none: there the      *)
(* directory keeps saying Suspended.  Says nothing after                   *)
(* OrganizationDeleted has been handled.                                   *)
DirectoryAgrees ==
    /\ org.status # "none" /\ provider = "live"
    /\ \A m \in inbox : m.type # "upserted"
    => \/ directory.status = org.status
       \/ org.status = "Offboarding" /\ directory.status = "Suspended"

(* Offboarding is deliberate: the row turns Offboarding only from          *)
(* Suspended, or when the grace window of a closure nobody cancelled is    *)
(* over; a cancellation or a reactivation that committed meanwhile wins.   *)
OffboardIsDeliberate ==
    [][org'.status = "Offboarding" /\ org.status # "Offboarding"
         => org.status = "Suspended" \/ org.closing = "due"]_orgVars

(* The suspension middleware stops the requests of a suspended             *)
(* organization in the end, unless it is reactivated or deleted first.     *)
SuspensionReachesRequests ==
    org.status = "Suspended" /\ provider = "live"
        ~> (~Passes \/ org.status # "Suspended" \/ provider = "deleted")
=============================================================================
