----------------------------- MODULE MCTenancy -----------------------------
(***************************************************************************)
(* An organization's lifecycle at the server, and the sessions of the tabs *)
(* that work in one.  They share no state: each is explored alone, and     *)
(* part says which.  The idle part stands in a state it can be in where no *)
(* step that is assumed fair is enabled: an organization that was not made *)
(* yet, tabs that show their page.                                         *)
(***************************************************************************)
EXTENDS OrgLifecycle, ConsoleSession

VARIABLE part

\* Every tab was opened and answered, and nobody did anything since.
TabsRest ==
    /\ cookie = First
    /\ tab = [t \in Tabs |-> [Fresh EXCEPT !.ctx = First, !.seen = First,
                                           !.page = First, !.phase = "page"]]
    /\ net = {} /\ bus = {}
    /\ write = [w \in Writes |-> [tab |-> None, intent |-> None, tries |-> 0,
                                  status |-> "idle"]]
    /\ ran = [w \in Writes |-> [times |-> 0, under |-> {}]]
    /\ changes = 0 /\ faults = 0 /\ outside = FALSE

PartsInit ==
    /\ OrgInit
    /\ \/ part = "lifecycle" /\ TabsRest
       \/ part = "session" /\ Init

PartsNext ==
    /\ UNCHANGED part
    /\ \/ part = "lifecycle" /\ OrgNext /\ UNCHANGED vars
       \/ part = "session" /\ Next /\ UNCHANGED orgVars

PartsSpec ==
    PartsInit /\ [][PartsNext]_<<part, orgVars, vars>> /\ OrgFairness /\ Fairness
=============================================================================
