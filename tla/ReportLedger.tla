---------------------------- MODULE ReportLedger ----------------------------
(***************************************************************************)
(* What report execution promises an organization, with jobs, leases,      *)
(* runs, sweeps and object stores left out: a PDF is delivered at most     *)
(* once, in the very step that turns its reserved unit into usage; an      *)
(* undelivered unit can only be given back; usage is never refunded; and   *)
(* admission never takes a month over its limit.  Reporting implements it. *)
(***************************************************************************)
EXTENDS Naturals, FiniteSets

CONSTANTS Items, Limit, Months

VARIABLES entry, delivered, closed

lvars == <<entry, delivered, closed>>

Nothing == [charge |-> "none", month |-> 0]

Units(m) == {i \in Items : entry[i].charge # "none" /\ entry[i].month = m}

LInit ==
    /\ entry = [i \in Items |-> Nothing]
    /\ delivered = {}
    /\ closed = FALSE

(* Units are taken for undelivered PDFs, within the month's limit.         *)
Admit(S, m) ==
    /\ S \cap delivered = {}
    /\ S \cap Units(m) = {}
    /\ Cardinality(Units(m)) + Cardinality(S) <= Limit
    /\ entry' = [i \in Items |->
                   IF i \in S THEN [charge |-> "reserved", month |-> m]
                              ELSE entry[i]]
    /\ UNCHANGED <<delivered, closed>>

Deliver(i) ==
    /\ i \notin delivered
    /\ entry[i].charge = "reserved"
    /\ delivered' = delivered \cup {i}
    /\ entry' = [entry EXCEPT ![i].charge = "consumed"]
    /\ UNCHANGED closed

GiveBack(S) ==
    /\ \A i \in S : i \notin delivered /\ entry[i].charge = "reserved"
    /\ entry' = [i \in Items |-> IF i \in S THEN Nothing ELSE entry[i]]
    /\ UNCHANGED <<delivered, closed>>

(* The organization is purged: its ledger goes at once, its PDFs later, a  *)
(* PDF that was being delivered may still arrive before they do.           *)
Close ==
    /\ closed' = TRUE
    /\ entry' = [i \in Items |-> Nothing]
    /\ UNCHANGED delivered

ArriveLate(i) ==
    /\ closed
    /\ i \notin delivered
    /\ delivered' = delivered \cup {i}
    /\ UNCHANGED <<entry, closed>>

Discard(S) ==
    /\ closed
    /\ delivered' = delivered \ S
    /\ UNCHANGED <<entry, closed>>

LNext ==
    \/ \E S \in SUBSET Items :
          GiveBack(S) \/ Discard(S) \/ \E m \in Months : Admit(S, m)
    \/ \E i \in Items : Deliver(i) \/ ArriveLate(i)
    \/ Close

LSpec == LInit /\ [][LNext]_lvars
=============================================================================
