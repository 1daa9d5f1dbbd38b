---------------------------- MODULE SiteEditor ----------------------------
(***************************************************************************)
(* The site page of the console against the update endpoint: a dialog that *)
(* edits a copy of the site, a button that closes or reopens it, and the   *)
(* version the page echoes so that two people saving at once do not        *)
(* overwrite each other.                                                   *)
(*                                                                         *)
(* The dialog's fields are abstracted to the ones in Fields (name, zone,   *)
(* address, coordinates and attributes are all taken over when it opens    *)
(* and sent back together), and the status the button flips.               *)
(***************************************************************************)
EXTENDS Integers, FiniteSets

CONSTANTS
  Fields,      \* what the dialog edits
  Values,      \* what a field may hold
  MaxVersion   \* bound: writes of the row

Status == {"Open", "Closed"}
None == [none |-> TRUE]

VARIABLES
  record,   \* the row: its fields, status and version
  copy,     \* the page's cached site
  stale,    \* the copy was invalidated and its refetch has not landed
  dialog,   \* the open dialog: the fields typed and the copy they came from
  update,   \* the mutation: its body and version, and how far it got
  told      \* what the last one told the user

vars == <<record, copy, stale, dialog, update, told>>

Row == [fields : [Fields -> Values], status : Status, version : 0 .. MaxVersion]

Init ==
  /\ record \in [fields : [Fields -> Values], status : {"Open"}, version : {0}]
  /\ copy = record /\ stale = FALSE
  /\ dialog = None /\ update = None /\ told = "nothing"

---------------------------------------------------------------------------
\* Someone else saves: a field in their own dialog, or a status for a whole
\* selection of sites, which asks for no version.
OtherSaves ==
  /\ record.version < MaxVersion
  /\ \E f \in Fields, v \in Values, s \in Status :
       LET row == [record EXCEPT !.fields[f] = v, !.status = s]
       IN row # record /\ record' = [row EXCEPT !.version = @ + 1]
  /\ UNCHANGED <<copy, stale, dialog, update, told>>

\* The hours card of the same page saved, which refreshes the site too.
HoursSaved == dialog = None /\ ~stale /\ stale' = TRUE /\ UNCHANGED <<record, copy, dialog, update, told>>

\* The refetch of an invalidated site lands.
Refetched == stale /\ stale' = FALSE /\ copy' = record /\ UNCHANGED <<record, dialog, update, told>>

\* The Edit button copies the site into the dialog's fields.
OpenEdit ==
  /\ dialog = None
  /\ dialog' = [draft |-> copy.fields, base |-> copy]
  /\ UNCHANGED <<record, copy, stale, update, told>>

Type(f, v) ==
  /\ dialog # None
  /\ dialog' = [dialog EXCEPT !.draft[f] = v]
  /\ UNCHANGED <<record, copy, stale, update, told>>

Dismiss == dialog # None /\ dialog' = None /\ UNCHANGED <<record, copy, stale, update, told>>

\* The version an update carries: that of the copy at hand when it is sent.
Versioned(body, base) == [fields |-> body.fields, status |-> body.status, version |-> copy.version, base |-> base, state |-> "sent"]

\* Save sends every field of the dialog.
Save ==
  /\ dialog # None /\ update = None
  /\ update' = Versioned([fields |-> dialog.draft, status |-> "unchanged"], dialog.base)
  /\ UNCHANGED <<record, copy, stale, dialog, told>>

\* Close site, Reopen site: the status the copy does not have.
FlipStatus ==
  /\ dialog = None /\ update = None
  /\ update' = Versioned([fields |-> None, status |-> IF copy.status = "Closed" THEN "Open" ELSE "Closed"], copy)
  /\ UNCHANGED <<record, copy, stale, dialog, told>>

---------------------------------------------------------------------------
Written(u) ==
  [record EXCEPT !.fields = IF u.fields = None THEN @ ELSE u.fields,
                 !.status = IF u.status = "unchanged" THEN @ ELSE u.status]

\* The endpoint: a version that is not the row's is a conflict, and a save
\* that changes the row moves its version on.
Serve ==
  /\ update # None
  /\ update.state = "sent"
  /\ IF update.version # record.version
     THEN update' = [update EXCEPT !.state = "conflict"] /\ UNCHANGED record
     ELSE /\ update' = [update EXCEPT !.state = "saved"]
          /\ record' = IF Written(update) = record THEN record ELSE [Written(update) EXCEPT !.version = @ + 1]
          /\ record'.version <= MaxVersion
  /\ UNCHANGED <<copy, stale, dialog, told>>

\* The answer arrives, or is lost on the way: the site is reloaded either
\* way, and only a success closes the dialog.
Settle(lost) ==
  /\ update # None
  /\ update.state # "sent"
  /\ stale' = TRUE
  /\ told' = IF lost THEN "failed" ELSE update.state
  /\ dialog' = IF told' = "saved" /\ update.fields # None THEN None ELSE dialog
  /\ update' = None
  /\ UNCHANGED <<record, copy>>

Next ==
  \/ OtherSaves \/ HoursSaved \/ Refetched \/ OpenEdit \/ Dismiss \/ Save \/ FlipStatus \/ Serve
  \/ \E f \in Fields, v \in Values : Type(f, v)
  \/ \E lost \in BOOLEAN : Settle(lost)

Spec == Init /\ [][Next]_vars

---------------------------------------------------------------------------
\* What the endpoint promises of its version check, "409, never a clobber": a
\* save that is accepted replaces no value that someone else wrote after the
\* editor took the fields over.
NeverAClobber ==
  [][ (update # None /\ record' # record /\ Serve /\ update.fields # None) =>
        \A f \in Fields : record.fields[f] = update.base.fields[f] \/ update.fields[f] = record.fields[f] ]_vars
==========================================================================
