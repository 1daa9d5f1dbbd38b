--------------------------- MODULE ReportRequest ---------------------------
(***************************************************************************)
(* A report request from its form to the run it makes: the form keeps one  *)
(* key for the request it last sent, the mutation resends once when the    *)
(* server was busy, and the server's idempotency middleware answers a key  *)
(* it has seen from the record it kept.  A record expires after 24 hours   *)
(* and is deleted by the next hourly cleanup.                              *)
(***************************************************************************)
EXTENDS Integers, FiniteSets

CONSTANTS
  Bodies,     \* the requests the form can be filled in as
  MaxKeys,    \* bound: keys made
  MaxLosses,  \* bound: requests and answers lost, and servers lost at work
  MaxLapses   \* bound: cleanups that take the record of the form's own key

None == [none |-> TRUE]
Shut == "shut"

ASSUME RequestAssumption == Bodies # {} /\ Shut \notin Bodies /\ MaxKeys \in Nat \ {0} /\ {MaxLosses, MaxLapses} \subseteq Nat

RequestKeys == 1 .. MaxKeys

VARIABLES
  body,        \* what the form says; Shut when the form is
  lastRequest, \* the request last sent and its key
  keys,        \* how many keys were made
  submit,      \* the mutation: the body and key, attempts failed, and its state
  handling,    \* requests the server is working on
  late,        \* keys of requests given up on their way, which may still arrive
  records,     \* its idempotency records: key -> status, and whether expired
  runs,        \* the runs made, by key
  streak,      \* runs made since the form last sent another request
  lapses,      \* records of that request deleted since then
  notice,        \* what the user was last told
  losses

requestVars == <<body, lastRequest, keys, submit, handling, late, records, runs, streak, lapses, notice, losses>>
counters == <<streak, lapses>>
serverVars == <<handling, records, runs, counters>>

RequestInit ==
  /\ body \in Bodies
  /\ lastRequest = None /\ keys = 0 /\ submit = None
  /\ handling = {} /\ late = {} /\ records = [k \in RequestKeys |-> None] /\ runs = {}
  /\ streak = 0 /\ lapses = 0
  /\ notice = "nothing" /\ losses = 0

---------------------------------------------------------------------------
\* The form opens over the sites picked, afresh each time (bound: once the
\* request of the one before it is answered).
OpenForm ==
  /\ body = Shut /\ submit = None
  /\ body' \in Bodies
  /\ lastRequest' = None /\ streak' = 0 /\ lapses' = 0 /\ notice' = "nothing"
  /\ UNCHANGED <<keys, submit, handling, late, records, runs, losses>>

Fill(b) ==
  /\ body # Shut /\ b # body
  /\ body' = b
  /\ UNCHANGED <<lastRequest, keys, submit, late, serverVars, notice, losses>>

\* Bug variant: every press makes a key.
KeyedAfresh == keys < MaxKeys /\ keys' = keys + 1 /\ lastRequest' = [body |-> body, key |-> keys + 1]

\* The key of a press: the last one's while the request is the same.
Same == IF lastRequest = None THEN FALSE ELSE lastRequest.body = body
Keyed ==
  \/ Same /\ UNCHANGED <<lastRequest, keys>>
  \/ /\ ~Same /\ keys < MaxKeys
     /\ keys' = keys + 1 /\ lastRequest' = [body |-> body, key |-> keys + 1]

Press ==
  /\ body # Shut /\ submit = None
  /\ Keyed
  /\ submit' = [body |-> body, key |-> lastRequest'.key, failures |-> 0, state |-> "sent"]
  /\ streak' = IF Same THEN streak ELSE 0
  /\ lapses' = IF Same THEN lapses ELSE 0
  /\ UNCHANGED <<body, handling, late, records, runs, notice, losses>>

---------------------------------------------------------------------------
\* Bug variant: an expired record counts for nothing.
RecordInForce(k) == IF records[k] = None THEN FALSE ELSE ~records[k].expired

\* The first thing the middleware looks for.
RecordOf(k) == records[k] # None

\* A key it knows is answered from the record: an accepted request by its run,
\* if the user may still read it, and everything else by a refusal, expired
\* records included.
Replays(rec) == IF rec.status = "created" /\ ~rec.expired THEN {"created", "conflict"} ELSE {"conflict"}

\* A key it does not know gets a record, and is worked on.
Begin(k) ==
  /\ records' = [records EXCEPT ![k] = [status |-> "in flight", expired |-> FALSE]]
  /\ handling' = handling \cup {k}

Receive ==
  /\ submit # None
  /\ submit.state = "sent"
  /\ \/ /\ RecordOf(submit.key)
        /\ \E answer \in Replays(records[submit.key]) : submit' = [submit EXCEPT !.state = answer]
        /\ UNCHANGED <<handling, records>>
     \/ /\ ~RecordOf(submit.key)
        /\ Begin(submit.key)
        /\ submit' = [submit EXCEPT !.state = "waiting"]
  /\ UNCHANGED <<body, lastRequest, keys, late, runs, counters, notice, losses>>

\* A request its sender gave up arrives; nobody reads the answer.
ReceiveLate(k) ==
  /\ k \in late
  /\ late' = late \ {k}
  /\ \/ RecordOf(k) /\ UNCHANGED <<handling, records>>
     \/ ~RecordOf(k) /\ Begin(k)
  /\ UNCHANGED <<body, lastRequest, keys, submit, runs, counters, notice, losses>>

Answered(k, status) == IF submit # None /\ submit.key = k /\ submit.state = "waiting" THEN [submit EXCEPT !.state = status] ELSE submit

\* Work on a key is over, with a run or without.
Done(k, made) ==
  /\ k \in handling
  /\ handling' = handling \ {k}
  /\ runs' = runs \cup made
  /\ streak' = IF k \in made /\ lastRequest # None /\ lastRequest.key = k THEN streak + 1 ELSE streak
  /\ UNCHANGED <<body, lastRequest, keys, late, lapses, notice>>

\* The endpoint is done: the run is made, or refused, or the organization's
\* admission was busy; the answer's status is recorded whichever it was.
Process(k, status) ==
  /\ Done(k, IF status = "created" THEN {k} ELSE {})
  /\ records' = [records EXCEPT ![k].status = status]
  /\ submit' = Answered(k, status)
  /\ UNCHANGED losses

\* The process dies before the run was committed, or after it and before the
\* status was.
Die(k) ==
  /\ losses < MaxLosses
  /\ losses' = losses + 1
  /\ \E made \in SUBSET {k} : Done(k, made)
  /\ submit' = Answered(k, "lost")
  /\ UNCHANGED records

\* A record is 24 hours old: far longer than a request is worked on.
Expire(k) ==
  /\ records[k] # None /\ k \notin handling
  /\ ~records[k].expired
  /\ records' = [records EXCEPT ![k].expired = TRUE]
  /\ UNCHANGED <<body, lastRequest, keys, submit, handling, late, runs, counters, notice, losses>>

\* The cleanup deletes what has expired.
Expired == {k \in RequestKeys : records[k] # None /\ records[k].expired}

Cleanup ==
  /\ Expired # {}
  /\ records' = [k \in RequestKeys |-> IF k \in Expired THEN None ELSE records[k]]
  /\ IF lastRequest # None /\ lastRequest.key \in Expired
     THEN lapses < MaxLapses /\ lapses' = lapses + 1
     ELSE UNCHANGED lapses
  /\ UNCHANGED <<body, lastRequest, keys, submit, handling, late, runs, streak, notice, losses>>

\* The answer, or the wait for it, is cut off; a request still on its way may
\* arrive all the same.
Lose ==
  /\ submit # None /\ losses < MaxLosses
  /\ submit.state # "lost"
  /\ losses' = losses + 1
  /\ submit' = [submit EXCEPT !.state = "lost"]
  /\ late' = IF submit.state = "sent" THEN late \cup {submit.key} ELSE late
  /\ UNCHANGED <<body, lastRequest, keys, serverVars, notice>>

---------------------------------------------------------------------------
\* Accepted: the form closes and forgets its key.
Accept ==
  /\ submit # None
  /\ submit.state = "created"
  /\ submit' = None /\ body' = Shut /\ lastRequest' = None
  /\ notice' = "accepted"
  /\ UNCHANGED <<keys, late, serverVars, losses>>

\* A busy server is asked once more, with the same key.
Resend ==
  /\ submit # None
  /\ submit.state = "busy" /\ submit.failures < 1
  /\ submit' = [submit EXCEPT !.state = "sent", !.failures = @ + 1]
  /\ UNCHANGED <<body, lastRequest, keys, late, serverVars, notice, losses>>

Fail ==
  /\ submit # None
  /\ submit.state \in {"conflict", "refused", "lost"} \/ (submit.state = "busy" /\ submit.failures = 1)
  /\ submit' = None
  /\ notice' = submit.state
  /\ UNCHANGED <<body, lastRequest, keys, late, serverVars, losses>>

\* The dialog can be closed while its request is out, which goes on without it.
CloseForm ==
  /\ body # Shut
  /\ body' = Shut
  /\ UNCHANGED <<lastRequest, keys, submit, late, serverVars, notice, losses>>

RequestNext ==
  \/ OpenForm \/ Press \/ Receive \/ Lose \/ Accept \/ Resend \/ Fail \/ CloseForm \/ Cleanup
  \/ \E b \in Bodies : Fill(b)
  \/ \E k \in RequestKeys : Die(k) \/ ReceiveLate(k) \/ Expire(k) \/ \E status \in {"created", "refused", "busy"} : Process(k, status)

RequestSpec == RequestInit /\ [][RequestNext]_requestVars

---------------------------------------------------------------------------
\* Pressing again what was pressed before makes no second run while the service
\* remembers the request, whatever became of the answers (lost, late, never
\* recorded) and of the requests given up: a run more takes a cleanup that
\* deleted the record, a day later.  And what is answered as accepted has run.
OneRunPerRequest ==
  /\ streak <= 1 + lapses
  /\ submit # None => (submit.state = "created" => submit.key \in runs)
===========================================================================
