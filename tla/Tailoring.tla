------------------------------- MODULE Tailoring -------------------------------
(***************************************************************************)
(* POST of a resume tailoring: tailor_resume of features/resume_tailoring.py *)
(* with update_item_and_put_outbox of core/storage.py, on the tailoring row  *)
(* that the submission of the match has created.                             *)
(*                                                                           *)
(* The outbox event of a tailoring has a deterministic identity, so all      *)
(* requests for it meet in one event; its payloadHash contains the id of the *)
(* request that built it.  Reserving the idempotency key is one step here:   *)
(* Submission has its calls.                                                 *)
(*                                                                           *)
(* Every other action of a request is one call to DynamoDB, with the strong  *)
(* read of an event that a refused put is followed by: the identity it       *)
(* compares is never written again.                                          *)
(***************************************************************************)
EXTENDS Naturals

CONSTANTS
    Requests,    \* requests for the tailoring of one match
    Keys,        \* idempotency keys
    Key,         \* Key[r]: the key of request r
    NoRequest,
    MaxFaults    \* bound: crashes and failed calls in a behaviour

ASSUME TailoringAssumption ==
    /\ Key \in [Requests -> Keys]
    /\ NoRequest \notin Requests
    /\ MaxFaults \in Nat

VARIABLES
    match,    \* the row of the match
    child,    \* child[c]: the row of a child of the match
    dispatch, \* how far the worker of the match has come with its children
    sent,     \* children whose message that worker has sent
    event,    \* the outbox event of the tailoring
    idem,     \* idem[k]: the status of idempotency key k
    req,      \* req[r]: the point request r has reached
    applied,  \* requests whose update of the tailoring row was applied
    faults    \* crashes and failed calls so far

records == <<match, child, event, idem, applied>>
dvars == <<dispatch, sent>>
tvars == <<match, child, dvars, event, idem, req, applied, faults>>

Child == {"interview", "tailoring"}

\* processing stands for WORKER_PROCESSING too, failed for the terminal failures.
ChildStatus == {"absent", "waiting", "QUEUED_PENDING_DISPATCH", "processing",
                "FAILED_RETRYABLE", "completed", "failed"}
Supported == {"QUEUED_PENDING_DISPATCH", "processing", "FAILED_RETRYABLE", "completed"}
Absorbed == {"processing", "completed"}

InTry == {"reading", "preparing", "updating", "comparing", "activating",
          "rereading", "completing"}

\* turn: whose call of dispatch_child_job is next, or the last write of the match;
\* expected: the status the pending write is conditional on.
TailoringTypeOK ==
    /\ match \in [status : {"open", "completed", "absent"}, version : Nat]
    /\ child \in [Child -> [status : ChildStatus, by : Requests \cup {NoRequest}]]
    /\ dispatch \in [turn : Child \cup {"nobody", "match"},
                     step : {"read", "pend", "pendRaced", "send", "mark", "markRaced"},
                     expected : {"waiting", "FAILED_RETRYABLE"}]
    /\ sent \subseteq Child
    /\ event \in [status : {"none", "PREPARING", "PENDING"},
                  by : Requests \cup {NoRequest}]
    /\ idem \in [Keys -> {"none", "IN_PROGRESS", "COMPLETED", "FAILED_RETRYABLE"}]
    /\ req \in [Requests -> InTry \cup {"new", "reserving", "retrying", "done"}]
    /\ applied \subseteq Requests
    /\ faults \in 0..MaxFaults

Waiting == [status |-> "waiting", by |-> NoRequest]

Turn(who) == [turn |-> who, step |-> "read", expected |-> "waiting"]

\* The match and its children have been created: the worker has the match, or it
\* has completed it before workers dispatched the children of a match.
TailoringInit ==
    /\ \E status \in {"open", "completed"} :
          match = [status |-> status, version |-> IF status = "open" THEN 1 ELSE 2]
    /\ child = [c \in Child |-> Waiting]
    /\ dispatch = Turn("nobody")
    /\ sent = {}
    /\ event = [status |-> "none", by |-> NoRequest]
    /\ idem = [k \in Keys |-> "none"]
    /\ req = [r \in Requests |-> "new"]
    /\ applied = {}
    /\ faults = 0

Goto(r, phase) == req' = [req EXCEPT ![r] = phase]
Fault == faults < MaxFaults /\ faults' = faults + 1

\* Inside the try block an exception gives the reservation back.
Raise(r) == Goto(r, IF req[r] \in InTry THEN "retrying" ELSE "done")

row == child["tailoring"]

-----------------------------------------------------------------------------
(* The conditional writes.                                                   *)

PutPreparing(r) ==
    /\ event.status = "none"
    /\ event' = [status |-> "PREPARING", by |-> r]
    /\ UNCHANGED <<match, child, idem, applied>>

\* Seeded bug: the update leaves the status as it was.
SetPendingDispatch_KeepsStatus(r) ==
    /\ row.status = "waiting"
    /\ child' = [child EXCEPT !["tailoring"].by = r]
    /\ applied' = applied \cup {r}
    /\ UNCHANGED <<match, event, idem>>

SetPendingDispatch(r) ==
    /\ row.status = "waiting"
    /\ child' = [child EXCEPT !["tailoring"] =
                    [status |-> "QUEUED_PENDING_DISPATCH", by |-> r]]
    /\ applied' = applied \cup {r}
    /\ UNCHANGED <<match, event, idem>>

SetActive(r) ==
    /\ event = [status |-> "PREPARING", by |-> r]
    /\ event' = [event EXCEPT !.status = "PENDING"]
    /\ UNCHANGED <<match, child, idem, applied>>

\* complete_request and mark_request_retryable.
SetKey(r, status) ==
    /\ idem[Key[r]] = "IN_PROGRESS"
    /\ idem' = [idem EXCEPT ![Key[r]] = status]
    /\ UNCHANGED <<match, child, event, applied>>

-----------------------------------------------------------------------------
(* tailor_resume.                                                            *)

\* The match is read before the key is reserved.
Check(r) ==
    /\ req[r] = "new"
    /\ Goto(r, IF match.status = "completed" THEN "reserving" ELSE "done")
    /\ UNCHANGED <<records, faults>>

Reserve(r) ==
    /\ req[r] = "reserving"
    /\ \/ /\ idem[Key[r]] \in {"none", "FAILED_RETRYABLE"}
          /\ idem' = [idem EXCEPT ![Key[r]] = "IN_PROGRESS"]
          /\ Goto(r, "reading")
       \/ /\ idem[Key[r]] \in {"IN_PROGRESS", "COMPLETED"}
          /\ Goto(r, "done")
          /\ UNCHANGED idem
    /\ UNCHANGED <<match, child, event, applied, faults>>

Read(r) ==
    /\ req[r] = "reading"
    /\ CASE row.status = "waiting" -> Goto(r, "preparing")
         [] row.status \in Supported \cup {"absent"} -> Goto(r, "completing")
         [] row.status = "failed" -> Raise(r)
    /\ UNCHANGED <<records, faults>>

\* Seeded bug: any event with the identity of the tailoring passes.
SameEvent_Any(r) == TRUE

\* _same_outbox_event.
SameEvent(r) == event.by = r

Prepare(r) ==
    /\ req[r] = "preparing"
    /\ \/ PutPreparing(r) /\ Goto(r, "updating")
       \/ /\ event.status # "none"
          /\ Goto(r, IF SameEvent(r) THEN "updating" ELSE "rereading")
          /\ UNCHANGED records
    /\ UNCHANGED faults

Update(r) ==
    /\ req[r] = "updating"
    /\ \/ SetPendingDispatch(r) /\ Goto(r, "activating")
       \/ row.status # "waiting" /\ Goto(r, "comparing") /\ UNCHANGED records
    /\ UNCHANGED faults

\* Seeded bug: the update counts as done whoever has moved the row.
Compare_Unchecked(r) ==
    /\ req[r] = "comparing"
    /\ Goto(r, "activating")
    /\ UNCHANGED <<records, faults>>

\* The refused update is taken for done if updatedByRequestId names the request.
Compare(r) ==
    /\ req[r] = "comparing"
    /\ Goto(r, IF row.status # "absent" /\ row.by = r THEN "activating" ELSE "rereading")
    /\ UNCHANGED <<records, faults>>

Activate(r) ==
    /\ req[r] = "activating"
    /\ \/ SetActive(r) /\ Goto(r, "completing")
       \/ /\ event # [status |-> "PREPARING", by |-> r]
          /\ Goto(r, IF SameEvent(r) /\ event.status = "PENDING"
                     THEN "completing" ELSE "rereading")
          /\ UNCHANGED records
    /\ UNCHANGED faults

\* update_item_and_put_outbox returned False.  A row that is gone counts as the
\* waiting one that was read first.
Reread(r) ==
    /\ req[r] = "rereading"
    /\ IF row.status \in Supported THEN Goto(r, "completing") ELSE Raise(r)
    /\ UNCHANGED <<records, faults>>

\* complete_request with the answer: 202 or, for a missing row, 404.
Complete(r) ==
    /\ req[r] = "completing"
    /\ \/ SetKey(r, "COMPLETED") /\ Goto(r, "done")
       \/ /\ idem[Key[r]] # "IN_PROGRESS"
          /\ IF idem[Key[r]] = "COMPLETED" THEN Goto(r, "done") ELSE Raise(r)
          /\ UNCHANGED records
    /\ UNCHANGED faults

MarkRetryable(r) ==
    /\ req[r] = "retrying"
    /\ SetKey(r, "FAILED_RETRYABLE") \/ (idem[Key[r]] # "IN_PROGRESS" /\ UNCHANGED records)
    /\ Goto(r, "done")
    /\ UNCHANGED faults

Write(r) ==
    CASE req[r] = "preparing" -> PutPreparing(r)
      [] req[r] = "updating" -> SetPendingDispatch(r)
      [] req[r] = "activating" -> SetActive(r)
      [] req[r] = "completing" -> SetKey(r, "COMPLETED")
      [] req[r] = "retrying" -> SetKey(r, "FAILED_RETRYABLE")
      [] OTHER -> FALSE

Running(r) == req[r] \in InTry \cup {"retrying"}

\* A call raises, applied or not.
CallFails(r) ==
    /\ Running(r)
    /\ Fault
    /\ Write(r) \/ UNCHANGED records
    /\ Raise(r)

\* The Lambda dies or times out.
Crash(r) ==
    /\ Running(r)
    /\ Fault
    /\ Goto(r, "done")
    /\ UNCHANGED records

-----------------------------------------------------------------------------
(* The workers of the match and of its children, as far as the rows show.    *)

\* A claim of the match from RESULT_READY.  Runs of one match do not overlap: the
\* lease outlives a run.
BeginDispatch ==
    /\ match.status = "open"
    /\ dispatch.turn = "nobody"
    /\ dispatch' = Turn("tailoring")
    /\ UNCHANGED <<match, child, sent, event, idem, req, applied, faults>>

Dispatching(c, step) == dispatch.turn = c /\ dispatch.step = step

StepTo(step) == dispatch' = [dispatch EXCEPT !.step = step]

\* The tailoring is dispatched before the interview preparation.
NextTurn == dispatch' = Turn(IF dispatch.turn = "tailoring" THEN "interview" ELSE "match")

\* The run raises; a later one begins again.
Stop == dispatch' = Turn("nobody")

SetStatus(c, status) == child' = [child EXCEPT ![c].status = status]

ReadChild(c) ==
    LET status == child[c].status IN
    /\ Dispatching(c, "read")
    /\ CASE status \in Absorbed -> NextTurn
         [] status = "QUEUED_PENDING_DISPATCH" -> StepTo("send")
         [] status \in {"waiting", "FAILED_RETRYABLE"} ->
               dispatch' = [dispatch EXCEPT !.step = "pend", !.expected = status]
         [] status \in {"absent", "failed"} -> Stop
    /\ UNCHANGED <<match, child, sent, event, idem, req, applied, faults>>

PendChild(c) ==
    /\ Dispatching(c, "pend")
    /\ \/ /\ child[c].status = dispatch.expected
          /\ SetStatus(c, "QUEUED_PENDING_DISPATCH")
          /\ StepTo("send")
       \/ /\ child[c].status # dispatch.expected
          /\ StepTo("pendRaced")
          /\ UNCHANGED child
    /\ UNCHANGED <<match, sent, event, idem, req, applied, faults>>

SendChild(c) ==
    /\ Dispatching(c, "send")
    /\ sent' = sent \cup {c}
    /\ StepTo("mark")
    /\ UNCHANGED <<match, child, event, idem, req, applied, faults>>

MarkChild(c) ==
    /\ Dispatching(c, "mark")
    /\ \/ /\ child[c].status = "QUEUED_PENDING_DISPATCH"
          /\ SetStatus(c, "processing")
          /\ NextTurn
       \/ /\ child[c].status # "QUEUED_PENDING_DISPATCH"
          /\ StepTo("markRaced")
          /\ UNCHANGED child
    /\ UNCHANGED <<match, sent, event, idem, req, applied, faults>>

\* The read after a refused write of the child.
ReadAgain(c) ==
    LET status == child[c].status IN
    /\ Dispatching(c, "pendRaced") \/ Dispatching(c, "markRaced")
    /\ CASE status \in Absorbed -> NextTurn
         [] status = "QUEUED_PENDING_DISPATCH" /\ dispatch.step = "pendRaced" -> StepTo("send")
         [] OTHER -> Stop
    /\ UNCHANGED <<match, child, sent, event, idem, req, applied, faults>>

\* A call of the run raises or its Lambda dies; a call that was applied and raises
\* is the step of that call followed by this one.
DispatchFails ==
    /\ dispatch.turn # "nobody"
    /\ Fault
    /\ Stop
    /\ UNCHANGED <<match, child, sent, event, idem, req, applied>>

CompleteMatch ==
    /\ dispatch.turn = "match"
    /\ IF match.status = "open"
       THEN match' = [match EXCEPT !.status = "completed", !.version = @ + 1]
       ELSE UNCHANGED match
    /\ Stop
    /\ UNCHANGED <<child, sent, event, idem, req, applied, faults>>

DispatchStep(c) ==
    ReadChild(c) \/ PendChild(c) \/ SendChild(c) \/ MarkChild(c) \/ ReadAgain(c)

\* A worker that holds a message of the tailoring claims its row, or ends its run.
\* Of the interview preparation only its existence and its dispatch matter.
TailoringWorks ==
    /\ "tailoring" \in sent \/ event.status = "PENDING"
    /\ \/ /\ row.status \in {"waiting", "QUEUED_PENDING_DISPATCH", "FAILED_RETRYABLE"}
          /\ SetStatus("tailoring", "processing")
       \/ /\ row.status = "processing"
          /\ \E s \in {"FAILED_RETRYABLE", "completed", "failed"} : SetStatus("tailoring", s)
    /\ UNCHANGED <<match, dvars, event, idem, req, applied, faults>>

RequestStep(r) ==
    \/ Check(r)
    \/ Reserve(r)
    \/ Read(r)
    \/ Prepare(r)
    \/ Update(r)
    \/ Compare(r)
    \/ Activate(r)
    \/ Reread(r)
    \/ Complete(r)
    \/ MarkRetryable(r)
    \/ CallFails(r)
    \/ Crash(r)

TailoringNext ==
    \/ \E r \in Requests : RequestStep(r) /\ UNCHANGED dvars
    \/ BeginDispatch
    \/ \E c \in Child : DispatchStep(c)
    \/ DispatchFails
    \/ CompleteMatch
    \/ TailoringWorks

=============================================================================
