------------------------------ MODULE Submission ------------------------------
(***************************************************************************)
(* POST of a job match: match_job_description of features/job_matching.py,   *)
(* with the reservation of core/idempotency.py and the staged create of      *)
(* core/storage.py (put_items_and_outbox_if_absent).                         *)
(*                                                                           *)
(* Requests are the HTTP requests of one user that carry one Idempotency-Key:*)
(* the first one and the client's retries, in any order and overlapping.     *)
(* Each has an API request id of its own and proposes a match id of its own, *)
(* so requests stand for both.  The payload of the outbox event contains the *)
(* request id: its payloadHash is that of the request that built it.         *)
(*                                                                           *)
(* Every action is one call to DynamoDB.  A conditional put that finds the   *)
(* record and the strongly consistent read that follows are one action: what *)
(* that read compares is never written again.                                *)
(***************************************************************************)
EXTENDS Naturals, Sequences, FiniteSets

CONSTANTS
    Requests,   \* requests with the same idempotency key
    Bodies,     \* request hashes
    Body,       \* Body[r]: the hash of the body of request r
    MaxFaults   \* bound: crashes, failed and repeated calls in a behaviour

ASSUME SubmissionAssumption ==
    /\ Body \in [Requests -> Bodies]
    /\ "absent" \notin Bodies
    /\ MaxFaults \in Nat

VARIABLES
    idem,       \* the idempotency record
    outbox,     \* outbox[x]: the outbox event of match x
    rows,       \* rows[x][i]: createdByRequestHash of business record i of match x
    failed,     \* matches whose row a worker has moved to a failed status
    req,        \* req[r]: the run of match_job_description for r
    reply,      \* reply[r]: what the client of r was told
    faults      \* crashes, failed and repeated calls so far

vars == <<idem, outbox, rows, failed, req, reply, faults>>

\* The records of one match, in the order in which they are created.
Items == <<"match", "tailoring", "interview">>
Item == {"match", "tailoring", "interview"}
Absent == "absent"

Submitting == {"lookup", "preparing", "creating", "activating", "inspecting",
               "ensuring", "completing", "retrying"}

Reply == [kind : {"none", "accepted", "processing", "conflict", "error"},
          resource : Requests]

\* next is the business record the run has come to.
Run == [phase : Submitting \cup
            {"new", "reserving", "reading", "reacquiring", "rereading", "done"},
        resource : Requests, next : 1..3, stale : BOOLEAN]

TypeOK ==
    /\ idem \in [status : {"none", "IN_PROGRESS", "COMPLETED", "FAILED_RETRYABLE"},
                 hash : Bodies, resource : Requests]
    /\ outbox \in [Requests -> [status : {"absent", "PREPARING", "PENDING"},
                                by : Requests]]
    /\ rows \in [Requests -> [Item -> Bodies \cup {Absent}]]
    /\ failed \subseteq Requests
    /\ req \in [Requests -> Run]
    /\ reply \in [Requests -> Reply]
    /\ faults \in 0..MaxFaults

\* Without a record, its hash and resource mean nothing.
Init ==
    /\ \E x \in Requests, b \in Bodies :
          idem = [status |-> "none", hash |-> b, resource |-> x]
    /\ outbox = [x \in Requests |-> [status |-> "absent", by |-> x]]
    /\ rows = [x \in Requests |-> [i \in Item |-> Absent]]
    /\ failed = {}
    /\ req = [r \in Requests |-> [phase |-> "new", resource |-> r, next |-> 1,
                                  stale |-> FALSE]]
    /\ reply = [r \in Requests |-> [kind |-> "none", resource |-> r]]
    /\ faults = 0

Goto(r, phase) == req' = [req EXCEPT ![r].phase = phase] /\ UNCHANGED reply
Answer(r, kind) ==
    /\ req' = [req EXCEPT ![r].phase = "done"]
    /\ reply' = [reply EXCEPT ![r] = [kind |-> kind, resource |-> idem.resource]]
Fault == faults < MaxFaults /\ faults' = faults + 1

\* The call raises: inside the try block the reservation is given back, in
\* reserve_request and in mark_request_retryable the client gets the error.
Raise(r) ==
    IF req[r].phase \in Submitting \ {"retrying"}
    THEN Goto(r, "retrying") ELSE Answer(r, "error")

records == <<idem, outbox, rows, failed>>

-----------------------------------------------------------------------------
(* The conditional writes.                                                   *)

PutReservation(r) ==
    /\ idem.status = "none"
    /\ idem' = [status |-> "IN_PROGRESS", hash |-> Body[r], resource |-> r]
    /\ UNCHANGED <<outbox, rows, failed>>

SetReacquired(r) ==
    /\ idem.status = "FAILED_RETRYABLE" /\ idem.hash = Body[r]
    /\ idem' = [idem EXCEPT !.status = "IN_PROGRESS"]
    /\ UNCHANGED <<outbox, rows, failed>>

\* Seeded bug: the outcome is recorded whatever the status of the key.
HoldsKey_AnyStatus(r) == idem.hash = Body[r] /\ idem.resource = req[r].resource

\* complete_request and mark_request_retryable.
HoldsKey(r) ==
    /\ idem.status = "IN_PROGRESS"
    /\ idem.hash = Body[r]
    /\ idem.resource = req[r].resource

SetCompleted(r) ==
    /\ HoldsKey(r)
    /\ idem' = [idem EXCEPT !.status = "COMPLETED"]
    /\ UNCHANGED <<outbox, rows, failed>>

SetRetryable(r) ==
    /\ HoldsKey(r)
    /\ idem' = [idem EXCEPT !.status = "FAILED_RETRYABLE"]
    /\ UNCHANGED <<outbox, rows, failed>>

Event(r) == outbox[req[r].resource]

\* Seeded bug: the event is created active.
PutPreparing_Active(r) ==
    /\ Event(r).status = "absent"
    /\ outbox' = [outbox EXCEPT ![req[r].resource] = [status |-> "PENDING", by |-> r]]
    /\ UNCHANGED <<idem, rows, failed>>

PutPreparing(r) ==
    /\ Event(r).status = "absent"
    /\ outbox' = [outbox EXCEPT ![req[r].resource] = [status |-> "PREPARING", by |-> r]]
    /\ UNCHANGED <<idem, rows, failed>>

\* _same_outbox_event compares the payload hashes.
SameEvent(r) == Event(r).by = r

Record(r) == rows[req[r].resource][Items[req[r].next]]

PutItem(r) ==
    /\ Record(r) = Absent
    /\ rows' = [rows EXCEPT ![req[r].resource][Items[req[r].next]] = Body[r]]
    /\ UNCHANGED <<idem, outbox, failed>>

SameCreation(r) == Record(r) = Body[r]

SetPending(r) ==
    /\ Event(r).status = "PREPARING" /\ SameEvent(r)
    /\ outbox' = [outbox EXCEPT ![req[r].resource].status = "PENDING"]
    /\ UNCHANGED <<idem, rows, failed>>

-----------------------------------------------------------------------------
(* reserve_request.                                                          *)

Arrive(r) ==
    /\ req[r].phase = "new"
    /\ Goto(r, "reserving")
    /\ UNCHANGED <<records, faults>>

Reserve(r) ==
    /\ req[r].phase = "reserving"
    /\ \/ PutReservation(r) /\ Goto(r, "lookup")
       \/ idem.status # "none" /\ Goto(r, "reading") /\ UNCHANGED records
    /\ UNCHANGED faults

ReadExisting(r) ==
    /\ req[r].phase = "reading"
    /\ IF idem.hash # Body[r] THEN Answer(r, "conflict")
       ELSE CASE idem.status = "COMPLETED" -> Answer(r, "accepted")
              [] idem.status = "FAILED_RETRYABLE" -> Goto(r, "reacquiring")
              [] OTHER -> Answer(r, "processing")
    /\ UNCHANGED <<records, faults>>

\* Seeded bug: the retry goes on with the match id it has proposed itself.
TryReacquire_OwnId(r) ==
    /\ req[r].phase = "reacquiring"
    /\ \/ SetReacquired(r) /\ Goto(r, "lookup")
       \/ /\ idem.status # "FAILED_RETRYABLE"
          /\ Goto(r, "rereading")
          /\ UNCHANGED records
    /\ UNCHANGED faults

TryReacquire(r) ==
    /\ req[r].phase = "reacquiring"
    /\ \/ /\ SetReacquired(r)
          /\ req' = [req EXCEPT ![r] = [phase |-> "lookup", resource |-> idem.resource,
                                        next |-> @.next, stale |-> @.stale]]
          /\ UNCHANGED reply
       \/ /\ idem.status # "FAILED_RETRYABLE"
          /\ Goto(r, "rereading")
          /\ UNCHANGED records
    /\ UNCHANGED faults

\* Whatever it is, a record that is not completed is answered as in progress.
ReadAgain(r) ==
    /\ req[r].phase = "rereading"
    /\ Answer(r, IF idem.status = "COMPLETED" THEN "accepted" ELSE "processing")
    /\ UNCHANGED <<records, faults>>

-----------------------------------------------------------------------------
(* The try block.                                                            *)

MatchRow(r) == rows[req[r].resource]["match"]

\* Seeded bug: the children of an existing match are taken for granted.
EnsureChildren_Assumed(r) == Goto(r, "completing")

\* Creating the records continues with the children of an existing match.
EnsureChildren(r) ==
    /\ req' = [req EXCEPT ![r] = [phase |-> "ensuring", resource |-> @.resource,
                                  next |-> 2, stale |-> @.resource \in failed]]
    /\ UNCHANGED reply

Lookup(r) ==
    /\ req[r].phase = "lookup"
    /\ CASE MatchRow(r) = Absent -> Goto(r, "preparing")
         [] MatchRow(r) = Body[r] -> EnsureChildren(r)
         [] OTHER -> Raise(r)
    /\ UNCHANGED <<records, faults>>

EnsurePrepared(r) ==
    /\ req[r].phase = "preparing"
    /\ \/ PutPreparing(r) /\ Goto(r, "creating")
       \/ /\ Event(r).status # "absent"
          /\ Goto(r, IF SameEvent(r) THEN "creating" ELSE "inspecting")
          /\ UNCHANGED records
    /\ UNCHANGED faults

\* After the record next the create goes on, or leaves the loop for phase.
NextItem(r, phase) ==
    /\ IF req[r].next = Len(Items) THEN req' = [req EXCEPT ![r].phase = phase]
       ELSE req' = [req EXCEPT ![r].next = @ + 1]
    /\ UNCHANGED reply

\* Seeded bug: the last record completes the submission, without activation.
EnsureItem_Unactivated(r) ==
    /\ req[r].phase = "creating"
    /\ \/ PutItem(r) /\ NextItem(r, "completing")
       \/ /\ Record(r) # Absent
          /\ IF SameCreation(r) THEN NextItem(r, "completing") ELSE Goto(r, "inspecting")
          /\ UNCHANGED records
    /\ UNCHANGED faults

EnsureItem(r) ==
    /\ req[r].phase = "creating"
    /\ \/ PutItem(r) /\ NextItem(r, "activating")
       \/ /\ Record(r) # Absent
          /\ IF SameCreation(r) THEN NextItem(r, "activating") ELSE Goto(r, "inspecting")
          /\ UNCHANGED records
    /\ UNCHANGED faults

\* An event already active, and the same, counts as activated.
Activate(r) ==
    /\ req[r].phase = "activating"
    /\ \/ SetPending(r) /\ Goto(r, "completing")
       \/ /\ ~(Event(r).status = "PREPARING" /\ SameEvent(r))
          /\ Goto(r, IF SameEvent(r) /\ Event(r).status = "PENDING"
                     THEN "completing" ELSE "inspecting")
          /\ UNCHANGED records
    /\ UNCHANGED faults

\* put_items_and_outbox_if_absent returned False: the match is read again.
Inspect(r) ==
    /\ req[r].phase = "inspecting"
    /\ IF MatchRow(r) = Body[r] THEN EnsureChildren(r) ELSE Raise(r)
    /\ UNCHANGED <<records, faults>>

\* ensure_child_item; at the end the status of the match is tested as it was read.
EnsureChild(r) ==
    /\ req[r].phase = "ensuring"
    /\ LET phase == IF req[r].stale THEN "retrying" ELSE "completing" IN
       \/ PutItem(r) /\ NextItem(r, phase)
       \/ /\ Record(r) # Absent
          /\ IF SameCreation(r) THEN NextItem(r, phase) ELSE Raise(r)
          /\ UNCHANGED records
    /\ UNCHANGED faults

Complete(r) ==
    /\ req[r].phase = "completing"
    /\ \/ SetCompleted(r) /\ Answer(r, "accepted")
       \/ /\ ~HoldsKey(r)
          /\ IF /\ idem.status = "COMPLETED" /\ idem.hash = Body[r]
                /\ idem.resource = req[r].resource
             THEN Answer(r, "accepted") ELSE Raise(r)
          /\ UNCHANGED records
    /\ UNCHANGED faults

\* mark_request_retryable ignores a refused condition; the error is raised again.
MarkRetryable(r) ==
    /\ req[r].phase = "retrying"
    /\ SetRetryable(r) \/ (~HoldsKey(r) /\ UNCHANGED records)
    /\ Answer(r, "error")
    /\ UNCHANGED faults

-----------------------------------------------------------------------------
(* Faults, and the rest of the system.                                       *)

\* The write the run is about to make, if its condition holds.
Write(r) ==
    CASE req[r].phase = "reserving" -> PutReservation(r)
      [] req[r].phase = "reacquiring" -> SetReacquired(r)
      [] req[r].phase = "preparing" -> PutPreparing(r)
      [] req[r].phase \in {"creating", "ensuring"} -> PutItem(r)
      [] req[r].phase = "activating" -> SetPending(r)
      [] req[r].phase = "completing" -> SetCompleted(r)
      [] req[r].phase = "retrying" -> SetRetryable(r)
      [] OTHER -> FALSE

Running(r) == req[r].phase \notin {"new", "done"}

\* A call raises, applied or not.
CallFails(r) ==
    /\ Running(r)
    /\ Fault
    /\ Write(r) \/ UNCHANGED records
    /\ Raise(r)

\* The SDK loses the response and sends the write again.
Resend(r) ==
    /\ Running(r)
    /\ Fault
    /\ Write(r)
    /\ UNCHANGED <<req, reply>>

\* The Lambda dies or times out: the client gets no answer from the code.
Crash(r) ==
    /\ Running(r)
    /\ Fault
    /\ Goto(r, "done")
    /\ UNCHANGED records

\* A worker moves the match to a status a submission does not support.
WorkerFails(x) ==
    /\ outbox[x].status = "PENDING"
    /\ x \notin failed
    /\ failed' = failed \cup {x}
    /\ UNCHANGED <<idem, outbox, rows, req, reply, faults>>

RequestStep(r) ==
    \/ Reserve(r)
    \/ ReadExisting(r)
    \/ TryReacquire(r)
    \/ ReadAgain(r)
    \/ Lookup(r)
    \/ EnsurePrepared(r)
    \/ EnsureItem(r)
    \/ Activate(r)
    \/ Inspect(r)
    \/ EnsureChild(r)
    \/ Complete(r)
    \/ MarkRetryable(r)

Next ==
    \E r \in Requests :
        \/ Arrive(r)
        \/ RequestStep(r)
        \/ CallFails(r)
        \/ Resend(r)
        \/ Crash(r)
        \/ WorkerFails(r)

\* Every request is answered or dies, and there are finitely many of them.
Terminated == (\A r \in Requests : req[r].phase = "done") /\ UNCHANGED vars

Spec == Init /\ [][Next \/ Terminated]_vars

-----------------------------------------------------------------------------
(* Properties.                                                               *)

\* One key names one match: retries that overlap, resume or race for the
\* reservation never create records or events of a second match, and no client
\* is told of one.
OneMatchPerKey ==
    \A x \in Requests :
        \/ outbox[x].status # "absent"
        \/ \E i \in Item : rows[x][i] # Absent
        \/ \E r \in Requests :
              reply[r].kind \in {"accepted", "processing"} /\ reply[r].resource = x
        => idem.status # "none" /\ x = idem.resource

\* "The publisher cannot observe the outbox record until all business records
\* are present" (put_items_and_outbox_if_absent).
DispatchAfterRecords ==
    \A x \in Requests :
        outbox[x].status = "PENDING" => \A i \in Item : rows[x][i] # Absent

\* A completed key has the match and both its children, whichever requests
\* created them and whichever path completed it; so has every client that was
\* told its submission was accepted.
CompletedHasRecords ==
    /\ idem.status = "COMPLETED" => \A i \in Item : rows[idem.resource][i] = idem.hash
    /\ (\E r \in Requests : reply[r].kind = "accepted") => idem.status = "COMPLETED"

\* Only a crash or a failed or repeated call can leave a key IN_PROGRESS with no
\* request working for it, or complete it without activating its event.
LossNeedsFault ==
    faults = 0 =>
        /\ idem.status = "IN_PROGRESS" => \E r \in Requests : req[r].phase \in Submitting
        /\ idem.status = "COMPLETED" => outbox[idem.resource].status = "PENDING"

\* Once completed, a key answers every later request with the stored reply: no
\* late or failing request reopens it.
CompletedIsFinal ==
    [][idem.status = "COMPLETED" => idem' = idem]_vars

\* "A retry can safely resume after any stage" (put_items_and_outbox_if_absent):
\* a submission the API reports as accepted is one the publisher will dispatch.
AcceptedIsDispatched ==
    idem.status = "COMPLETED" => outbox[idem.resource].status = "PENDING"

=============================================================================
