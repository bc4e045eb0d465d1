----------------------------- MODULE MatchRecords -----------------------------
(***************************************************************************)
(* The records of one match while they are used and deleted: the requests of *)
(* Tailoring, delete_job_match and delete_all_job_matches of                 *)
(* features/job_matching.py, and retries of the submission that find the     *)
(* match row and ensure its children.                                        *)
(***************************************************************************)
EXTENDS Tailoring

CONSTANTS
    Deletes,      \* deletion requests
    Resubmits     \* retries of the submission

VARIABLES
    del,    \* del[d]: the run of a deletion
    resub,  \* resub[s]: the point a retry has reached
    remade  \* a retry has created a child again

vars == <<tvars, del, resub, remade>>

\* todo: children listed and not yet deleted; version: the one the client names.
Deletion == [phase : {"new", "listing", "children", "deleted", "conflict", "missing",
                      "error"},
             todo : SUBSET Child, version : Nat]

TypeOK ==
    /\ TailoringTypeOK
    /\ del \in [Deletes -> Deletion]
    /\ resub \in [Resubmits -> {"new", "tailoring", "interview", "done"}]
    /\ remade \in BOOLEAN

Init ==
    /\ TailoringInit
    /\ del = [d \in Deletes |-> [phase |-> "new", todo |-> {}, version |-> 0]]
    /\ resub = [s \in Resubmits |-> "new"]
    /\ remade = FALSE

-----------------------------------------------------------------------------
(* Deletion.                                                                 *)

GotoDel(d, phase) == del' = [del EXCEPT ![d].phase = phase]

\* The client of delete_job_match names the version it has seen, maybe long ago;
\* delete_all_job_matches takes the one its query returns.
BeginDelete(d) ==
    /\ del[d].phase = "new"
    /\ IF match.status = "absent" THEN GotoDel(d, "missing")
       ELSE \E v \in 1..match.version :
              del' = [del EXCEPT ![d] = [phase |-> "listing", todo |-> {}, version |-> v]]
    /\ UNCHANGED <<tvars, resub, remade>>

\* The query of the children's partition.
ListChildren(d) ==
    /\ del[d].phase = "listing"
    /\ del' = [del EXCEPT ![d] = [phase |-> "children", version |-> @.version,
                                  todo |-> {c \in Child : child[c].status # "absent"}]]
    /\ UNCHANGED <<tvars, resub, remade>>

\* The listing is in the order of sk: INTERVIEW# before TAILORING#.
First(todo) == IF "interview" \in todo THEN "interview" ELSE "tailoring"

RemoveChild(c) == child' = [child EXCEPT ![c] = [status |-> "absent", by |-> NoRequest]]

\* Seeded bug: a child that cannot be deleted is passed over.
DeleteChild_PassesOver(d) ==
    /\ del[d].phase = "children"
    /\ del[d].todo # {}
    /\ del' = [del EXCEPT ![d].todo = @ \ {First(@)}]
    /\ RemoveChild(First(del[d].todo)) \/ UNCHANGED child
    /\ UNCHANGED <<match, dvars, event, idem, req, applied, faults, resub, remade>>

DeleteChild(d) ==
    /\ del[d].phase = "children"
    /\ del[d].todo # {}
    /\ LET c == First(del[d].todo) IN
       \/ /\ child[c].status # "absent"
          /\ RemoveChild(c)
          /\ del' = [del EXCEPT ![d].todo = @ \ {c}]
       \/ /\ child[c].status = "absent"
          /\ GotoDel(d, "conflict")
          /\ UNCHANGED child
    /\ UNCHANGED <<match, dvars, event, idem, req, applied, faults, resub, remade>>

\* Seeded bug: the refused deletion of the match is answered like the done one.
DeleteMatch_AnswersDone(d) ==
    /\ del[d].phase = "children"
    /\ del[d].todo = {}
    /\ GotoDel(d, "deleted")
    /\ \/ /\ match.status # "absent" /\ match.version = del[d].version
          /\ match' = [match EXCEPT !.status = "absent"]
       \/ /\ match.status = "absent" \/ match.version # del[d].version
          /\ UNCHANGED match
    /\ UNCHANGED <<child, dvars, event, idem, req, applied, faults, resub, remade>>

RemoveMatch(d) ==
    /\ match.status # "absent" /\ match.version = del[d].version
    /\ match' = [match EXCEPT !.status = "absent"]

DeleteMatch(d) ==
    /\ del[d].phase = "children"
    /\ del[d].todo = {}
    /\ \/ RemoveMatch(d) /\ GotoDel(d, "deleted")
       \/ /\ match.status = "absent" \/ match.version # del[d].version
          /\ GotoDel(d, "conflict")
          /\ UNCHANGED match
    /\ UNCHANGED <<child, dvars, event, idem, req, applied, faults, resub, remade>>

\* A call of the deletion raises, applied or not, or its Lambda dies.
DeleteFails(d) ==
    /\ del[d].phase \in {"listing", "children"}
    /\ Fault
    /\ GotoDel(d, "error")
    /\ \/ UNCHANGED <<match, child>>
       \/ /\ del[d].phase = "children" /\ del[d].todo = {}
          /\ RemoveMatch(d) /\ UNCHANGED child
       \/ /\ del[d].phase = "children" /\ del[d].todo # {}
          /\ RemoveChild(First(del[d].todo)) /\ UNCHANGED match
    /\ UNCHANGED <<dvars, event, idem, req, applied, resub, remade>>

-----------------------------------------------------------------------------
(* A retry of the submission that has read the match row.                    *)

ReadMatch(s) ==
    /\ resub[s] = "new"
    /\ match.status # "absent"
    /\ resub' = [resub EXCEPT ![s] = "tailoring"]
    /\ UNCHANGED <<tvars, del, remade>>

\* ensure_child_item; an existing child is of the same submission.
EnsureChild(s) ==
    /\ resub[s] \in Child
    /\ LET c == resub[s] IN
       IF child[c].status = "absent"
       THEN child' = [child EXCEPT ![c] = Waiting] /\ remade' = TRUE
       ELSE UNCHANGED <<child, remade>>
    /\ resub' = [resub EXCEPT ![s] = IF @ = "tailoring" THEN "interview" ELSE "done"]
    /\ UNCHANGED <<match, dvars, event, idem, req, applied, faults, del>>

-----------------------------------------------------------------------------

Next ==
    \/ TailoringNext /\ UNCHANGED <<del, resub, remade>>
    \/ \E d \in Deletes :
          BeginDelete(d) \/ ListChildren(d) \/ DeleteChild(d) \/ DeleteMatch(d)
            \/ DeleteFails(d)
    \/ \E s \in Resubmits : ReadMatch(s) \/ EnsureChild(s)

\* Requests, deletions and retries are finitely many, and so are the runs of
\* the workers.
Spec == Init /\ [][Next]_vars

-----------------------------------------------------------------------------
(* Properties.                                                               *)

\* "After the conditional business update succeeds, the outbox is activated to
\* PENDING" (update_item_and_put_outbox): whichever requests overlap, and however
\* the row is deleted and created again, an active event is that of a request
\* whose update was applied.
DispatchAfterUpdate == event.status = "PENDING" => event.by \in applied

Activating(r) == req[r] \in {"updating", "comparing", "activating"} /\ event.by = r

QueuedByRequest == row.status = "QUEUED_PENDING_DISPATCH" /\ row.by # NoRequest

\* Only a crash or a failed call leaves a tailoring that a request has queued
\* QUEUED_PENDING_DISPATCH with an event no publisher sees and no request about to
\* activate it.  (The worker of the match queues a child without an event: it sends
\* the message itself, between its two writes.)
StuckNeedsFault ==
    QueuedByRequest /\ event.status # "PENDING"
        => faults > 0 \/ \E r \in Requests : Activating(r)

\* A waiting tailoring whose event is taken makes every later request fail.  It
\* takes a fault, or a child that was deleted and created again under its match.
BlockedNeedsCause ==
    row.status = "waiting" /\ event.status # "none"
        => faults > 0 \/ remade \/ \E r \in Requests : Activating(r)

\* "Child records are removed before the parent so a failed child cleanup never
\* leaves invisible orphaned records behind" (delete_job_match_children): a child
\* outlives its match only if a retry of the submission had read the match.
OrphanNeedsResubmission ==
    match.status = "absent" /\ (\E c \in Child : child[c].status # "absent") => remade

\* A deletion removes the children before it finds whether it may remove the match
\* (delete_job_match, delete_job_match_children).  A kept match that lacks a child
\* is then the work of a deletion that is still in course or has answered with an
\* error: never one of a deletion that has answered 200 or 404.
StrippedNeedsAnswer ==
    match.status # "absent" /\ (\E c \in Child : child[c].status = "absent")
        => \E d \in Deletes : del[d].phase \in {"children", "conflict", "error"}

=============================================================================
