------------------------------- MODULE Placement -------------------------------
(***************************************************************************)
(* Work in an active-active deployment: where it is submitted, who owns it,  *)
(* through which region's publisher and into which region's queue its        *)
(* message goes, and where a worker accepts it.                              *)
(*                                                                           *)
(* The table is one (strongly consistent) global table; each site has a      *)
(* queue, a publisher, a dispatcher and workers.  A job match has one child, *)
(* its tailoring.  How a publisher, a dispatcher and a worker work on one    *)
(* row is in Outbox, WorkflowDispatch and Worker: here each of their         *)
(* invocations for one row is a step.  Their counters are there too: here    *)
(* any attempt that fails may be the last one a limit allows.                *)
(***************************************************************************)
EXTENDS Naturals, FiniteSets, Regions, RegionalHealth, WorkflowState

CONSTANTS
    Sites,        \* the regions with a deployed site
    Analyses,     \* uploaded resume analyses
    Matches,      \* job matches
    Tailoring,    \* Tailoring[m]: the tailoring of match m
    MaxSubmitted, \* bound: analyses and matches in a behaviour
    MaxReplaced,  \* bound: children deleted and created again in a behaviour
    MaxOutages,   \* bound: failures of a dependency in a behaviour
    MaxFaults     \* bound: failed runs and lost results in a behaviour

Children == {Tailoring[m] : m \in Matches}
Works == Analyses \cup Matches \cup Children

ASSUME PlacementAssumption ==
    /\ Sites \subseteq Configured
    /\ Analyses \cap Matches = {}
    /\ \A m \in Matches : Tailoring[m] \notin Analyses \cup Matches
    /\ \A m, n \in Matches : Tailoring[m] = Tailoring[n] => m = n
    /\ MaxSubmitted \in Nat /\ MaxReplaced \in Nat
    /\ MaxOutages \in Nat /\ MaxFaults \in Nat

VARIABLES
    row,       \* row[w]: the record of w
    event,     \* event[w]: its outbox event
    queue,     \* queue[r]: messages of the processing queue of site r
    dead,      \* dead[r]: messages of its dead-letter queue
    deps,      \* deps[r]: the services of region r that answer
    report,    \* report[r]: the last answer of the readiness endpoint of r
    workedIn,  \* workedIn[w]: sites whose workers have claimed the row
    crossed,   \* works asked for in another region than their row names
    replaced,  \* children created again so far
    outages,   \* failures of a dependency so far
    faults     \* failed runs and lost results so far

vars == <<row, event, queue, dead, deps, report, workedIn, crossed, replaced,
          outages, faults>>

Message == [work : Works, owner : MaybeRegion]

\* WORKER_PROCESSING is a row a dead run has left, RESULT_READY one its last
\* delivery has left; FAILED_PERMANENT stands for both terminal failures.
Status == {"absent", "waiting", "QUEUED_PENDING_DISPATCH", "QUEUED", "processing",
           "WORKER_PROCESSING", "RESULT_READY", "FAILED_RETRYABLE",
           "FAILED_PERMANENT", "completed"}

TypeOK ==
    /\ row \in [Works -> [status : Status, owner : MaybeRegion, created : MaybeRegion]]
    /\ event \in [Works -> [status : {"none", "PENDING", "DELIVERED", "FAILED_PERMANENT"},
                            owner : MaybeRegion]]
    /\ queue \in [Sites -> SUBSET Message]
    /\ dead \in [Sites -> SUBSET Message]
    /\ deps \in [Sites -> SUBSET Dependencies]
    /\ report \in [Sites -> [code : {200, 503},
                             health : {"HEALTHY", "DEGRADED", "UNAVAILABLE", "UNKNOWN"}]]
    /\ workedIn \in [Works -> SUBSET Sites]
    /\ crossed \subseteq Works
    /\ replaced \in 0..MaxReplaced
    /\ outages \in 0..MaxOutages
    /\ faults \in 0..MaxFaults

NoRow == [status |-> "absent", owner |-> None, created |-> None]
LegacyRow(status, site) == [status |-> status, owner |-> None, created |-> site]

\* The matches of legacy are of the time before ownerRegion: they wait in the
\* outbox, and no field of theirs names an owner.
InitialRecords(legacy, created) ==
    /\ row = [w \in Works |->
          IF w \in legacy THEN LegacyRow("QUEUED_PENDING_DISPATCH", created[w])
          ELSE IF \E m \in legacy : w = Tailoring[m]
               THEN LegacyRow("waiting", created[CHOOSE m \in legacy : w = Tailoring[m]])
               ELSE NoRow]
    /\ event = [w \in Works |->
          [status |-> IF w \in legacy THEN "PENDING" ELSE "none", owner |-> None]]

Init ==
    /\ \E legacy \in SUBSET Matches : \E created \in [legacy -> Sites] :
          InitialRecords(legacy, created)
    /\ queue = [r \in Sites |-> {}]
    /\ dead = [r \in Sites |-> {}]
    /\ deps = [r \in Sites |-> Dependencies]
    /\ report = [r \in Sites |-> ready(Dependencies)]
    /\ workedIn = [w \in Works |-> {}]
    /\ crossed = {}
    /\ replaced = 0 /\ outages = 0 /\ faults = 0

Fault == faults < MaxFaults /\ faults' = faults + 1

services == <<deps, report, outages>>
history == <<workedIn, crossed, replaced>>

-----------------------------------------------------------------------------
(* Submission.                                                               *)

\* Route 53 sends a request to a site whose readiness endpoint answered 200; the
\* handler needs the table.
Serves(r) == report[r].code = 200 /\ "dynamodb" \in deps[r]

Submitted == {w \in Analyses \cup Matches : row[w].status # "absent"}

\* Works share the services of the sites and nothing else.
IsNew(w) == row[w].status = "absent" /\ Cardinality(Submitted) < MaxSubmitted

Cross(works) == crossed' = crossed \cup works

\* The row of a match names no owner: item_with_owner_region takes the region of
\* the request.  The event takes the override.
SubmitMatch(r, m, override) ==
    /\ Serves(r)
    /\ IsNew(m)
    /\ row' = [row EXCEPT
            ![m] = [status |-> "QUEUED_PENDING_DISPATCH", owner |-> OwnerOf(None, r),
                    created |-> r],
            ![Tailoring[m]] = [status |-> "waiting", owner |-> OwnerOf(None, r),
                               created |-> r]]
    /\ event' = [event EXCEPT ![m] = [status |-> "PENDING",
                                      owner |-> OwnerOf(override, r)]]
    /\ Cross(IF OwnerOf(override, r) # r THEN {m} ELSE {})
    /\ UNCHANGED <<queue, dead, services, workedIn, replaced, faults>>

\* analyze_uploaded_resume: no outbox event, the row lists itself under its owner.
SubmitAnalysis(r, a, override) ==
    /\ Serves(r)
    /\ IsNew(a)
    /\ row' = [row EXCEPT ![a] = [status |-> "QUEUED_PENDING_DISPATCH",
                                  owner |-> OwnerOf(override, r), created |-> r]]
    /\ UNCHANGED <<event, queue, dead, services, history, faults>>

\* delete_job_match removes the children before a version conflict saves the
\* match; a retry of the submission then creates them again.
ReplaceChild(r, m) ==
    /\ Serves(r)
    /\ replaced < MaxReplaced
    /\ replaced' = replaced + 1
    /\ row[m].status # "absent"
    /\ row' = [row EXCEPT ![Tailoring[m]] =
                [status |-> "waiting", owner |-> OwnerOf(None, r), created |-> r]]
    /\ workedIn' = [workedIn EXCEPT ![Tailoring[m]] = {}]
    /\ Cross(IF r = row[Tailoring[m]].owner THEN {} ELSE {Tailoring[m]})
    /\ UNCHANGED <<event, queue, dead, services, faults>>

\* tailor_resume: the event is owned by the region that serves the request.  The
\* event of an earlier request for the same tailoring makes it fail.
TailorResume(r, m) ==
    LET t == Tailoring[m] IN
    /\ Serves(r)
    /\ row[m].status = "completed"
    /\ row[t].status = "waiting"
    /\ event[t].status = "none"
    /\ row' = [row EXCEPT ![t].status = "QUEUED_PENDING_DISPATCH"]
    /\ event' = [event EXCEPT ![t] = [status |-> "PENDING", owner |-> OwnerOf(None, r)]]
    /\ Cross(IF row[t].owner \in {None, r} THEN {} ELSE {t})
    /\ UNCHANGED <<queue, dead, services, workedIn, replaced, faults>>

-----------------------------------------------------------------------------
(* Dispatch.                                                                 *)

Reachable == {r \in Sites : "sqs" \in deps[r]}

Send(target, w, owner) ==
    queue' = [queue EXCEPT ![target] = @ \cup {[work |-> w, owner |-> owner]}]

SetEvent(w, status) == event' = [event EXCEPT ![w].status = status]

\* The publisher of site r works on the event of w.  The result of a delivery
\* can be lost: the event is retried, or has had its last attempt.
PublishEvent(r, w) ==
    LET target == publish(r, event[w].owner, Reachable) IN
    /\ "dynamodb" \in deps[r]
    /\ event[w].status = "PENDING"
    /\ target # None
    /\ Send(target, w, event[w].owner)
    /\ \/ SetEvent(w, "DELIVERED") /\ UNCHANGED faults
       \/ Fault /\ (UNCHANGED event \/ SetEvent(w, "FAILED_PERMANENT"))
    /\ UNCHANGED <<row, dead, services, history>>

\* The last attempt finds no queue it may send to, or fails.
PublishFails(r, w) ==
    /\ "dynamodb" \in deps[r]
    /\ event[w].status = "PENDING"
    /\ \/ publish(r, event[w].owner, Reachable) = None /\ UNCHANGED faults
       \/ Fault
    /\ SetEvent(w, "FAILED_PERMANENT")
    /\ UNCHANGED <<row, queue, dead, services, history>>

\* Seeded bug: the dispatcher reads the partitions of all regions.
DispatchAnalysis_AnyPartition(r, a) ==
    /\ deps[r] = Dependencies
    /\ row[a].status = "QUEUED_PENDING_DISPATCH"
    /\ Send(r, a, row[a].owner)
    /\ \/ row' = [row EXCEPT ![a].status = "QUEUED"] /\ UNCHANGED faults
       \/ Fault /\ UNCHANGED row
    /\ UNCHANGED <<event, dead, services, history>>

\* The dispatcher of site r reads the gsi2 partition of its own region only.
DispatchAnalysis(r, a) ==
    /\ deps[r] = Dependencies
    /\ row[a].status = "QUEUED_PENDING_DISPATCH"
    /\ row[a].owner = r
    /\ Send(r, a, row[a].owner)
    /\ \/ row' = [row EXCEPT ![a].status = "QUEUED"] /\ UNCHANGED faults
       \/ Fault /\ UNCHANGED row
    /\ UNCHANGED <<event, dead, services, history>>

-----------------------------------------------------------------------------
(* The workers of site r: process_record.                                    *)

JobType(w) == CASE w \in Analyses -> "resumeAnalysis"
                [] w \in Matches -> "jobMatch"
                [] w \in Children -> "resumeTailoring"

Delivered(r, msg) == msg \in queue[r] /\ deps[r] = Dependencies

\* claim_job is called without the owner the message names.
Authorized(r, w) == authorized(r, None, row[w].owner)

Ack(r, msg) == queue' = [queue EXCEPT ![r] = @ \ {msg}]

\* The claim raises on every delivery, until the message is dead-lettered.
Reject(r, msg) ==
    /\ Delivered(r, msg)
    /\ ~Authorized(r, msg.work)
    /\ Ack(r, msg)
    /\ dead' = [dead EXCEPT ![r] = @ \cup {msg}]
    /\ UNCHANGED <<row, event, services, history, faults>>

\* An authorized message whose deliveries fail until none is left.
Redrive(r, msg) ==
    /\ msg \in queue[r]
    /\ "sqs" \in deps[r]
    /\ \/ "dynamodb" \notin deps[r] /\ UNCHANGED faults
       \/ Fault
    /\ Ack(r, msg)
    /\ dead' = [dead EXCEPT ![r] = @ \cup {msg}]
    /\ UNCHANGED <<row, event, services, history>>

\* A dead run's row is skipped while its lease lives, and claimed afterwards.
Skip(r, msg) ==
    /\ Delivered(r, msg)
    /\ Authorized(r, msg.work)
    /\ row[msg.work].status \in {"completed", "FAILED_PERMANENT", "WORKER_PROCESSING"}
    /\ Ack(r, msg)
    /\ UNCHANGED <<row, event, dead, services, history, faults>>

Claims(r, msg) ==
    /\ Delivered(r, msg)
    /\ Authorized(r, msg.work)
    /\ row[msg.work].status \in claimable_statuses(JobType(msg.work))
                                   \cup {"WORKER_PROCESSING"}
    /\ workedIn' = [workedIn EXCEPT ![msg.work] = @ \cup {r}]
    /\ UNCHANGED <<event, dead, services, crossed, replaced>>

\* The children a run of w hands over.
Dispatched(w) ==
    {t \in Children : /\ w \in Matches /\ t = Tailoring[w]
                      /\ row[t].status \in {"waiting", "QUEUED_PENDING_DISPATCH",
                                            "FAILED_RETRYABLE"}}

\* A run leaves its row in a status, has handed children to the queue of its own
\* site, and its message is deleted or kept for another delivery.
Leaves(r, msg, status, handed, kept) ==
    LET w == msg.work
        owner == OwnerOf(row[w].owner, row[w].created)
        sent == {[work |-> t, owner |-> owner] : t \in handed}
    IN
    /\ queue' = [queue EXCEPT ![r] = (IF kept THEN @ ELSE @ \ {msg}) \cup sent]
    /\ row' = [x \in Works |->
            CASE x = w -> [row[x] EXCEPT !.status = status]
              [] x \in handed -> [row[x] EXCEPT !.status = "processing"]
              [] OTHER -> row[x]]

\* A match is not completed above a child that has failed for good.
Outcome(w) ==
    IF w \in Matches /\ row[Tailoring[w]].status = "FAILED_PERMANENT"
    THEN "FAILED_PERMANENT" ELSE "completed"

Work(r, msg) ==
    /\ Claims(r, msg)
    /\ Leaves(r, msg, Outcome(msg.work), Dispatched(msg.work), FALSE)
    /\ UNCHANGED faults

\* A run fails or dies and its message comes back, or the failure is terminal.
WorkFails(r, msg) ==
    /\ Claims(r, msg)
    /\ Fault
    /\ \E handed \in SUBSET Dispatched(msg.work) :
          \/ \E s \in {"FAILED_RETRYABLE", "WORKER_PROCESSING"} :
                Leaves(r, msg, s, handed, TRUE)
          \/ Leaves(r, msg, "FAILED_PERMANENT", handed, FALSE)

\* The run that stores the result of a match raises, which acknowledges its
\* message on the last delivery; earlier ones have failed.
LastPass(r, msg) ==
    /\ Claims(r, msg)
    /\ msg.work \in Matches
    /\ \/ outages > 0 /\ UNCHANGED faults
       \/ Fault
    /\ Leaves(r, msg, "RESULT_READY", {}, FALSE)

-----------------------------------------------------------------------------
(* The services of a region, and the readiness probe.                        *)

Outage(r, d) ==
    /\ outages < MaxOutages
    /\ outages' = outages + 1
    /\ d \in deps[r]
    /\ deps' = [deps EXCEPT ![r] = @ \ {d}]
    /\ UNCHANGED <<row, event, queue, dead, report, history, faults>>

Restore(r, d) ==
    /\ d \in Dependencies \ deps[r]
    /\ deps' = [deps EXCEPT ![r] = @ \cup {d}]
    /\ UNCHANGED <<row, event, queue, dead, report, outages, history, faults>>

Probe(r) ==
    /\ report' = [report EXCEPT ![r] = ready(deps[r])]
    /\ UNCHANGED <<row, event, queue, dead, deps, outages, history, faults>>

-----------------------------------------------------------------------------

Overrides(r) == {None} \cup AllowedOverrides(r)

SiteStep(r) ==
    \/ \E m \in Matches : \E o \in Overrides(r) : SubmitMatch(r, m, o)
    \/ \E a \in Analyses : \E o \in Overrides(r) : SubmitAnalysis(r, a, o)
    \/ \E m \in Matches : ReplaceChild(r, m) \/ TailorResume(r, m)
    \/ \E w \in Works : PublishEvent(r, w) \/ PublishFails(r, w)
    \/ \E a \in Analyses : DispatchAnalysis(r, a)
    \/ \E msg \in queue[r] :
          \/ Reject(r, msg) \/ Redrive(r, msg) \/ Skip(r, msg)
          \/ Work(r, msg) \/ WorkFails(r, msg) \/ LastPass(r, msg)
    \/ \E d \in Dependencies : Outage(r, d) \/ Restore(r, d)
    \/ Probe(r)

Next == \E r \in Sites : SiteStep(r)

Spec == Init /\ [][Next]_vars

Restores == \E r \in Sites, d \in Dependencies : Restore(r, d)
Publishes == \E r \in Sites, w \in Works : PublishEvent(r, w)
Dispatches == \E r \in Sites, a \in Analyses : DispatchAnalysis(r, a)
Receives(r, msg) == Reject(r, msg) \/ Skip(r, msg) \/ Work(r, msg)

\* Services come back, the schedules run the publishers and the dispatchers while
\* there is something to send, and queues deliver what they hold.
Fairness ==
    /\ WF_vars(Restores)
    /\ WF_vars(Publishes)
    /\ WF_vars(Dispatches)
    /\ WF_vars(\E r \in Sites : \E msg \in queue[r] : Receives(r, msg))

FairSpec == Spec /\ Fairness

-----------------------------------------------------------------------------
(* Properties.                                                               *)

Owned(w) == row[w].owner # None
Legacy(w) == row[w].status # "absent" /\ ~Owned(w)

\* "The scheduled publisher dispatches to the owner-region queue"
\* (PLATFORM_V2_ARCHITECTURE): whichever region submits the work and whichever
\* one publishes it, a message that names an owner is in that owner's queue.
\* The children of a legacy match follow the worker of the match instead.
MessagesReachOwner ==
    \A r \in Sites : \A msg \in queue[r] :
        \/ msg.owner \in {None, r}
        \/ \E m \in Matches : msg.work = Tailoring[m] /\ Legacy(m)

\* "Ownership is never inferred across regions" (evaluate_processing_ownership):
\* the workers of one region only work on a row, retries, redeliveries and
\* duplicates included; legacy work can be split when its message is duplicated.
OneRegionPerWork ==
    \A w \in Works :
        \/ Cardinality(workedIn[w]) <= 1
        \/ Legacy(w) /\ faults > 0

\* A message waits or is dead-lettered where no worker may take it only for work
\* that was asked for in another region than its row names: a validation override
\* of a match, a tailoring requested or created again elsewhere.
StrandedNeedsCrossing ==
    \A r \in Sites : \A msg \in queue[r] \cup dead[r] :
        Owned(msg.work) /\ row[msg.work].owner # r => msg.work \in crossed

\* The endpoint checks the dependencies itself and the assessment classifies the
\* same checks again (ready, classify_readiness_health): the two must agree, and
\* checks made for the answer are never stale or unrecognized.
ReadyMeansHealthy ==
    \A r \in Sites :
        /\ report[r].code = 200 <=> report[r].health = "HEALTHY"
        /\ report[r].health # "UNKNOWN"

\* Nothing will work on w again: its event or its row has failed, its message is
\* dead, or a run has left the row to a delivery that will not come.
GivenUp(w) ==
    \/ event[w].status = "FAILED_PERMANENT"
    \/ row[w].status = "FAILED_PERMANENT"
    \/ \E r \in Sites : \E msg \in dead[r] : msg.work = w
    \/ /\ row[w].status \in {"WORKER_PROCESSING", "RESULT_READY"}
       /\ \A r \in Sites : \A msg \in queue[r] : msg.work # w

\* Work that nobody has crossed never hangs: whichever site took the request and
\* whatever fails meanwhile, it is completed or given up, and given up only after an
\* outage or a failed attempt.
OwnedWorkEnds ==
    \A w \in Works :
        row[w].status \notin {"absent", "waiting"} /\ w \notin crossed
            ~> \/ row[w].status \in {"completed", "waiting"} \/ w \in crossed
               \/ GivenUp(w) /\ outages + faults > 0

=============================================================================
