------------------------------- MODULE Worker -------------------------------
(***************************************************************************)
(* The worker Lambda behind a regional processing queue:                     *)
(* lambdas/worker/handler.py with core/retry_policy.py and                   *)
(* core/workflow_state.py.                                                   *)
(*                                                                           *)
(* A message of the queue names a job, a row of the table.  The queue hands  *)
(* a visible message to an invocation, hides it for the visibility timeout,  *)
(* hands it out again unless it was acknowledged, and moves it to the        *)
(* dead-letter queue after MaxReceives deliveries.  run[m] is the run of     *)
(* process_record for message m; several messages may name the same job (the *)
(* outbox delivers at least once), so several runs may work on one row.      *)
(* Every action is one call to DynamoDB, SQS or a provider.                  *)
(*                                                                           *)
(* Deadlines are countdowns: a lease is live while leaseIn > 0, a message is *)
(* visible when hidden = 0.                                                  *)
(***************************************************************************)
EXTENDS Naturals, FiniteSets, WorkflowState, RetryPolicy

CONSTANTS
    Jobs,                   \* rows the queue's messages name
    Messages,               \* messages of the queue
    JobOf,                  \* JobOf[m]: the job message m names
    JobType,                \* JobType[j]: its workflow
    InitialStatus,          \* InitialStatus[j]: the status the API creates it with
    ProviderErrors,         \* the classes of errors an attempt may fail with
    MaxReceives,            \* maxReceiveCount of the queue's redrive policy
    MaxProcessingAttempts,  \* MAX_PROCESSING_ATTEMPTS
    RunTimeout,             \* worker Lambda timeout, in ticks
    Visibility,             \* visibility timeout of the queue, in ticks
    Lease,                  \* PROCESSING_LEASE_SECONDS, in ticks
    MaxFaults               \* bound: crashes and failed calls in a behaviour

ASSUME JobsAssumption ==
    /\ IsFiniteSet(Messages)
    /\ JobOf \in [Messages -> Jobs]
    /\ InitialStatus \in [Jobs -> known_statuses]
    /\ ProviderErrors \subseteq Errors
ASSUME LimitsAssumption ==
    /\ MaxReceives \in Nat \ {0}
    /\ MaxProcessingAttempts \in Nat \ {0}
    /\ MaxFaults \in Nat
\* The queue service refuses an event source whose function timeout exceeds
\* the visibility timeout; the deployed values are 120 s and 180 s.
ASSUME TimeoutAssumption ==
    /\ RunTimeout \in Nat \ {0}
    /\ Visibility \in Nat
    /\ Lease \in Nat \ {0}
    /\ RunTimeout < Visibility

VARIABLES
    job,        \* job[j]: the row of job j
    msg,        \* msg[m]: the queue's view of message m
    run,        \* run[m]: the run of process_record for m
    runLeft,    \* runLeft[m]: ticks left before that run is killed
    envelopes,  \* envelopes[j]: terminal-failure envelopes sent for j
    faults      \* crashes and failed calls so far

vars == <<job, msg, run, runLeft, envelopes, faults>>

Status == known_statuses \cup {"deleted"}
Phase == {"idle", "received", "claiming", "raced", "working", "failing",
          "announcing", "marking", "ok", "error"}

\* attempt is processingAttemptId (0: none), published terminalFailurePublished.
Row == [status : Status, version : Nat, attempt : Nat, leaseIn : 0..Lease,
        published : BOOLEAN]
Message == [state : {"unsent", "queued", "acked", "dead"},
            receives : 0..MaxReceives, hidden : 0..Visibility]
\* seen is the status the run read or claimed from, version the version read.
Run == [phase : Phase, seen : Status, version : Nat, attempt : Nat,
        error : Errors]

Idle == [phase |-> "idle", seen |-> "waiting", version |-> 0, attempt |-> 0,
         error |-> "server"]

TypeOK ==
    /\ job \in [Jobs -> Row]
    /\ msg \in [Messages -> Message]
    /\ run \in [Messages -> Run]
    /\ runLeft \in [Messages -> 0..RunTimeout]
    /\ envelopes \in [Jobs -> Nat]
    /\ faults \in 0..MaxFaults

Init ==
    /\ job = [j \in Jobs |-> [status |-> InitialStatus[j], version |-> 1,
                attempt |-> 0, leaseIn |-> 0, published |-> FALSE]]
    /\ msg = [m \in Messages |->
                [state |-> "unsent", receives |-> 0, hidden |-> 0]]
    /\ run = [m \in Messages |-> Idle]
    /\ runLeft = [m \in Messages |-> 0]
    /\ envelopes = [j \in Jobs |-> 0]
    /\ faults = 0

RowOf(m) == job[JobOf[m]]
SetRow(m, row) == job' = [job EXCEPT ![JobOf[m]] = row]
Goto(m, phase) == run' = [run EXCEPT ![m].phase = phase]

\* From phase on, nothing the run has read is used again.
Leave(m, phase) == run' = [run EXCEPT ![m] = [Idle EXCEPT !.phase = phase]]
End(m) == Leave(m, "idle") /\ runLeft' = [runLeft EXCEPT ![m] = 0]

FailWith(m, error) == run' = [run EXCEPT ![m].phase = "failing", ![m].error = error]
Fault == faults < MaxFaults /\ faults' = faults + 1

-----------------------------------------------------------------------------
(* The queue.                                                                *)

Enqueue(m) ==
    /\ msg[m].state = "unsent"
    /\ msg' = [msg EXCEPT ![m].state = "queued"]
    /\ UNCHANGED <<job, run, runLeft, envelopes, faults>>

Visible(m) ==
    /\ msg[m].state = "queued"
    /\ msg[m].hidden = 0
    /\ run[m].phase = "idle"

Receive(m) ==
    /\ Visible(m)
    /\ msg[m].receives < MaxReceives
    /\ msg' = [msg EXCEPT ![m] = [state |-> "queued", hidden |-> Visibility,
                                  receives |-> @.receives + 1]]
    /\ Goto(m, "received")
    /\ runLeft' = [runLeft EXCEPT ![m] = RunTimeout]
    /\ UNCHANGED <<job, envelopes, faults>>

Redrive(m) ==
    /\ Visible(m)
    /\ msg[m].receives = MaxReceives
    /\ msg' = [msg EXCEPT ![m].state = "dead"]
    /\ UNCHANGED <<job, run, runLeft, envelopes, faults>>

\* Seeded bug: batchItemFailures is never returned.
Return_AcksErrors(m) ==
    /\ run[m].phase \in {"ok", "error"}
    /\ run' = [run EXCEPT ![m] = Idle]
    /\ msg' = [msg EXCEPT ![m].state = "acked"]
    /\ UNCHANGED <<job, runLeft, envelopes, faults>>

\* lambda_handler returns: a record that raised is listed in
\* batchItemFailures and stays hidden, every other one is deleted.
Return(m) ==
    /\ run[m].phase \in {"ok", "error"}
    /\ End(m)
    /\ msg' = [msg EXCEPT ![m] = IF run[m].phase = "ok"
                THEN [state |-> "acked", receives |-> @.receives, hidden |-> 0] ELSE @]
    /\ UNCHANGED <<job, envelopes, faults>>

\* The invocation dies or is killed: nothing of its batch is acknowledged.
Crash(m) ==
    /\ run[m].phase # "idle"
    /\ Fault
    /\ End(m)
    /\ UNCHANGED <<job, msg, envelopes>>

-----------------------------------------------------------------------------
(* claim_job: a strongly consistent read, then a conditional update.         *)

\* Seeded bug: the lease is ignored.
LeaseLive_Never(row) == FALSE

LeaseLive(row) == row.status = "WORKER_PROCESSING" /\ row.leaseIn > 0

Claimable(m) ==
    \/ RowOf(m).status = "WORKER_PROCESSING" /\ ~LeaseLive(RowOf(m))
    \/ RowOf(m).status \in claimable_statuses(JobType[JobOf[m]])

\* Seeded bug: an announced failure is announced again.
Disposition_Reannounces(m) ==
    LET row == RowOf(m) IN
    CASE row.status = "deleted" -> "error"
      [] row.status = "completed" -> "ok"
      [] row.status \in FailedStatus -> "announcing"
      [] LeaseLive(row) -> "ok"
      [] OTHER -> IF Claimable(m) THEN "claiming" ELSE "error"

\* The disposition claim_job decides on the row it reads; a missing row and a
\* status it may not claim from raise.  A foreign owner raises before them: the
\* messages here are those of the owner region (Placement has the others).
Disposition(m) ==
    LET row == RowOf(m) IN
    CASE row.status = "deleted" -> "error"
      [] row.status = "completed" -> "ok"
      [] row.status \in FailedStatus -> IF row.published THEN "ok" ELSE "announcing"
      [] LeaseLive(row) -> "ok"
      [] OTHER -> IF Claimable(m) THEN "claiming" ELSE "error"

Read(m) ==
    /\ run[m].phase = "received"
    /\ run' = [run EXCEPT ![m] =
                [@ EXCEPT !.phase = Disposition(m), !.seen = RowOf(m).status,
                          !.version = RowOf(m).version]]
    /\ UNCHANGED <<job, msg, runLeft, envelopes, faults>>

ClaimCondition(m) ==
    /\ RowOf(m).status = run[m].seen
    /\ RowOf(m).version = run[m].version

\* The attempt id is fresh; the version the claim writes stands for it.
ClaimedRow(m) ==
    [RowOf(m) EXCEPT !.status = "WORKER_PROCESSING", !.version = @ + 1,
                     !.attempt = RowOf(m).version + 1, !.leaseIn = Lease]

Claim(m) ==
    /\ run[m].phase = "claiming"
    /\ ClaimCondition(m)
    /\ SetRow(m, ClaimedRow(m))
    /\ run' = [run EXCEPT ![m].phase = "working",
                          ![m].attempt = RowOf(m).version + 1]
    /\ UNCHANGED <<msg, runLeft, envelopes, faults>>

\* The claim is applied but its response is lost.
ClaimLost(m) ==
    /\ run[m].phase = "claiming"
    /\ ClaimCondition(m)
    /\ Fault
    /\ SetRow(m, ClaimedRow(m))
    /\ Leave(m, "error")
    /\ UNCHANGED <<msg, runLeft, envelopes>>

ClaimRefused(m) ==
    /\ run[m].phase = "claiming"
    /\ ~ClaimCondition(m)
    /\ Goto(m, "raced")
    /\ UNCHANGED <<job, msg, runLeft, envelopes, faults>>

ReadAgain(m) ==
    /\ run[m].phase = "raced"
    /\ Leave(m, IF RowOf(m).status \in {"completed", "WORKER_PROCESSING"}
               THEN "ok" ELSE "error")
    /\ UNCHANGED <<job, msg, runLeft, envelopes, faults>>

-----------------------------------------------------------------------------
(* update_claimed_record: the result or the failure of the attempt.          *)

\* Seeded bug: an outcome is written whoever holds the claim.
OwnsAttempt_Unchecked(m) == RowOf(m).status # "deleted"

OwnsAttempt(m) ==
    /\ RowOf(m).status = "WORKER_PROCESSING"
    /\ RowOf(m).attempt = run[m].attempt

ClosedRow(m, status) ==
    [RowOf(m) EXCEPT !.status = status, !.version = @ + 1,
                     !.attempt = 0, !.leaseIn = 0]

\* A job match claimed from RESULT_READY already has its result.
CallsProvider(m) == run[m].phase = "working" /\ run[m].seen # "RESULT_READY"

StoresResult(m) == CallsProvider(m) /\ JobType[JobOf[m]] # "jobMatch"

\* The provider answers and the single-step workflows store its result.
Complete(m) ==
    /\ StoresResult(m)
    /\ \/ /\ OwnsAttempt(m)
          /\ SetRow(m, ClosedRow(m, "completed"))
          /\ Leave(m, "ok")
       \/ /\ ~OwnsAttempt(m)
          /\ FailWith(m, "client")
          /\ UNCHANGED job
    /\ UNCHANGED <<msg, runLeft, envelopes, faults>>

\* The update raises, applied or not.
CompleteLost(m) ==
    /\ StoresResult(m)
    /\ OwnsAttempt(m)
    /\ Fault
    /\ SetRow(m, ClosedRow(m, "completed")) \/ UNCHANGED job
    /\ \E error \in {"client", "server"} : FailWith(m, error)
    /\ UNCHANGED <<msg, runLeft, envelopes>>

\* Stored inputs are invalid, or the provider fails.
AttemptFails(m) ==
    /\ CallsProvider(m)
    /\ \E error \in ProviderErrors : FailWith(m, error)
    /\ UNCHANGED <<job, msg, runLeft, envelopes, faults>>

\* Seeded bug: every failure is announced as terminal.
IsTerminal_Always(m) == TRUE

IsTerminal(m) == terminal(run[m].error, msg[m].receives, MaxProcessingAttempts)

FailedRow(m) ==
    ClosedRow(m, FailureStatus(run[m].error, msg[m].receives, MaxProcessingAttempts))

\* Seeded bug: a retryable failure is recorded and not raised again.
MarkFailed_Returns(m) ==
    /\ run[m].phase = "failing"
    /\ OwnsAttempt(m)
    /\ SetRow(m, FailedRow(m))
    /\ Leave(m, IF IsTerminal(m) THEN "announcing" ELSE "ok")
    /\ UNCHANGED <<msg, runLeft, envelopes, faults>>

\* mark_claim_failed, then the end of process_record: a terminal failure is
\* announced and acknowledged, any other one is raised again.
MarkFailed(m) ==
    /\ run[m].phase = "failing"
    /\ OwnsAttempt(m)
    /\ SetRow(m, FailedRow(m))
    /\ Leave(m, IF IsTerminal(m) THEN "announcing" ELSE "error")
    /\ UNCHANGED <<msg, runLeft, envelopes, faults>>

\* The condition fails: mark_claim_failed returns None, nothing is announced.
MarkFailedRefused(m) ==
    /\ run[m].phase = "failing"
    /\ ~OwnsAttempt(m)
    /\ Leave(m, IF IsTerminal(m) THEN "ok" ELSE "error")
    /\ UNCHANGED <<job, msg, runLeft, envelopes, faults>>

\* The update raises, applied or not: nothing is announced in this run.
MarkFailedLost(m) ==
    /\ run[m].phase = "failing"
    /\ Fault
    /\ \/ UNCHANGED job
       \/ OwnsAttempt(m) /\ SetRow(m, FailedRow(m))
    /\ Leave(m, "error")
    /\ UNCHANGED <<msg, runLeft, envelopes>>

-----------------------------------------------------------------------------
(* publish_terminal_failure and mark_terminal_failure_published.             *)

Announce(m) ==
    /\ run[m].phase = "announcing"
    /\ envelopes' = [envelopes EXCEPT ![JobOf[m]] = @ + 1]
    /\ Leave(m, "marking")
    /\ UNCHANGED <<job, msg, runLeft, faults>>

\* The send raises, accepted or not.
AnnounceLost(m) ==
    /\ run[m].phase = "announcing"
    /\ Fault
    /\ \/ envelopes' = [envelopes EXCEPT ![JobOf[m]] = @ + 1]
       \/ UNCHANGED envelopes
    /\ Leave(m, "error")
    /\ UNCHANGED <<job, msg, runLeft>>

Unannounced(m) == RowOf(m).status \in FailedStatus /\ ~RowOf(m).published

PublishedRow(m) == [RowOf(m) EXCEPT !.published = TRUE]

MarkPublished(m) ==
    /\ run[m].phase = "marking"
    /\ \/ Unannounced(m) /\ SetRow(m, PublishedRow(m)) /\ Leave(m, "ok")
       \/ ~Unannounced(m) /\ UNCHANGED job /\ Leave(m, "error")
    /\ UNCHANGED <<msg, runLeft, envelopes, faults>>

MarkPublishedLost(m) ==
    /\ run[m].phase = "marking"
    /\ Fault
    /\ \/ Unannounced(m) /\ SetRow(m, PublishedRow(m))
       \/ UNCHANGED job
    /\ Leave(m, "error")
    /\ UNCHANGED <<msg, runLeft, envelopes>>

-----------------------------------------------------------------------------
(* The clock, the owner of the record, and the specification.                *)

Less(n) == IF n = 0 THEN 0 ELSE n - 1

\* No invocation outlives its timeout.
Tick ==
    /\ \A m \in Messages : run[m].phase # "idle" => runLeft[m] > 0
    /\ runLeft' = [m \in Messages |-> Less(runLeft[m])]
    /\ msg' = [m \in Messages |-> [msg[m] EXCEPT !.hidden = Less(@)]]
    /\ job' = [j \in Jobs |-> [job[j] EXCEPT !.leaseIn = Less(@)]]
    /\ UNCHANGED <<run, envelopes, faults>>

\* The user deletes the record, whatever the workflow is doing with it.
Delete(j) ==
    /\ job[j].status # "deleted"
    /\ job' = [job EXCEPT ![j] = [@ EXCEPT !.status = "deleted", !.attempt = 0,
                                           !.leaseIn = 0]]
    /\ UNCHANGED <<msg, run, runLeft, envelopes, faults>>

\* The dispatcher of core/workflow_dispatch.py records that it has sent a resume
\* analysis, maybe only after a worker has read it.
MarkDispatched(j) ==
    /\ JobType[j] = "resumeAnalysis"
    /\ job[j].status = "QUEUED_PENDING_DISPATCH"
    /\ \E m \in Messages : JobOf[m] = j /\ msg[m].state # "unsent"
    /\ job' = [job EXCEPT ![j].status = "QUEUED"]
    /\ UNCHANGED <<msg, run, runLeft, envelopes, faults>>

QueueStep(m) == Receive(m) \/ Redrive(m)

RunStep(m) ==
    \/ Read(m)
    \/ Claim(m)
    \/ ClaimRefused(m)
    \/ ReadAgain(m)
    \/ Complete(m)
    \/ AttemptFails(m)
    \/ MarkFailed(m)
    \/ MarkFailedRefused(m)
    \/ Announce(m)
    \/ MarkPublished(m)
    \/ Return(m)

RunFault(m) ==
    \/ Crash(m)
    \/ ClaimLost(m)
    \/ CompleteLost(m)
    \/ MarkFailedLost(m)
    \/ AnnounceLost(m)
    \/ MarkPublishedLost(m)

Next ==
    \/ \E m \in Messages : Enqueue(m) \/ QueueStep(m) \/ RunStep(m) \/ RunFault(m)
    \/ \E j \in Jobs : MarkDispatched(j) \/ Delete(j)
    \/ Tick

Spec == Init /\ [][Next]_vars

\* The queue keeps handing out visible messages, an invocation keeps making
\* calls until it returns or dies, and time passes.  Nothing is assumed of
\* faults, of the publisher or of the user.
Fairness ==
    /\ WF_vars(Tick)
    /\ \A m \in Messages : WF_vars(QueueStep(m)) /\ WF_vars(RunStep(m))

FairSpec == Spec /\ Fairness

-----------------------------------------------------------------------------
(* Properties.                                                               *)

\* m has claimed its job and has not yet stored an outcome.
Working(m) == run[m].phase \in {"working", "failing"}

\* Two invocations never work on one job at a time: duplicated messages and
\* redeliveries race for the claim, and the status, version and lease tests of
\* claim_job keep all but one out.  It needs RunTimeout < Lease.
OneWorker ==
    \A m, n \in Messages :
        /\ Working(m) /\ Working(n)
        /\ JobOf[m] = JobOf[n]
        /\ RowOf(m).status # "deleted"
        => m = n

\* A job has nothing left to do, and its failure, if any, has been announced.
Settled(j) ==
    \/ job[j].status \in {"completed", "deleted"}
    \/ job[j].status \in FailedStatus /\ job[j].published

MessagesOf(j) == {m \in Messages : JobOf[m] = j}

\* The queue has handed messages of the job out and has none of them left, nor
\* is one parked in the dead-letter queue: nobody will work on the job again
\* unless the publisher sends another duplicate.
NothingLeft(j) ==
    /\ \E m \in MessagesOf(j) : msg[m].state = "acked"
    /\ \A m \in MessagesOf(j) : msg[m].state \in {"unsent", "acked"}

\* "Successful and duplicate messages are acknowledged" (lambda_handler), so
\* acknowledged work would never be lost.  That takes a visibility timeout of
\* at least RunTimeout + Lease: a message that is turned away by a lease is
\* acknowledged, so the holder's own message must come back after it.  The
\* deployed timeout is shorter.
AckedMeansSettled == \A j \in Jobs : NothingLeft(j) => Settled(j)

\* A run that died, or whose claim got no answer, has left the job claimed, and
\* its messages were acknowledged while the lease lived.
Abandoned(j) ==
    /\ job[j].status = "WORKER_PROCESSING"
    /\ faults > 0
    /\ NothingLeft(j)

\* Whatever the visibility timeout, the live lease of a run that died is the one
\* way to lose acknowledged work: no failure, race or duplicate has a message
\* acknowledged while the job waits for a retry, for a first claim or for the
\* announcement of its failure.  It needs RunTimeout < Lease.
AckedSettledOrAbandoned ==
    \A j \in Jobs : NothingLeft(j) => Settled(j) \/ Abandoned(j)

\* Every status a worker of the row itself writes follows in the transition
\* matrix, although it is validated against a status read earlier and written
\* later.  So a terminal status, which has no successor there, is final: no late
\* run, stale attempt or duplicate reclaims or overwrites it (MR-013); only the
\* user's deletion follows.  The writes of a parent to its child are not among
\* these: JobMatch!ParentRespectsWorker is about them.
FollowsMatrix ==
    [][\A j \in Jobs :
          job'[j].status \notin {job[j].status, "deleted"}
              => can_transition(job[j].status, job'[j].status)]_vars

\* An envelope is only ever sent for a job that has terminally failed, and a
\* row is only marked as announced when an envelope has been sent.
EnvelopesAreTrue ==
    \A j \in Jobs :
        /\ envelopes[j] > 0 => job[j].status \in FailedStatus \cup {"deleted"}
        /\ job[j].published => envelopes[j] > 0

\* A terminal failure is announced at most once per message of the job, plus
\* once per fault: an announced failure is not announced again by redeliveries.
EnvelopeBudget ==
    \A j \in Jobs : envelopes[j] <= Cardinality(MessagesOf(j)) + faults

\* A message that reached the queue ends with its job settled, with one of the
\* job's messages in the dead-letter queue or with the job abandoned by a run
\* that died, through crashes, redeliveries and duplicates; without a fault the
\* last is excluded.
Concludes ==
    \A m \in Messages :
        msg[m].state = "queued"
            ~> \/ Settled(JobOf[m])
               \/ \E n \in MessagesOf(JobOf[m]) : msg[n].state = "dead"
               \/ Abandoned(JobOf[m])

=============================================================================
