------------------------------ MODULE JobMatch ------------------------------
(***************************************************************************)
(* The two-step workflow of a job match (process_job_match of                *)
(* lambdas/worker/handler.py): the first claim stores the match result and   *)
(* leaves the row RESULT_READY, a claim from RESULT_READY dispatches the     *)
(* child jobs (resume tailoring, interview preparation) and completes the    *)
(* match.  The children are jobs of the same queue and the same workers, so  *)
(* this module extends Worker: a run of the match interleaves with the runs  *)
(* of the children it has just sent.                                         *)
(***************************************************************************)
EXTENDS Worker

CONSTANTS
    Match,      \* the parent job
    Children    \* its child jobs, all waiting when the match is created

ASSUME MatchAssumption ==
    /\ Match \in Jobs /\ JobType[Match] = "jobMatch"
    /\ InitialStatus[Match] = "QUEUED_PENDING_DISPATCH"
    /\ Children = Jobs \ {Match}
    /\ \A c \in Children :
        /\ JobType[c] \in {"resumeTailoring", "interviewPreparation"}
        /\ InitialStatus[c] = "waiting"

\* dispatch[m][c]: how far dispatch_child_job has come with child c in run m.
VARIABLE dispatch

matchVars == <<job, msg, run, runLeft, envelopes, faults, dispatch>>

Step == {"read", "pend", "pendRaced", "send", "mark", "markRaced", "done"}
NotDispatched == [c \in Children |-> [step |-> "read", expected |-> "waiting"]]

MatchTypeOK ==
    /\ TypeOK
    /\ dispatch \in [Messages -> [Children -> [step : Step, expected : Status]]]

MatchInit == Init /\ dispatch = [m \in Messages |-> NotDispatched]

-----------------------------------------------------------------------------
(* First step: the match result.                                             *)

ProvidesMatch(m) == JobOf[m] = Match /\ CallsProvider(m)

\* update_claimed_record drops the attempt with the lease; the claim_job call
\* that should take the row again names message_context, which is not defined
\* in process_job_match: a NameError, caught by process_record.
StoreResult(m) ==
    /\ ProvidesMatch(m)
    /\ \/ /\ OwnsAttempt(m)
          /\ SetRow(m, ClosedRow(m, "RESULT_READY"))
          /\ FailWith(m, "server")
       \/ /\ ~OwnsAttempt(m)
          /\ FailWith(m, "client")
          /\ UNCHANGED job
    /\ UNCHANGED <<msg, runLeft, envelopes, faults, dispatch>>

\* The update raises, applied or not.
StoreResultLost(m) ==
    /\ ProvidesMatch(m)
    /\ OwnsAttempt(m)
    /\ Fault
    /\ SetRow(m, ClosedRow(m, "RESULT_READY")) \/ UNCHANGED job
    /\ \E error \in {"client", "server"} : FailWith(m, error)
    /\ UNCHANGED <<msg, runLeft, envelopes, dispatch>>

-----------------------------------------------------------------------------
(* Second step: dispatch_child_job for each child in turn.                   *)

\* The children are dispatched in the order of ChildOrder.
ChildOrder == [resumeTailoring |-> 1, interviewPreparation |-> 2]

Earlier(c, d) == ChildOrder[JobType[c]] < ChildOrder[JobType[d]]

Dispatching(m, c, step) ==
    /\ JobOf[m] = Match
    /\ run[m].phase = "working"
    /\ run[m].seen = "RESULT_READY"
    /\ dispatch[m][c].step = step
    /\ \A d \in Children : Earlier(d, c) => dispatch[m][d].step = "done"

StepTo(m, c, step) == dispatch' = [dispatch EXCEPT ![m][c].step = step]

\* Seeded bug: a child that still waits counts as dispatched.
Absorbed_Waiting == {"processing", "WORKER_PROCESSING", "completed", "waiting"}

\* A child some worker already has, or has finished, is left alone.
Absorbed == {"processing", "WORKER_PROCESSING", "completed"}

ReadChild(m, c) ==
    LET status == job[c].status IN
    /\ Dispatching(m, c, "read")
    /\ \/ /\ status \in Absorbed
          /\ StepTo(m, c, "done")
          /\ UNCHANGED run
       \/ /\ status \in {"waiting", "QUEUED_PENDING_DISPATCH", "FAILED_RETRYABLE"}
          /\ dispatch' = [dispatch EXCEPT ![m][c] =
                [step |-> IF status = "QUEUED_PENDING_DISPATCH" THEN "send" ELSE "pend",
                 expected |-> status]]
          /\ UNCHANGED run
       \/ /\ status = "deleted"
          /\ FailWith(m, "badInput")
          /\ UNCHANGED dispatch
       \/ /\ status \in FailedStatus
          /\ FailWith(m, "server")
          /\ UNCHANGED dispatch
    /\ UNCHANGED <<job, msg, runLeft, envelopes, faults>>

SetChild(c, status) ==
    job' = [job EXCEPT ![c].status = status, ![c].version = @ + 1]

PendChild(m, c) ==
    /\ Dispatching(m, c, "pend")
    /\ \/ /\ job[c].status = dispatch[m][c].expected
          /\ SetChild(c, "QUEUED_PENDING_DISPATCH")
          /\ StepTo(m, c, "send")
       \/ /\ job[c].status # dispatch[m][c].expected
          /\ StepTo(m, c, "pendRaced")
          /\ UNCHANGED job
    /\ UNCHANGED <<msg, run, runLeft, envelopes, faults>>

PendChildAgain(m, c) ==
    LET status == job[c].status IN
    /\ Dispatching(m, c, "pendRaced")
    /\ \/ /\ status \in Absorbed \cup {"QUEUED_PENDING_DISPATCH"}
          /\ StepTo(m, c, IF status \in Absorbed THEN "done" ELSE "send")
          /\ UNCHANGED run
       \/ /\ status \notin Absorbed \cup {"QUEUED_PENDING_DISPATCH"}
          /\ FailWith(m, "client")
          /\ UNCHANGED dispatch
    /\ UNCHANGED <<job, msg, runLeft, envelopes, faults>>

\* Seeded bug: after the send the child is read again instead of marked.
SendChild_Unmarked(m, c) ==
    /\ Dispatching(m, c, "send")
    /\ \E n \in MessagesOf(c) :
        /\ msg[n].state = "unsent"
        /\ msg' = [msg EXCEPT ![n].state = "queued"]
    /\ StepTo(m, c, "read")
    /\ UNCHANGED <<job, run, runLeft, envelopes, faults>>

\* Bound: a child is sent at most as often as it has messages.
SendChild(m, c) ==
    /\ Dispatching(m, c, "send")
    /\ \E n \in MessagesOf(c) :
        /\ msg[n].state = "unsent"
        /\ msg' = [msg EXCEPT ![n].state = "queued"]
    /\ StepTo(m, c, "mark")
    /\ UNCHANGED <<job, run, runLeft, envelopes, faults>>

\* Seeded bug: the mark is written whatever the child's worker has done.
MarkChild_Unconditional(m, c) ==
    /\ Dispatching(m, c, "mark")
    /\ SetChild(c, "processing")
    /\ StepTo(m, c, "done")
    /\ UNCHANGED <<msg, run, runLeft, envelopes, faults>>

MarkChild(m, c) ==
    /\ Dispatching(m, c, "mark")
    /\ \/ /\ job[c].status = "QUEUED_PENDING_DISPATCH"
          /\ SetChild(c, "processing")
          /\ StepTo(m, c, "done")
       \/ /\ job[c].status # "QUEUED_PENDING_DISPATCH"
          /\ StepTo(m, c, "markRaced")
          /\ UNCHANGED job
    /\ UNCHANGED <<msg, run, runLeft, envelopes, faults>>

MarkChildAgain(m, c) ==
    /\ Dispatching(m, c, "markRaced")
    /\ \/ /\ job[c].status \in Absorbed
          /\ StepTo(m, c, "done")
          /\ UNCHANGED run
       \/ /\ job[c].status \notin Absorbed
          /\ FailWith(m, "client")
          /\ UNCHANGED dispatch
    /\ UNCHANGED <<job, msg, runLeft, envelopes, faults>>

\* A call of the dispatch raises; a send or a write may have been applied.
DispatchLost(m, c) ==
    /\ \E step \in Step \ {"done"} : Dispatching(m, c, step)
    /\ Fault
    /\ \/ UNCHANGED <<job, msg>>
       \/ /\ dispatch[m][c].step = "send"
          /\ \E n \in MessagesOf(c) :
              /\ msg[n].state = "unsent"
              /\ msg' = [msg EXCEPT ![n].state = "queued"]
          /\ UNCHANGED job
       \/ /\ dispatch[m][c].step = "pend"
          /\ job[c].status = dispatch[m][c].expected
          /\ SetChild(c, "QUEUED_PENDING_DISPATCH")
          /\ UNCHANGED msg
       \/ /\ dispatch[m][c].step = "mark"
          /\ job[c].status = "QUEUED_PENDING_DISPATCH"
          /\ SetChild(c, "processing")
          /\ UNCHANGED msg
    /\ \E error \in {"client", "server"} : FailWith(m, error)
    /\ UNCHANGED <<runLeft, envelopes, dispatch>>

AllDispatched(m) ==
    /\ JobOf[m] = Match
    /\ run[m].phase = "working"
    /\ run[m].seen = "RESULT_READY"
    /\ \A c \in Children : dispatch[m][c].step = "done"

CompleteMatch(m) ==
    /\ AllDispatched(m)
    /\ \/ /\ OwnsAttempt(m)
          /\ SetRow(m, ClosedRow(m, "completed"))
          /\ Leave(m, "ok")
       \/ /\ ~OwnsAttempt(m)
          /\ FailWith(m, "client")
          /\ UNCHANGED job
    /\ UNCHANGED <<msg, runLeft, envelopes, faults, dispatch>>

\* The update raises, applied or not.
CompleteMatchLost(m) ==
    /\ AllDispatched(m)
    /\ OwnsAttempt(m)
    /\ Fault
    /\ SetRow(m, ClosedRow(m, "completed")) \/ UNCHANGED job
    /\ \E error \in {"client", "server"} : FailWith(m, error)
    /\ UNCHANGED <<msg, runLeft, envelopes, dispatch>>

-----------------------------------------------------------------------------
\* Every other step of a run begins or ends it.
PlainStep(m) ==
    /\ QueueStep(m) \/ RunStep(m) \/ RunFault(m)
    /\ dispatch' = [dispatch EXCEPT ![m] = NotDispatched]

DispatchStep(m, c) ==
    \/ ReadChild(m, c)
    \/ PendChild(m, c)
    \/ PendChildAgain(m, c)
    \/ SendChild(m, c)
    \/ MarkChild(m, c)
    \/ MarkChildAgain(m, c)

MatchStep(m) ==
    \/ StoreResult(m)
    \/ CompleteMatch(m)
    \/ \E c \in Children : DispatchStep(m, c)

MatchFault(m) ==
    \/ StoreResultLost(m)
    \/ CompleteMatchLost(m)
    \/ \E c \in Children : DispatchLost(m, c)

\* Only the outbox sends the messages of the match, only the match the others.
MatchNext ==
    \/ \E m \in Messages : PlainStep(m) \/ MatchStep(m) \/ MatchFault(m)
    \/ \E m \in MessagesOf(Match) : Enqueue(m) /\ UNCHANGED dispatch
    \/ \E j \in Jobs : Delete(j) /\ UNCHANGED dispatch
    \/ Tick /\ UNCHANGED dispatch

MatchSpec == MatchInit /\ [][MatchNext]_matchVars

-----------------------------------------------------------------------------
(* Properties.                                                               *)

\* The two writes of a parent that the transition matrix does not know.
ParentWrites ==
    {<<"FAILED_RETRYABLE", "QUEUED_PENDING_DISPATCH">>,
     <<"QUEUED_PENDING_DISPATCH", "processing">>}

\* dispatch_child_job writes the status of a row that the child's own worker
\* claims, finishes or fails meanwhile, and does not ask the matrix.  Whatever
\* the race, a status changes along the matrix or by one of ParentWrites to a
\* child; so a mark that comes late never pulls a child back out of
\* WORKER_PROCESSING, RESULT_READY or a terminal status.
ParentRespectsWorker ==
    [][\A j \in Jobs :
          job'[j].status \notin {job[j].status, "deleted"} =>
              \/ can_transition(job[j].status, job'[j].status)
              \/ j \in Children /\ <<job[j].status, job'[j].status>> \in ParentWrites]_matchVars

Sent(c) == {n \in MessagesOf(c) : msg[n].state # "unsent"}

\* A completed match has handed every child over: the child's message was sent
\* and the child is past the states only a dispatch can take it out of, however
\* the dispatch was interrupted, repeated or raced by the child's own worker.
CompletedMatchHandedOver ==
    job[Match].status = "completed" =>
        \A c \in Children :
            /\ Sent(c) # {}
            /\ job[c].status \notin {"waiting", "QUEUED_PENDING_DISPATCH"}

\* A child is dispatched again only after a fault, or beside a child that has
\* failed for good: every retry of the match then stops at that one, and sends
\* again the other one, if it waits for a retry of its own.  Like
\* CompletedMatchHandedOver it is proved for RunTimeout < Lease.
ChildSentOnce ==
    \A c \in Children :
        \/ Cardinality(Sent(c)) <= 1 + faults
        \/ \E d \in Children \ {c} : job[d].status \in FailedStatus \cup {"deleted"}

=============================================================================
