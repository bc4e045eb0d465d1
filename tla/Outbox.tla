------------------------------- MODULE Outbox -------------------------------
(***************************************************************************)
(* The durable outbox and its publishers: core/outbox_publisher.py, the     *)
(* activation step of core/storage.py and core/outbox_replay.py.            *)
(*                                                                          *)
(* One DynamoDB row per event moves through                                 *)
(*   PREPARING -> PENDING -> DISPATCHING -> DELIVERED                       *)
(* with FAILED_RETRYABLE and FAILED_PERMANENT as the results of a failed    *)
(* delivery.  A publisher is one invocation slot of the publisher Lambda of *)
(* a region; the slots run concurrently over the same table.  Every action  *)
(* below is one DynamoDB or SQS call, so whatever another publisher does    *)
(* between two calls of a run is interleaved here.                          *)
(*                                                                          *)
(* Wall-clock deadlines are kept as countdowns: dispatchLeaseExpiresAt <=   *)
(* now is leaseIn = 0, nextDeliveryAttemptAt <= now is retryIn = 0.         *)
(***************************************************************************)
EXTENDS Naturals, FiniteSets

CONSTANTS
    Events,               \* event ids, ordered as gsi1sk (createdAt#eventId) orders them
    Publishers,           \* concurrent invocations of the publisher Lambda
    BatchSize,            \* events one invocation lists and claims at most
    ScanDepth,            \* rows of a status partition one invocation reads at most
    MaxDeliveryAttempts,  \* attempts after which a failure is permanent
    RunTimeout,           \* ticks after which Lambda kills an invocation
    Lease,                \* lease_seconds of a claim, in ticks
    RetryDelayByAttempt,  \* RETRY_DELAY_SECONDS_BY_ATTEMPT, in ticks
    MaxRetryDelay,        \* MAX_RETRY_DELAY_SECONDS, in ticks
    MaxFaults,            \* bound: crashes and lost or failed calls in a behaviour
    MaxClaims,            \* bound: an event claimed this often is no longer listed
    MaxReplays            \* bound: operator replays in a behaviour

ASSUME EventsAssumption == Events \subseteq Nat
ASSUME BatchAssumption == BatchSize \in Nat \ {0} /\ ScanDepth \in Nat \ {0}
ASSUME AttemptsAssumption == MaxDeliveryAttempts \in Nat \ {0}
ASSUME TimingAssumption == RunTimeout \in Nat \ {0} /\ Lease \in Nat \ {0}
ASSUME DelayAssumption ==
    /\ MaxRetryDelay \in Nat
    /\ DOMAIN RetryDelayByAttempt \subseteq Nat
    /\ \A n \in DOMAIN RetryDelayByAttempt : RetryDelayByAttempt[n] \in Nat
ASSUME BoundAssumption ==
    MaxFaults \in Nat /\ MaxReplays \in Nat /\ MaxClaims \in Nat

VARIABLES
    outbox,    \* outbox[e]: the row of event e
    task,      \* task[p][e]: what publisher p is doing with event e
    runLeft,   \* runLeft[p]: ticks left before p's invocation is killed
    sent,      \* sent[e]: messages SQS has accepted for e
    issued,    \* issued[e]: attempt ids drawn (uuid4) for claims of e
    faults,    \* crashes and lost or failed calls so far
    replays    \* operator replays so far

vars == <<outbox, task, runLeft, sent, issued, faults, replays>>

DispatchableStatus == {"PENDING", "FAILED_RETRYABLE", "DISPATCHING"}
OutboxStatus == DispatchableStatus \cup
    {"ABSENT", "PREPARING", "DELIVERED", "FAILED_PERMANENT"}
Phase == {"idle", "listed", "claimed", "sent", "failing"}

\* "index" is gsi1pk: the status partition of the sparse index the row is
\* listed under, "NONE" when the attribute is absent.
Row == [status : OutboxStatus, index : DispatchableStatus \cup {"NONE"},
        version : Nat, attempt : Nat, deliveryAttempts : Nat,
        retryIn : Nat, leaseIn : Nat]

\* What an invocation remembers of an event: the listed item (status and
\* version) and, once claimed, the attempt id and deliveryAttempts of ALL_NEW.
Task == [phase : Phase, status : OutboxStatus, version : Nat,
         attempt : Nat, tries : Nat]

NoTask == [phase |-> "idle", status |-> "ABSENT", version |-> 0,
           attempt |-> 0, tries |-> 0]
NoRow == [status |-> "ABSENT", index |-> "NONE", version |-> 0, attempt |-> 0,
          deliveryAttempts |-> 0, retryIn |-> 0, leaseIn |-> 0]

TypeOK ==
    /\ outbox \in [Events -> Row]
    /\ task \in [Publishers -> [Events -> Task]]
    /\ runLeft \in [Publishers -> 0..RunTimeout]
    /\ sent \in [Events -> Nat]
    /\ issued \in [Events -> Nat]
    /\ faults \in 0..MaxFaults
    /\ replays \in 0..MaxReplays

Init ==
    /\ outbox = [e \in Events |-> NoRow]
    /\ task = [p \in Publishers |-> [e \in Events |-> NoTask]]
    /\ runLeft = [p \in Publishers |-> 0]
    /\ sent = [e \in Events |-> 0]
    /\ issued = [e \in Events |-> 0]
    /\ faults = 0
    /\ replays = 0

\* Every update that ends a claim, or reopens a row, bumps the version and
\* removes the attempt and its lease.
UnclaimedRow(e, s, index, attempts, delay) ==
    [status |-> s, index |-> index, version |-> outbox[e].version + 1,
     attempt |-> 0, deliveryAttempts |-> attempts, retryIn |-> delay, leaseIn |-> 0]

Running(p) == \E e \in Events : task[p][e].phase # "idle"

SetTask(p, e, t) == task' = [task EXCEPT ![p][e] = t]
Fault == faults < MaxFaults /\ faults' = faults + 1

-----------------------------------------------------------------------------
(* The API side: a PREPARING row outside the index, then its activation.    *)

Prepare(e) ==
    /\ outbox[e].status = "ABSENT"
    /\ outbox' = [outbox EXCEPT ![e] =
                    [@ EXCEPT !.status = "PREPARING", !.version = 1]]
    /\ UNCHANGED <<task, runLeft, sent, issued, faults, replays>>

\* Seeded bug: the activation forgets the index keys.
Activate_Unlisted(e) ==
    /\ outbox[e].status = "PREPARING"
    /\ outbox' = [outbox EXCEPT ![e].status = "PENDING"]
    /\ UNCHANGED <<task, runLeft, sent, issued, faults, replays>>

Activate(e) ==
    /\ outbox[e].status = "PREPARING"
    /\ outbox' = [outbox EXCEPT ![e] =
                    [@ EXCEPT !.status = "PENDING", !.index = "PENDING"]]
    /\ UNCHANGED <<task, runLeft, sent, issued, faults, replays>>

-----------------------------------------------------------------------------
(* list_dispatchable: the PENDING, FAILED_RETRYABLE and DISPATCHING          *)
(* partitions in that order, each from its oldest row, until the batch is    *)
(* full.                                                                     *)

PartitionOrder == [PENDING |-> 1, FAILED_RETRYABLE |-> 2, DISPATCHING |-> 3]

Older(e) == {f \in Events : outbox[f].index = outbox[e].index /\ f < e}

IsDispatchable(e) ==
    /\ outbox[e].index # "NONE"
    /\ outbox[e].index = "FAILED_RETRYABLE" => outbox[e].retryIn = 0
    /\ outbox[e].index = "DISPATCHING" => outbox[e].leaseIn = 0

ListedBefore(f, e) ==
    \/ PartitionOrder[outbox[f].index] < PartitionOrder[outbox[e].index]
    \/ outbox[f].index = outbox[e].index /\ f < e

IsListing(batch) ==
    LET reachable == {e \in Events :
                        /\ IsDispatchable(e)
                        /\ Cardinality(Older(e)) < ScanDepth
                        /\ issued[e] < MaxClaims}
    IN  /\ batch \subseteq reachable
        /\ \A e \in batch, f \in reachable \ batch : ~ListedBefore(f, e)
        /\ \/ batch = reachable /\ Cardinality(batch) <= BatchSize
           \/ Cardinality(batch) = BatchSize

ListedTask(e) ==
    [phase |-> "listed", status |-> outbox[e].status,
     version |-> outbox[e].version, attempt |-> 0, tries |-> 0]

BeginRun(p) ==
    /\ ~Running(p)
    /\ \E batch \in SUBSET Events :
        /\ batch # {}
        /\ IsListing(batch)
        /\ task' = [task EXCEPT ![p] = [e \in Events |->
                        IF e \in batch
                        THEN ListedTask(e) ELSE NoTask]]
    /\ runLeft' = [runLeft EXCEPT ![p] = RunTimeout]
    /\ UNCHANGED <<outbox, sent, issued, faults, replays>>

-----------------------------------------------------------------------------
(* claim: one conditional update per listed event, before any publish.       *)

\* Seeded bug: the claim tests the times only, not the row it has listed.
ClaimCondition_TimesOnly(e, seen) ==
    /\ seen.status = "FAILED_RETRYABLE" => outbox[e].retryIn = 0
    /\ seen.status = "DISPATCHING" => outbox[e].leaseIn = 0

ClaimCondition(e, seen) ==
    /\ outbox[e].status = seen.status
    /\ outbox[e].version = seen.version
    /\ seen.status = "FAILED_RETRYABLE" => outbox[e].retryIn = 0
    /\ seen.status = "DISPATCHING" => outbox[e].leaseIn = 0

\* Seeded bug: the claim writes no lease.
ClaimedRow_NoLease(e) ==
    [status |-> "DISPATCHING", index |-> "DISPATCHING",
     version |-> outbox[e].version + 1, attempt |-> issued[e] + 1,
     deliveryAttempts |-> outbox[e].deliveryAttempts + 1,
     retryIn |-> 0, leaseIn |-> 0]

ClaimedRow(e) ==
    [status |-> "DISPATCHING", index |-> "DISPATCHING",
     version |-> outbox[e].version + 1, attempt |-> issued[e] + 1,
     deliveryAttempts |-> outbox[e].deliveryAttempts + 1,
     retryIn |-> 0, leaseIn |-> Lease]

ClaimedTask(e) ==
    [phase |-> "claimed", status |-> "ABSENT", version |-> 0,
     attempt |-> issued[e] + 1, tries |-> outbox[e].deliveryAttempts + 1]

Claim(p, e) ==
    /\ task[p][e].phase = "listed"
    /\ ClaimCondition(e, task[p][e])
    /\ outbox' = [outbox EXCEPT ![e] = ClaimedRow(e)]
    /\ issued' = [issued EXCEPT ![e] = @ + 1]
    /\ SetTask(p, e, ClaimedTask(e))
    /\ UNCHANGED <<runLeft, sent, faults, replays>>

SkipClaim(p, e) ==
    /\ task[p][e].phase = "listed"
    /\ ~ClaimCondition(e, task[p][e])
    /\ SetTask(p, e, NoTask)
    /\ UNCHANGED <<outbox, runLeft, sent, issued, faults, replays>>

\* The claim is applied but its response is lost: claim() raises, so
\* publish_pending ends before it publishes anything it has claimed.
ClaimLost(p, e) ==
    /\ task[p][e].phase = "listed"
    /\ ClaimCondition(e, task[p][e])
    /\ Fault
    /\ outbox' = [outbox EXCEPT ![e] = ClaimedRow(e)]
    /\ issued' = [issued EXCEPT ![e] = @ + 1]
    /\ task' = [task EXCEPT ![p] = [f \in Events |-> NoTask]]
    /\ UNCHANGED <<runLeft, sent, replays>>

-----------------------------------------------------------------------------
(* _publish_claimed_event: the claimed events of a run, in parallel, once    *)
(* every listed event has been through claim.                                *)

AllClaimed(p) == \A e \in Events : task[p][e].phase # "listed"

Publish(p, e) ==
    /\ AllClaimed(p)
    /\ task[p][e].phase = "claimed"
    /\ sent' = [sent EXCEPT ![e] = @ + 1]
    /\ SetTask(p, e, [task[p][e] EXCEPT !.phase = "sent"])
    /\ UNCHANGED <<outbox, runLeft, issued, faults, replays>>

\* Seeded bug: a refused send passes for an accepted one.
PublishRefused_Ignored(p, e) ==
    /\ AllClaimed(p)
    /\ task[p][e].phase = "claimed"
    /\ SetTask(p, e, [task[p][e] EXCEPT !.phase = "sent"])
    /\ UNCHANGED <<outbox, runLeft, sent, issued, faults, replays>>

\* The send is refused (no route, queue error): nothing reached the queue.
PublishRefused(p, e) ==
    /\ AllClaimed(p)
    /\ task[p][e].phase = "claimed"
    /\ SetTask(p, e, [task[p][e] EXCEPT !.phase = "failing"])
    /\ UNCHANGED <<outbox, runLeft, sent, issued, faults, replays>>

\* SQS accepts the message but the call raises (the response is lost).
PublishLost(p, e) ==
    /\ AllClaimed(p)
    /\ task[p][e].phase = "claimed"
    /\ Fault
    /\ sent' = [sent EXCEPT ![e] = @ + 1]
    /\ SetTask(p, e, [task[p][e] EXCEPT !.phase = "failing"])
    /\ UNCHANGED <<outbox, runLeft, issued, replays>>

\* Seeded bug: the outcome is written whoever holds the claim.
OwnsAttempt_Unchecked(p, e) == TRUE

\* The condition every mark_* update carries.
OwnsAttempt(p, e) ==
    /\ outbox[e].status = "DISPATCHING"
    /\ outbox[e].attempt = task[p][e].attempt

DeliveredRow(e) ==
    UnclaimedRow(e, "DELIVERED", "NONE", outbox[e].deliveryAttempts, 0)

\* Seeded bug: the delivery is recorded before the send.
MarkDelivered_Unsent(p, e) ==
    /\ task[p][e].phase \in {"claimed", "sent"}
    /\ OwnsAttempt(p, e)
    /\ outbox' = [outbox EXCEPT ![e] = DeliveredRow(e)]
    /\ SetTask(p, e, NoTask)
    /\ UNCHANGED <<runLeft, sent, issued, faults, replays>>

MarkDelivered(p, e) ==
    /\ task[p][e].phase = "sent"
    /\ OwnsAttempt(p, e)
    /\ outbox' = [outbox EXCEPT ![e] = DeliveredRow(e)]
    /\ SetTask(p, e, NoTask)
    /\ UNCHANGED <<runLeft, sent, issued, faults, replays>>

\* mark_delivered lets ConditionalCheckFailedException escape, and the
\* except branch then treats the attempt as failed.
MarkDeliveredStale(p, e) ==
    /\ task[p][e].phase = "sent"
    /\ ~OwnsAttempt(p, e)
    /\ SetTask(p, e, [task[p][e] EXCEPT !.phase = "failing"])
    /\ UNCHANGED <<outbox, runLeft, sent, issued, faults, replays>>

\* mark_delivered raises, its update applied or not.
MarkDeliveredLost(p, e) ==
    /\ task[p][e].phase = "sent"
    /\ OwnsAttempt(p, e)
    /\ Fault
    /\ \/ outbox' = [outbox EXCEPT ![e] = DeliveredRow(e)]
       \/ UNCHANGED outbox
    /\ SetTask(p, e, [task[p][e] EXCEPT !.phase = "failing"])
    /\ UNCHANGED <<runLeft, sent, issued, replays>>

retry_delay(attempts) ==
    IF attempts \in DOMAIN RetryDelayByAttempt
    THEN RetryDelayByAttempt[attempts]
    ELSE MaxRetryDelay

\* Seeded bug: one attempt too many.
FailedRow_OneMore(e, tries) ==
    IF tries > MaxDeliveryAttempts
    THEN UnclaimedRow(e, "FAILED_PERMANENT", "NONE",
                      outbox[e].deliveryAttempts, 0)
    ELSE UnclaimedRow(e, "FAILED_RETRYABLE", "FAILED_RETRYABLE",
                      outbox[e].deliveryAttempts, retry_delay(tries))

\* Seeded bug: a permanent failure keeps its index keys.
FailedRow_StillListed(e, tries) ==
    IF tries >= MaxDeliveryAttempts
    THEN UnclaimedRow(e, "FAILED_PERMANENT", "DISPATCHING",
                      outbox[e].deliveryAttempts, 0)
    ELSE UnclaimedRow(e, "FAILED_RETRYABLE", "FAILED_RETRYABLE",
                      outbox[e].deliveryAttempts, retry_delay(tries))

FailedRow(e, tries) ==
    IF tries >= MaxDeliveryAttempts
    THEN UnclaimedRow(e, "FAILED_PERMANENT", "NONE",
                      outbox[e].deliveryAttempts, 0)
    ELSE UnclaimedRow(e, "FAILED_RETRYABLE", "FAILED_RETRYABLE",
                      outbox[e].deliveryAttempts, retry_delay(tries))

MarkFailed(p, e) ==
    /\ task[p][e].phase = "failing"
    /\ OwnsAttempt(p, e)
    /\ outbox' = [outbox EXCEPT ![e] = FailedRow(e, task[p][e].tries)]
    /\ SetTask(p, e, NoTask)
    /\ UNCHANGED <<runLeft, sent, issued, faults, replays>>

\* mark_failed_* returns None when its condition fails.
MarkFailedStale(p, e) ==
    /\ task[p][e].phase = "failing"
    /\ ~OwnsAttempt(p, e)
    /\ SetTask(p, e, NoTask)
    /\ UNCHANGED <<outbox, runLeft, sent, issued, faults, replays>>

\* mark_failed_* raises without being applied: the row stays DISPATCHING and
\* only its lease can free it.  The pool still finishes the other events.
MarkFailedLost(p, e) ==
    /\ task[p][e].phase = "failing"
    /\ Fault
    /\ SetTask(p, e, NoTask)
    /\ UNCHANGED <<outbox, runLeft, sent, issued, replays>>

-----------------------------------------------------------------------------
(* Crashes, the clock and the operator.                                      *)

\* The invocation dies, is killed at its timeout, or publish_pending ends
\* with an error raised by claim.
Crash(p) ==
    /\ Running(p)
    /\ Fault
    /\ task' = [task EXCEPT ![p] = [e \in Events |-> NoTask]]
    /\ UNCHANGED <<outbox, runLeft, sent, issued, replays>>

Less(n) == IF n = 0 THEN 0 ELSE n - 1

\* No invocation outlives its timeout.
Tick ==
    /\ \A p \in Publishers : Running(p) => runLeft[p] > 0
    /\ runLeft' = [p \in Publishers |-> Less(runLeft[p])]
    /\ outbox' = [e \in Events |->
                    [outbox[e] EXCEPT !.retryIn = Less(@), !.leaseIn = Less(@)]]
    /\ UNCHANGED <<task, sent, issued, faults, replays>>

\* replay_event: the strongly consistent read only rejects earlier what the
\* conditional update rejects.
Replay(e) ==
    /\ outbox[e].status = "FAILED_PERMANENT"
    /\ replays < MaxReplays
    /\ replays' = replays + 1
    /\ outbox' = [outbox EXCEPT ![e] = UnclaimedRow(e, "PENDING", "PENDING", 0, 0)]
    /\ UNCHANGED <<task, runLeft, sent, issued, faults>>

-----------------------------------------------------------------------------
RunStep(p, e) ==
    \/ Claim(p, e)
    \/ SkipClaim(p, e)
    \/ Publish(p, e)
    \/ PublishRefused(p, e)
    \/ MarkDelivered(p, e)
    \/ MarkDeliveredStale(p, e)
    \/ MarkFailed(p, e)
    \/ MarkFailedStale(p, e)

RunFault(p, e) ==
    \/ ClaimLost(p, e)
    \/ PublishLost(p, e)
    \/ MarkDeliveredLost(p, e)
    \/ MarkFailedLost(p, e)

Next ==
    \/ \E e \in Events : Prepare(e) \/ Activate(e) \/ Replay(e)
    \/ \E p \in Publishers : BeginRun(p) \/ Crash(p)
    \/ \E p \in Publishers, e \in Events : RunStep(p, e) \/ RunFault(p, e)
    \/ Tick

Spec == Init /\ [][Next]_vars

\* The EventBridge schedule keeps starting invocations, a started invocation
\* keeps making calls until it ends or dies, and time passes.  Nothing is
\* assumed of faults, of the API or of the operator.
Fairness ==
    /\ WF_vars(Tick)
    /\ \A p \in Publishers :
        /\ WF_vars(BeginRun(p))
        /\ WF_vars(\E e \in Events : RunStep(p, e))

FairSpec == Spec /\ Fairness

-----------------------------------------------------------------------------
(* Properties.                                                               *)

\* p has claimed e and has not yet recorded an outcome.
Holds(p, e) == task[p][e].phase \in {"claimed", "sent", "failing"}

\* At most one invocation works on an event at a time.  Concurrent schedules of
\* both regions list the same rows; the version and lease conditions of claim
\* keep the second one out (OUTBOX_OPERATIONS: "only one conditional claim can
\* succeed").  It needs RunTimeout < Lease.
OneHolder ==
    \A e \in Events : \A p, q \in Publishers :
        Holds(p, e) /\ Holds(q, e) => p = q

\* The claim of a running invocation is current and its lease outlasts the
\* invocation, so no other one can take the event from under it; the only
\* claim it may find gone is the one its own lost mark_delivered ended.
\* It needs RunTimeout < Lease.
ClaimOutlivesRun ==
    \A p \in Publishers, e \in Events : Holds(p, e) =>
        \/ OwnsAttempt(p, e) /\ outbox[e].leaseIn > runLeft[p]
        \/ task[p][e].phase = "failing" /\ outbox[e].status = "DELIVERED"

\* The queue receives an event more than once only after a crash or a lost
\* call: stale listings, overlapping schedules, retries of refused sends and
\* replays never duplicate a message on their own.  Needs RunTimeout < Lease.
DuplicateNeedsFault == \A e \in Events : sent[e] <= 1 + faults

\* Attempts beyond max_delivery_attempts are all paid for by a fault (claim
\* counts an attempt, only the failure handler compares it with the limit),
\* and an event is given up only at the limit.
AttemptBudget ==
    \A e \in Events :
        /\ outbox[e].deliveryAttempts <= MaxDeliveryAttempts + faults
        /\ outbox[e].status = "FAILED_RETRYABLE" =>
               outbox[e].deliveryAttempts < MaxDeliveryAttempts
        /\ outbox[e].status = "FAILED_PERMANENT" =>
               outbox[e].deliveryAttempts >= MaxDeliveryAttempts

\* A row is in exactly the index partition of its status while it can still be
\* dispatched, and in none otherwise: a row missing there is never delivered,
\* a terminal row left there is delivered again.
IndexMatchesStatus ==
    \A e \in Events : outbox[e].index =
        IF outbox[e].status \in DispatchableStatus THEN outbox[e].status ELSE "NONE"

\* DELIVERED is only recorded for an event SQS has accepted, whichever
\* invocation records it and however late.
DeliveredWasSent ==
    \A e \in Events : outbox[e].status = "DELIVERED" => sent[e] > 0

\* Nothing reopens a delivered row, not even an invocation whose claim lapsed
\* long ago and which now reports its own failure.
DeliveredIsFinal ==
    [][\A e \in Events :
          outbox[e].status = "DELIVERED" => outbox'[e].status = "DELIVERED"]_vars

\* While the claim of an invocation is current and its lease has not run out,
\* only that invocation changes the status of the row.
HolderKeepsRow ==
    [][\A p \in Publishers, e \in Events :
          (/\ Holds(p, e)
           /\ OwnsAttempt(p, e)
           /\ outbox[e].leaseIn > 0
           /\ outbox'[e].attempt # outbox[e].attempt)
          => task'[p][e] # task[p][e]]_vars

\* An activated event is eventually delivered or given up for the operator,
\* across crashes in any step, overlapping runs and unlucky listings.
Settles ==
    \A e \in Events :
        outbox[e].status = "PENDING"
            ~> outbox[e].status \in {"DELIVERED", "FAILED_PERMANENT"}

\* The publishers implement at-least-once delivery with a terminal outcome.
Standing(e) ==
    CASE outbox[e].status \in {"ABSENT", "PREPARING"} -> "unpublished"
      [] outbox[e].status \in DispatchableStatus -> "owed"
      [] outbox[e].status = "DELIVERED" -> "delivered"
      [] outbox[e].status = "FAILED_PERMANENT" -> "abandoned"

Promise == INSTANCE AtLeastOnce WITH
    state <- [e \in Events |-> Standing(e)],
    accepted <- sent

\* Every behaviour of the publishers is one of the promise: nothing is sent
\* before activation or after the outcome, nothing is recorded as delivered
\* that was not sent, and every owed event gets its outcome.
ImplementsPromise == Promise!Spec

=============================================================================
