-------------------------- MODULE WorkflowDispatch --------------------------
(***************************************************************************)
(* The dispatcher of uploaded resume analyses: core/workflow_dispatch.py,    *)
(* run by the publisher Lambda of the owner region after the outbox.         *)
(*                                                                           *)
(* The row of an analysis carries its own dispatch state next to the         *)
(* workflow status, and lists itself under gsi2 in the PENDING or the        *)
(* CLAIMED partition of its region, ordered by a time.  The workers change   *)
(* the workflow status of the same row as soon as the message is out, with   *)
(* no regard for the dispatch state.                                         *)
(*                                                                           *)
(* Times are countdowns: due = 0 once the time in gsi2sk has come.  While a  *)
(* row is CLAIMED that time is dispatchLeaseExpiresAt.                       *)
(***************************************************************************)
EXTENDS Naturals, Sequences, FiniteSets, WorkflowState

CONSTANTS
    Analyses,       \* uploaded resume analyses of one owner region
    Publishers,     \* concurrent invocations of the publisher Lambda
    BatchSize,      \* rows a query of gsi2 returns at most
    RunTimeout,     \* ticks after which Lambda kills an invocation
    Lease,          \* lease_seconds, in ticks
    BaseDelay,      \* the 60 s of retry_delay_seconds, in ticks
    MaxRetryDelay,  \* MAX_RETRY_DELAY_SECONDS, in ticks
    MaxTries,       \* bound: dispatchAttempts is not counted further
    MaxFaults       \* bound: crashes and failed calls in a behaviour

ASSUME DispatchAssumption ==
    /\ IsFiniteSet(Analyses) /\ IsFiniteSet(Publishers)
    /\ BatchSize \in Nat \ {0}
    /\ RunTimeout \in Nat \ {0} /\ Lease \in Nat \ {0}
    /\ BaseDelay \in Nat /\ MaxRetryDelay \in Nat
    /\ MaxTries \in Nat \ {0} /\ MaxFaults \in Nat
    /\ BaseDelay * 2^(MaxTries - 1) >= MaxRetryDelay
\* Arithmetic, which the prover does not know of: a power of two is a number.
ASSUME PowersAssumption == \A n \in 0..MaxTries : 2^n \in Nat

VARIABLES
    row,      \* row[a]: the record of analysis a
    index,    \* index[part]: the rows of a gsi2 partition, in gsi2sk order
    run,      \* run[p]: the invocation of publisher p
    runLeft,  \* runLeft[p]: ticks left before it is killed
    sent,     \* sent[a]: messages the queue has accepted for a
    faults    \* crashes and failed calls so far

vars == <<row, index, run, runLeft, sent, faults>>

Partition == {"PENDING", "CLAIMED"}
Row == [status : known_statuses \cup {"absent"},
        dispatch : {"PENDING", "CLAIMED", "DISPATCHED"},
        attempt : Nat, tries : 0..MaxTries, due : Nat]
\* attempt is dispatchAttemptId, which is compared only while the row is CLAIMED,
\* and 0 otherwise.  todo is the listing still to be worked through, each row as
\* it was seen; tries is the dispatchAttempts of the claimed row.
Run == [phase : {"idle", "recover", "claim", "send", "mark", "release"},
        todo : Seq([id : Analyses, attempt : Nat, tries : 0..MaxTries]),
        attempt : Nat, tries : 0..MaxTries]

Idle == [phase |-> "idle", todo |-> <<>>, attempt |-> 0, tries |-> 0]

TypeOK ==
    /\ row \in [Analyses -> Row]
    /\ index \in [Partition -> Seq(Analyses)]
    /\ run \in [Publishers -> Run]
    /\ runLeft \in [Publishers -> 0..RunTimeout]
    /\ sent \in [Analyses -> Nat]
    /\ faults \in 0..MaxFaults

Init ==
    /\ row = [a \in Analyses |-> [status |-> "absent", dispatch |-> "PENDING",
                                  attempt |-> 0, tries |-> 0, due |-> 0]]
    /\ index = [part \in Partition |-> <<>>]
    /\ run = [p \in Publishers |-> Idle]
    /\ runLeft = [p \in Publishers |-> 0]
    /\ sent = [a \in Analyses |-> 0]
    /\ faults = 0

Fault == faults < MaxFaults /\ faults' = faults + 1

-----------------------------------------------------------------------------
(* The gsi2 index.                                                           *)

\* Row a leaves a partition, in which it is listed once at most.
Without(seq, a) ==
    IF \E i \in DOMAIN seq : seq[i] = a
    THEN LET k == CHOOSE i \in DOMAIN seq : seq[i] = a
         IN  [i \in 1..(Len(seq) - 1) |-> IF i < k THEN seq[i] ELSE seq[i + 1]]
    ELSE seq

\* Row a comes to place k of a partition.
With(seq, k, a) ==
    [i \in 1..(Len(seq) + 1) |->
        IF i < k THEN seq[i] ELSE IF i = k THEN a ELSE seq[i - 1]]

\* Row a is listed in partition part only, behind the rows due no later than it.
MoveTo(part, a, due) ==
    LET others == [q \in Partition |-> Without(index[q], a)] IN
    \E k \in 1..(Len(others[part]) + 1) :
        /\ \A i \in DOMAIN others[part] : i < k <=> row[others[part][i]].due <= due
        /\ index' = [others EXCEPT ![part] = With(@, k, a)]

\* The first n rows of a partition, as a query returns them.
Listing(part, n) ==
    [i \in 1..n |->
        LET a == index[part][i]
        IN  [id |-> a, attempt |-> row[a].attempt,
             tries |-> IF part = "PENDING" THEN row[a].tries ELSE 0]]

\* What a query returns: rows in gsi2sk order until one whose time has not come,
\* the end of the partition, or BatchSize of them.
Query(part) ==
    {Listing(part, n) : n \in
        {n \in 0..BatchSize :
            /\ n <= Len(index[part])
            /\ \A i \in 1..n : row[index[part][i]].due = 0
            /\ n < BatchSize /\ n < Len(index[part])
                  => row[index[part][n + 1]].due > 0}}

-----------------------------------------------------------------------------
(* The API and the workers.                                                  *)

\* analyze_uploaded_resume stores the row, ready for dispatch.
Submit(a) ==
    /\ row[a].status = "absent"
    /\ row' = [row EXCEPT ![a].status = "QUEUED_PENDING_DISPATCH"]
    /\ MoveTo("PENDING", a, 0)
    /\ UNCHANGED <<run, runLeft, sent, faults>>

SetStatus(a, s) ==
    /\ row' = [row EXCEPT ![a].status = s]
    /\ UNCHANGED <<index, run, runLeft, sent, faults>>

WorkerClaims(a) ==
    /\ sent[a] > 0
    /\ row[a].status \in claimable_statuses("resumeAnalysis")
    /\ SetStatus(a, "WORKER_PROCESSING")

\* A terminal failure is to the dispatcher what completed is.
WorkerEnds(a) ==
    /\ row[a].status = "WORKER_PROCESSING"
    /\ \E s \in {"completed", "FAILED_RETRYABLE"} : SetStatus(a, s)

-----------------------------------------------------------------------------
(* dispatch_pending, first part: recover_expired_claims.                     *)

Begin(p) ==
    /\ run[p].phase = "idle"
    /\ \E todo \in Query("CLAIMED") :
          run' = [run EXCEPT ![p] = [Idle EXCEPT !.phase = "recover", !.todo = todo]]
    /\ runLeft' = [runLeft EXCEPT ![p] = RunTimeout]
    /\ UNCHANGED <<row, index, sent, faults>>

Finish(p) ==
    /\ run' = [run EXCEPT ![p] = Idle]
    /\ runLeft' = [runLeft EXCEPT ![p] = 0]

Current(p) == Head(run[p].todo).id
Skip(p) == run' = [run EXCEPT ![p].todo = Tail(@)]

\* Seeded bug: claims are never found expired.
ClaimExpired_Never(p) == FALSE

ClaimExpired(p) ==
    LET seen == Head(run[p].todo) IN
    /\ row[seen.id].dispatch = "CLAIMED"
    /\ row[seen.id].attempt = seen.attempt
    /\ row[seen.id].due = 0

Recover(p) ==
    /\ run[p].phase = "recover"
    /\ run[p].todo # <<>>
    /\ ClaimExpired(p)
    /\ row' = [row EXCEPT ![Current(p)].dispatch = "PENDING",
                          ![Current(p)].attempt = 0]
    /\ MoveTo("PENDING", Current(p), 0)
    /\ Skip(p)
    /\ UNCHANGED <<runLeft, sent, faults>>

SkipRecovery(p) ==
    /\ run[p].phase = "recover"
    /\ run[p].todo # <<>>
    /\ ~ClaimExpired(p)
    /\ Skip(p)
    /\ UNCHANGED <<row, index, runLeft, sent, faults>>

-----------------------------------------------------------------------------
(* dispatch_pending, second part: find_pending, then claim, send and         *)
(* mark_dispatched row by row.                                               *)

FindPending(p) ==
    /\ run[p].phase = "recover"
    /\ run[p].todo = <<>>
    /\ \E todo \in Query("PENDING") :
          run' = [run EXCEPT ![p].phase = "claim", ![p].todo = todo]
    /\ UNCHANGED <<row, index, runLeft, sent, faults>>

\* Seeded bugs: the claim forgets the dispatch state, or the workflow status.
ClaimCondition_AnyDispatch(p) == row[Current(p)].status = "QUEUED_PENDING_DISPATCH"
ClaimCondition_AnyStatus(p) == row[Current(p)].dispatch = "PENDING"

ClaimCondition(p) ==
    /\ row[Current(p)].dispatch = "PENDING"
    /\ row[Current(p)].status = "QUEUED_PENDING_DISPATCH"

\* The attempt ids somebody may still refer to.
UsedAttempts ==
    {row[a].attempt : a \in Analyses}
        \cup UNION {{run[p].todo[i].attempt : i \in DOMAIN run[p].todo}
                        \cup {run[p].attempt} : p \in Publishers}

\* A uuid4.
FreshAttempt == CHOOSE n \in 1..(Cardinality(UsedAttempts) + 1) : n \notin UsedAttempts

\* The attempts are counted from the listing, not from the row.
ClaimedRow(p) ==
    LET tries == Head(run[p].todo).tries IN
    [row[Current(p)] EXCEPT
        !.dispatch = "CLAIMED", !.attempt = FreshAttempt, !.due = Lease,
        !.tries = IF tries < MaxTries THEN tries + 1 ELSE tries]

\* The response carries the row; if it is lost the invocation ends.
Claim(p) ==
    /\ run[p].phase = "claim"
    /\ run[p].todo # <<>>
    /\ ClaimCondition(p)
    /\ row' = [row EXCEPT ![Current(p)] = ClaimedRow(p)]
    /\ MoveTo("CLAIMED", Current(p), Lease)
    /\ \/ /\ run' = [run EXCEPT ![p].phase = "send", ![p].attempt = FreshAttempt,
                                ![p].tries = row'[Current(p)].tries]
          /\ UNCHANGED <<runLeft, faults>>
       \/ Finish(p) /\ Fault
    /\ UNCHANGED sent

SkipClaim(p) ==
    /\ run[p].phase = "claim"
    /\ run[p].todo # <<>>
    /\ ~ClaimCondition(p)
    /\ Skip(p)
    /\ UNCHANGED <<row, index, runLeft, sent, faults>>

End(p) ==
    /\ run[p].phase = "claim"
    /\ run[p].todo = <<>>
    /\ Finish(p)
    /\ UNCHANGED <<row, index, sent, faults>>

Send(p) ==
    /\ run[p].phase = "send"
    /\ sent' = [sent EXCEPT ![Current(p)] = @ + 1]
    /\ run' = [run EXCEPT ![p].phase = "mark"]
    /\ UNCHANGED <<row, index, runLeft, faults>>

\* Seeded bug: a failed send passes for an accepted one.
SendFails_Ignored(p) ==
    /\ run[p].phase = "send"
    /\ Fault
    /\ run' = [run EXCEPT ![p].phase = "mark"]
    /\ UNCHANGED <<row, index, runLeft, sent>>

\* The send raises, accepted or not.
SendFails(p) ==
    /\ run[p].phase = "send"
    /\ Fault
    /\ \/ sent' = [sent EXCEPT ![Current(p)] = @ + 1]
       \/ UNCHANGED sent
    /\ run' = [run EXCEPT ![p].phase = "release"]
    /\ UNCHANGED <<row, index, runLeft>>

OwnsClaim(p) ==
    /\ row[Current(p)].dispatch = "CLAIMED"
    /\ row[Current(p)].attempt = run[p].attempt

\* Seeded bug: mark_dispatched does not test the workflow status.
MarkCondition_AnyStatus(p) == OwnsClaim(p)

MarkCondition(p) ==
    OwnsClaim(p) /\ row[Current(p)].status = "QUEUED_PENDING_DISPATCH"

\* The row keeps its place in the CLAIMED partition.
DispatchedRow(a) ==
    [row[a] EXCEPT !.dispatch = "DISPATCHED", !.status = "QUEUED", !.attempt = 0]

NextRow(p) ==
    run' = [run EXCEPT ![p] = [Idle EXCEPT !.phase = "claim", !.todo = Tail(run[p].todo)]]

MarkDispatched(p) ==
    /\ run[p].phase = "mark"
    /\ MarkCondition(p)
    /\ row' = [row EXCEPT ![Current(p)] = DispatchedRow(Current(p))]
    /\ NextRow(p)
    /\ UNCHANGED <<index, runLeft, sent, faults>>

MarkRefused(p) ==
    /\ run[p].phase = "mark"
    /\ ~MarkCondition(p)
    /\ run' = [run EXCEPT ![p].phase = "release"]
    /\ UNCHANGED <<row, index, runLeft, sent, faults>>

\* The update raises, applied or not.
MarkFails(p) ==
    /\ run[p].phase = "mark"
    /\ MarkCondition(p)
    /\ Fault
    /\ \/ row' = [row EXCEPT ![Current(p)] = DispatchedRow(Current(p))]
       \/ UNCHANGED row
    /\ run' = [run EXCEPT ![p].phase = "release"]
    /\ UNCHANGED <<index, runLeft, sent>>

retry_delay(tries) ==
    LET delay == BaseDelay * 2^(tries - 1)
    IN  IF delay < MaxRetryDelay THEN delay ELSE MaxRetryDelay

\* Seeded bug: the release forgets the index keys.
Release_Unlisted(p) ==
    /\ run[p].phase = "release"
    /\ OwnsClaim(p)
    /\ row' = [row EXCEPT ![Current(p)].dispatch = "PENDING", ![Current(p)].attempt = 0,
                          ![Current(p)].due = retry_delay(run[p].tries)]
    /\ NextRow(p)
    /\ UNCHANGED <<index, runLeft, sent, faults>>

Release(p) ==
    /\ run[p].phase = "release"
    /\ OwnsClaim(p)
    /\ row' = [row EXCEPT ![Current(p)].dispatch = "PENDING", ![Current(p)].attempt = 0,
                          ![Current(p)].due = retry_delay(run[p].tries)]
    /\ MoveTo("PENDING", Current(p), retry_delay(run[p].tries))
    /\ NextRow(p)
    /\ UNCHANGED <<runLeft, sent, faults>>

\* release_for_retry lets the refused condition escape: the invocation ends.
ReleaseRefused(p) ==
    /\ run[p].phase = "release"
    /\ ~OwnsClaim(p)
    /\ Finish(p)
    /\ UNCHANGED <<row, index, sent, faults>>

-----------------------------------------------------------------------------
\* The invocation dies, is killed, or a call of it raises.
Crash(p) ==
    /\ run[p].phase # "idle"
    /\ Fault
    /\ Finish(p)
    /\ UNCHANGED <<row, index, sent>>

Less(n) == IF n = 0 THEN 0 ELSE n - 1

Tick ==
    /\ \A p \in Publishers : run[p].phase # "idle" => runLeft[p] > 0
    /\ runLeft' = [p \in Publishers |-> Less(runLeft[p])]
    /\ row' = [a \in Analyses |-> [row[a] EXCEPT !.due = Less(@)]]
    /\ UNCHANGED <<index, run, sent, faults>>

RunStep(p) ==
    \/ Recover(p)
    \/ SkipRecovery(p)
    \/ FindPending(p)
    \/ Claim(p)
    \/ SkipClaim(p)
    \/ End(p)
    \/ Send(p)
    \/ MarkDispatched(p)
    \/ MarkRefused(p)
    \/ Release(p)
    \/ ReleaseRefused(p)

RunFault(p) == SendFails(p) \/ MarkFails(p) \/ Crash(p)

Next ==
    \/ \E a \in Analyses : Submit(a) \/ WorkerClaims(a) \/ WorkerEnds(a)
    \/ \E p \in Publishers : Begin(p) \/ RunStep(p) \/ RunFault(p)
    \/ Tick

Spec == Init /\ [][Next]_vars

\* The schedule keeps starting invocations, an invocation keeps making calls
\* until it ends or dies, and time passes.
Fairness ==
    /\ WF_vars(Tick)
    /\ \A p \in Publishers : WF_vars(Begin(p)) /\ WF_vars(RunStep(p))

FairSpec == Spec /\ Fairness

-----------------------------------------------------------------------------
(* Properties.                                                               *)

Holds(p) == run[p].phase \in {"send", "mark", "release"}

\* Two invocations never dispatch one analysis at a time: the claim condition
\* and the lease keep overlapping schedules apart.  Needs RunTimeout < Lease.
OneDispatcher ==
    \A p, q \in Publishers :
        Holds(p) /\ Holds(q) /\ Current(p) = Current(q) => p = q

\* A row is listed exactly once, in PENDING while its dispatch is pending and
\* in CLAIMED otherwise, and each partition is in the order of its times.
IndexMatchesDispatch ==
    /\ \A a \in Analyses, part \in Partition :
        (\E i \in DOMAIN index[part] : index[part][i] = a)
            <=> /\ row[a].status # "absent"
                /\ row[a].dispatch = "PENDING" <=> part = "PENDING"
    /\ \A part \in Partition : \A i, j \in DOMAIN index[part] : i < j =>
        /\ index[part][i] # index[part][j]
        /\ row[index[part][i]].due <= row[index[part][j]].due

\* A row reads DISPATCHED only after its message has been sent.
DispatchedWasSent ==
    \A a \in Analyses : row[a].dispatch = "DISPATCHED" => sent[a] > 0

\* An analysis is sent again only after a fault: overlapping invocations,
\* stale listings, retries and races with the worker never duplicate it.
SentOnce == \A a \in Analyses : sent[a] <= 1 + faults

\* "Dispatch may advance a workflow only from QUEUED_PENDING_DISPATCH to QUEUED"
\* (MR-013): however late mark_dispatched comes, it never pulls back an
\* analysis a worker has taken or finished.
DispatchOnlyAdvances ==
    [][\A a \in Analyses :
          row'[a].status = "QUEUED" /\ row[a].status # "QUEUED"
              => row[a].status = "QUEUED_PENDING_DISPATCH"]_vars

\* "The scheduled publisher dispatches to the owner-region queue"
\* (PLATFORM_V2_ARCHITECTURE): a stored analysis is eventually sent.
EventuallySent == \A a \in Analyses :
    row[a].status = "QUEUED_PENDING_DISPATCH" ~> sent[a] > 0

=============================================================================
