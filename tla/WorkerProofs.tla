---------------------------- MODULE WorkerProofs ----------------------------
(***************************************************************************)
(* Theorems about Worker, for every number of jobs and messages, every       *)
(* workflow type and every lease, visibility timeout and attempt limit.      *)
(***************************************************************************)
EXTENDS Worker, FiniteSetTheorems, TLAPS

-----------------------------------------------------------------------------
(* The status vocabulary and the retry policy.                               *)

LEMMA Vocabulary ==
    /\ known_statuses = {"ANALYSIS_IN_PROGRESS", "processing", "waiting",
          "QUEUED_PENDING_DISPATCH", "QUEUED", "WORKER_PROCESSING", "RESULT_READY",
          "FAILED_RETRYABLE", "completed", "FAILED_PERMANENT",
          "FAILED_RETRY_EXHAUSTED"}
    /\ FailedStatus \subseteq known_statuses
  BY DEF known_statuses, WORKFLOW_TRANSITIONS, FailedStatus

\* What a worker may claim from, it may claim by the matrix.
LEMMA ClaimableMayBeClaimed ==
    ASSUME NEW type, NEW s \in claimable_statuses(type)
    PROVE  /\ can_transition(s, "WORKER_PROCESSING")
           /\ s \notin {"completed", "deleted", "WORKER_PROCESSING"} \cup FailedStatus
  BY DEF claimable_statuses, FailedStatus

\* What update_claimed_record writes over a claimed row is in the matrix.
LEMMA OutcomesAreInMatrix ==
    /\ \A s \in TERMINAL_STATUSES \cup {"FAILED_RETRYABLE", "RESULT_READY"} :
          can_transition("WORKER_PROCESSING", s)
    /\ can_transition("QUEUED_PENDING_DISPATCH", "QUEUED")
  BY DEF can_transition, known_statuses, WORKFLOW_TRANSITIONS, TERMINAL_STATUSES,
         FailedStatus

\* A terminal decision writes a failed status, any other one FAILED_RETRYABLE.
LEMMA TerminalMeansFailed ==
    ASSUME NEW error \in Errors, NEW attempt \in Nat, NEW max \in Nat
    PROVE  /\ terminal(error, attempt, max) =>
                 FailureStatus(error, attempt, max) \in FailedStatus
           /\ FailureStatus(error, attempt, max) \in FailedStatus \cup {"FAILED_RETRYABLE"}
  BY DEF terminal, FailureStatus, exhausted, retryable, FailedStatus

-----------------------------------------------------------------------------
(* Types.                                                                    *)

LEMMA LessIsBounded == \A n \in Nat : Less(n) \in 0..n
  BY DEF Less

LEMMA RowTyped == ASSUME TypeOK, NEW m \in Messages PROVE RowOf(m) \in Row /\ JobOf[m] \in Jobs
  BY JobsAssumption DEF TypeOK, RowOf

LEMMA IdleIsRun ==
    ASSUME NEW ph \in Phase
    PROVE  [Idle EXCEPT !.phase = ph] \in Run /\ Idle \in Run
  BY Vocabulary DEF Idle, Run, Phase, Status, Errors

LEMMA ClosedRowIsRow ==
    ASSUME TypeOK, NEW m \in Messages, NEW s \in Status
    PROVE  ClosedRow(m, s) \in Row
<1>1. 0 \in 0..Lease /\ RowOf(m).version + 1 \in Nat
  BY RowTyped, TimeoutAssumption DEF Row
<1>2. QED
  BY <1>1, RowTyped DEF ClosedRow, Row

LEMMA FailedRowIsRow ==
    ASSUME TypeOK, NEW m \in Messages
    PROVE  FailedRow(m) \in Row
<1>1. run[m].error \in Errors /\ msg[m].receives \in Nat /\ MaxProcessingAttempts \in Nat
  BY LimitsAssumption DEF TypeOK, Run, Message
<1>2. FailureStatus(run[m].error, msg[m].receives, MaxProcessingAttempts) \in Status
  BY <1>1, TerminalMeansFailed, Vocabulary DEF Status
<1>3. QED
  BY <1>2, ClosedRowIsRow DEF FailedRow

LEMMA ClaimedRowIsRow ==
    ASSUME TypeOK, NEW m \in Messages
    PROVE  ClaimedRow(m) \in Row
<1>1. Lease \in 0..Lease /\ RowOf(m).version + 1 \in Nat
  BY RowTyped, TimeoutAssumption DEF Row
<1>2. "WORKER_PROCESSING" \in Status
  BY Vocabulary DEF Status
<1>3. QED
  BY <1>1, <1>2, RowTyped DEF ClaimedRow, Row

LEMMA PublishedRowIsRow ==
    ASSUME TypeOK, NEW m \in Messages
    PROVE  PublishedRow(m) \in Row
  BY RowTyped DEF PublishedRow, Row

LEMMA DispositionIsPhase ==
    \A m \in Messages :
        Disposition(m) \in {"error", "ok", "announcing", "claiming"}
  BY DEF Disposition

LEMMA SetRowIsTyped ==
    ASSUME TypeOK, NEW m \in Messages, NEW row \in Row, SetRow(m, row)
    PROVE  /\ job' \in [Jobs -> Row] /\ job'[JobOf[m]] = row
           /\ \A j \in Jobs : j # JobOf[m] => job'[j] = job[j]
  BY RowTyped DEF TypeOK, SetRow

LEMMA GotoIsTyped ==
    ASSUME TypeOK, NEW m \in Messages, NEW ph \in Phase, Goto(m, ph)
    PROVE  /\ run' \in [Messages -> Run]
           /\ run'[m] = [run[m] EXCEPT !.phase = ph]
           /\ \A n \in Messages : n # m => run'[n] = run[n]
<1>1. [run[m] EXCEPT !.phase = ph] \in Run
  BY DEF TypeOK, Run
<1>2. QED
  BY <1>1 DEF TypeOK, Goto

LEMMA LeaveIsTyped ==
    ASSUME TypeOK, NEW m \in Messages, NEW ph \in Phase, Leave(m, ph)
    PROVE  /\ run' \in [Messages -> Run] /\ run'[m].phase = ph
           /\ \A n \in Messages : n # m => run'[n] = run[n]
<1>1. [Idle EXCEPT !.phase = ph] \in Run /\ [Idle EXCEPT !.phase = ph].phase = ph
  BY IdleIsRun DEF Idle
<1>2. QED
  BY <1>1 DEF TypeOK, Leave

LEMMA EndIsTyped ==
    ASSUME TypeOK, NEW m \in Messages, End(m)
    PROVE  /\ run' \in [Messages -> Run] /\ run'[m].phase = "idle"
           /\ runLeft' \in [Messages -> 0..RunTimeout] /\ runLeft'[m] = 0
           /\ \A n \in Messages : n # m => run'[n] = run[n] /\ runLeft'[n] = runLeft[n]
<1>1. 0 \in 0..RunTimeout
  BY TimeoutAssumption
<1>2. QED
  BY <1>1, LeaveIsTyped DEF TypeOK, End, Phase

LEMMA FailWithIsTyped ==
    ASSUME TypeOK, NEW m \in Messages, NEW error \in Errors, FailWith(m, error)
    PROVE  /\ run' \in [Messages -> Run]
           /\ run'[m].phase = "failing" /\ run'[m].attempt = run[m].attempt
           /\ \A n \in Messages : n # m => run'[n] = run[n]
<1>1. run' = [run EXCEPT ![m] = [run[m] EXCEPT !.phase = "failing", !.error = error]]
  BY DEF FailWith, TypeOK
<1>2. run[m] \in Run
  BY DEF TypeOK
<1>3. [run[m] EXCEPT !.phase = "failing", !.error = error] \in Run
  BY <1>2 DEF Run, Phase
<1>4. QED
  BY <1>1, <1>2, <1>3 DEF TypeOK, Run

LEMMA FaultIsTyped ==
    ASSUME TypeOK, Fault
    PROVE  faults' \in 0..MaxFaults /\ faults' = faults + 1
  BY LimitsAssumption DEF TypeOK, Fault

LEMMA MessageTyped ==
    ASSUME TypeOK, NEW m \in Messages
    PROVE  /\ msg[m] \in Message /\ run[m] \in Run
           /\ runLeft[m] \in 0..RunTimeout
  BY DEF TypeOK

LEMMA EnvelopeIsTyped ==
    ASSUME TypeOK, NEW m \in Messages,
           envelopes' = [envelopes EXCEPT ![JobOf[m]] = @ + 1]
    PROVE  /\ envelopes' \in [Jobs -> Nat]
           /\ envelopes'[JobOf[m]] = envelopes[JobOf[m]] + 1
           /\ \A j \in Jobs : j # JobOf[m] => envelopes'[j] = envelopes[j]
  BY RowTyped DEF TypeOK

-----------------------------------------------------------------------------
(* What one step of a message and its run does, the rest left alone.         *)

Others(m) ==
    /\ \A n \in Messages : n # m =>
          run'[n] = run[n] /\ msg'[n] = msg[n] /\ runLeft'[n] = runLeft[n]
    /\ \A j \in Jobs : j # JobOf[m] =>
          job'[j] = job[j] /\ envelopes'[j] = envelopes[j]

Rests(m) == job'[JobOf[m]] = job[JobOf[m]] /\ envelopes'[JobOf[m]] = envelopes[JobOf[m]]

\* The step is a call of the run: the queue does not notice.
Calls(m) == msg'[m] = msg[m] /\ runLeft'[m] = runLeft[m]

Arrives(m) ==
    /\ Rests(m)
    /\ run'[m] = run[m] /\ runLeft'[m] = runLeft[m]
    /\ msg[m].state = "unsent" /\ msg'[m].state = "queued"
    /\ msg'[m].hidden = msg[m].hidden

IsReceived(m) ==
    /\ Rests(m)
    /\ Visible(m)
    /\ run'[m].phase = "received" /\ runLeft'[m] = RunTimeout
    /\ msg'[m].state = "queued" /\ msg'[m].hidden = Visibility

IsParked(m) ==
    /\ Rests(m)
    /\ Visible(m)
    /\ run'[m] = run[m] /\ runLeft'[m] = runLeft[m]
    /\ msg'[m].state = "dead" /\ msg'[m].hidden = msg[m].hidden

Ends(m) ==
    /\ Rests(m)
    /\ run[m].phase # "idle" /\ run'[m].phase = "idle" /\ runLeft'[m] = 0
    /\ \/ run[m].phase = "ok" /\ msg'[m].state = "acked" /\ faults' = faults
       \/ run[m].phase = "error" /\ msg'[m] = msg[m] /\ faults' = faults
       \/ msg'[m] = msg[m] /\ faults' = faults + 1

Reads(m) ==
    /\ Rests(m) /\ Calls(m)
    /\ run[m].phase = "received" /\ run'[m].phase = Disposition(m)
    /\ run'[m].seen = job[JobOf[m]].status
    /\ run'[m].version = job[JobOf[m]].version

Claims(m) ==
    /\ Calls(m) /\ envelopes'[JobOf[m]] = envelopes[JobOf[m]]
    /\ run[m].phase = "claiming" /\ ClaimCondition(m)
    /\ job'[JobOf[m]] = ClaimedRow(m)
    /\ \/ run'[m].phase = "working" /\ run'[m].attempt = job[JobOf[m]].version + 1
       \/ run'[m].phase = "error" /\ faults' = faults + 1

IsRefused(m) ==
    /\ Rests(m) /\ Calls(m)
    /\ run[m].phase = "claiming" /\ ~ClaimCondition(m)
    /\ run'[m] = [run[m] EXCEPT !.phase = "raced"]

ReadsAgain(m) ==
    /\ Rests(m) /\ Calls(m)
    /\ run[m].phase = "raced" /\ run'[m].phase \in {"ok", "error"}
    /\ run'[m].phase = "ok" =>
          job[JobOf[m]].status \in {"completed", "WORKER_PROCESSING"}

Fails(m) ==
    /\ Rests(m) /\ Calls(m)
    /\ run[m].phase = "working" /\ CallsProvider(m)
    /\ run'[m].phase = "failing" /\ run'[m].attempt = run[m].attempt

Completes(m) ==
    /\ Calls(m) /\ envelopes'[JobOf[m]] = envelopes[JobOf[m]]
    /\ StoresResult(m) /\ OwnsAttempt(m)
    /\ job'[JobOf[m]] = ClosedRow(m, "completed")
    /\ run'[m].phase \in {"ok", "failing"}

RecordsFailure(m) ==
    /\ Calls(m) /\ envelopes'[JobOf[m]] = envelopes[JobOf[m]]
    /\ run[m].phase = "failing" /\ OwnsAttempt(m)
    /\ job'[JobOf[m]] = FailedRow(m)
    /\ \/ run'[m].phase = "announcing" /\ IsTerminal(m)
       \/ run'[m].phase = "error"

GivesUp(m) ==
    /\ Rests(m) /\ Calls(m)
    /\ run[m].phase = "failing"
    /\ \/ run'[m].phase = "error" /\ (~OwnsAttempt(m) \/ faults' = faults + 1)
       \/ run'[m].phase = "ok" /\ ~OwnsAttempt(m)

Announces(m) ==
    /\ Calls(m) /\ job'[JobOf[m]] = job[JobOf[m]]
    /\ run[m].phase = "announcing"
    /\ \/ /\ envelopes'[JobOf[m]] = envelopes[JobOf[m]] + 1
          /\ run'[m].phase = "marking"
       \/ /\ envelopes'[JobOf[m]] \in {envelopes[JobOf[m]], envelopes[JobOf[m]] + 1}
          /\ run'[m].phase = "error" /\ faults' = faults + 1

Marks(m) ==
    /\ Calls(m) /\ envelopes'[JobOf[m]] = envelopes[JobOf[m]]
    /\ run[m].phase = "marking" /\ run'[m].phase \in {"ok", "error"}
    /\ \/ Unannounced(m) /\ job'[JobOf[m]] = PublishedRow(m)
       \/ /\ job'[JobOf[m]] = job[JobOf[m]]
          /\ run'[m].phase = "error"
          /\ ~Unannounced(m) \/ faults' = faults + 1

MessageMoves(m) ==
    /\ Others(m)
    /\ faults' \in {faults, faults + 1}
    /\ \/ Arrives(m) \/ IsReceived(m) \/ IsParked(m) \/ Ends(m) \/ Reads(m)
       \/ Claims(m) \/ IsRefused(m) \/ ReadsAgain(m) \/ Fails(m) \/ Completes(m)
       \/ RecordsFailure(m) \/ GivesUp(m) \/ Announces(m) \/ Marks(m)

\* The steps of the queue, and the end of a run.
LEMMA QueueMoves ==
    ASSUME TypeOK, NEW m \in Messages,
           Enqueue(m) \/ QueueStep(m) \/ Return(m) \/ Crash(m)
    PROVE  TypeOK' /\ MessageMoves(m)
<1>1. msg[m] \in Message /\ UNCHANGED <<job, envelopes>>
  BY MessageTyped DEF Enqueue, QueueStep, Receive, Redrive, Return, Crash
<1>2. Rests(m) /\ \A j \in Jobs : job'[j] = job[j] /\ envelopes'[j] = envelopes[j]
  BY <1>1 DEF Rests
<1>3. CASE Enqueue(m) \/ Redrive(m)
  <2>1. PICK s \in {"queued", "dead"} :
           /\ msg' = [msg EXCEPT ![m].state = s]
           /\ Enqueue(m) => s = "queued"
           /\ Redrive(m) => s = "dead"
    BY <1>3 DEF Enqueue, Redrive, Visible
  <2>2. [msg[m] EXCEPT !.state = s] \in Message
    BY <1>1 DEF Message
  <2>3. /\ msg' \in [Messages -> Message]
        /\ msg'[m].state = s /\ msg'[m].hidden = msg[m].hidden
        /\ \A n \in Messages : n # m => msg'[n] = msg[n]
    BY <1>1, <2>1, <2>2 DEF TypeOK, Message
  <2>4. UNCHANGED <<job, run, runLeft, envelopes, faults>>
    BY <1>3 DEF Enqueue, Redrive
  <2>5. TypeOK'
    BY <2>3, <2>4 DEF TypeOK
  <2>6. Arrives(m) \/ IsParked(m)
    BY <1>2, <1>3, <2>1, <2>3, <2>4 DEF Enqueue, Redrive, Arrives, IsParked
  <2>7. QED
    BY <1>2, <2>3, <2>4, <2>5, <2>6 DEF MessageMoves, Others
<1>4. CASE Receive(m)
  <2>1. msg[m].receives + 1 \in 0..MaxReceives /\ Visibility \in 0..Visibility
    BY <1>1, <1>4, LimitsAssumption, TimeoutAssumption DEF Receive, Message
  <2>2. RunTimeout \in 0..RunTimeout
    BY TimeoutAssumption
  <2>3. /\ msg' \in [Messages -> Message]
        /\ msg'[m].state = "queued" /\ msg'[m].hidden = Visibility
        /\ \A n \in Messages : n # m => msg'[n] = msg[n]
    BY <1>4, <2>1 DEF Receive, TypeOK, Message
  <2>4. /\ runLeft' \in [Messages -> 0..RunTimeout] /\ runLeft'[m] = RunTimeout
        /\ \A n \in Messages : n # m => runLeft'[n] = runLeft[n]
    BY <1>4, <2>2 DEF Receive, TypeOK
  <2>5. /\ run' \in [Messages -> Run] /\ run'[m].phase = "received"
        /\ \A n \in Messages : n # m => run'[n] = run[n]
    <3>1. "received" \in Phase
      BY DEF Phase
    <3>2. Goto(m, "received")
      BY <1>4 DEF Receive
    <3>3. /\ run' \in [Messages -> Run]
          /\ run'[m] = [run[m] EXCEPT !.phase = "received"]
          /\ \A n \in Messages : n # m => run'[n] = run[n]
      BY <3>1, <3>2, GotoIsTyped
    <3>4. QED
      BY <3>3, MessageTyped DEF Run
  <2>6. TypeOK'
    BY <1>4, <2>3, <2>4, <2>5 DEF Receive, TypeOK
  <2>7. IsReceived(m)
    BY <1>2, <1>4, <2>3, <2>4, <2>5 DEF Receive, IsReceived
  <2>8. QED
    BY <1>2, <1>4, <2>3, <2>4, <2>5, <2>6, <2>7 DEF Receive, MessageMoves, Others
<1>5. CASE Return(m) \/ Crash(m)
  <2>1. End(m) /\ run[m].phase # "idle"
    BY <1>5 DEF Return, Crash
  <2>2. /\ run' \in [Messages -> Run] /\ run'[m].phase = "idle"
        /\ runLeft' \in [Messages -> 0..RunTimeout] /\ runLeft'[m] = 0
        /\ \A n \in Messages : n # m => run'[n] = run[n] /\ runLeft'[n] = runLeft[n]
    BY <2>1, EndIsTyped
  <2>3. /\ msg' \in [Messages -> Message]
        /\ \A n \in Messages : n # m => msg'[n] = msg[n]
        /\ \/ run[m].phase = "ok" /\ msg'[m].state = "acked" /\ Return(m)
           \/ run[m].phase = "error" /\ msg'[m] = msg[m] /\ Return(m)
           \/ msg'[m] = msg[m] /\ Crash(m)
    <3>1. CASE Crash(m)
      BY <3>1 DEF Crash, TypeOK
    <3>2. CASE Return(m)
      <4>1. 0 \in 0..Visibility
        BY TimeoutAssumption
      <4>2. [state |-> "acked", receives |-> msg[m].receives, hidden |-> 0] \in Message
        BY <1>1, <4>1 DEF Message
      <4>3. QED
        BY <3>2, <4>2 DEF Return, TypeOK
    <3>3. QED
      BY <1>5, <3>1, <3>2
  <2>4. /\ faults' \in 0..MaxFaults
        /\ Return(m) => faults' = faults
        /\ Crash(m) => faults' = faults + 1
    BY <1>5, FaultIsTyped DEF Return, Crash, TypeOK
  <2>5. TypeOK'
    BY <1>1, <2>2, <2>3, <2>4 DEF TypeOK
  <2>6. Ends(m)
    BY <1>2, <2>1, <2>2, <2>3, <2>4 DEF Ends
  <2>7. QED
    BY <1>2, <1>5, <2>2, <2>3, <2>4, <2>5, <2>6 DEF MessageMoves, Others
<1>6. QED
  BY <1>3, <1>4, <1>5 DEF QueueStep

\* The step of a run that leaves queue, rows and envelopes alone.
LEMMA RunOnlyMoves ==
    ASSUME TypeOK, NEW m \in Messages,
           UNCHANGED <<job, msg, runLeft, envelopes>>,
           faults' \in 0..MaxFaults, faults' \in {faults, faults + 1},
           run' \in [Messages -> Run],
           \A n \in Messages : n # m => run'[n] = run[n]
    PROVE  /\ TypeOK' /\ Others(m) /\ Rests(m) /\ Calls(m)
           /\ faults' \in {faults, faults + 1}
  BY DEF TypeOK, Others, Rests, Calls

\* The step of a run that writes its row.
LEMMA RowOnlyMoves ==
    ASSUME TypeOK, NEW m \in Messages, NEW row \in Row, SetRow(m, row),
           UNCHANGED <<msg, runLeft, envelopes>>,
           faults' \in 0..MaxFaults, faults' \in {faults, faults + 1},
           run' \in [Messages -> Run],
           \A n \in Messages : n # m => run'[n] = run[n]
    PROVE  /\ TypeOK' /\ Others(m) /\ Calls(m)
           /\ job'[JobOf[m]] = row
           /\ envelopes'[JobOf[m]] = envelopes[JobOf[m]]
           /\ faults' \in {faults, faults + 1}
  BY SetRowIsTyped DEF TypeOK, Others, Calls

LEMMA PhasesAre ==
    {"idle", "received", "claiming", "raced", "working", "failing", "announcing",
     "marking", "ok", "error"} = Phase
  BY DEF Phase

\* The reads, and the claim that is refused.
LEMMA ReadMoves ==
    ASSUME TypeOK, NEW m \in Messages, Read(m) \/ ClaimRefused(m) \/ ReadAgain(m)
    PROVE  TypeOK' /\ MessageMoves(m)
<1>1. /\ UNCHANGED <<job, msg, runLeft, envelopes>>
      /\ faults' = faults /\ faults' \in 0..MaxFaults
  BY DEF Read, ClaimRefused, ReadAgain, TypeOK
<1>2. CASE Read(m)
  <2>1. run[m] \in Run /\ RowOf(m) \in Row /\ Disposition(m) \in Phase
    BY MessageTyped, RowTyped, DispositionIsPhase, PhasesAre
  <2>2. [run[m] EXCEPT !.phase = Disposition(m), !.seen = RowOf(m).status,
                       !.version = RowOf(m).version] \in Run
    BY <2>1 DEF Run, Row
  <2>3. /\ run' \in [Messages -> Run]
        /\ run'[m] = [run[m] EXCEPT !.phase = Disposition(m), !.seen = RowOf(m).status,
                                    !.version = RowOf(m).version]
        /\ \A n \in Messages : n # m => run'[n] = run[n]
    BY <1>2, <2>2 DEF Read, TypeOK
  <2>4. Reads(m)
    BY <1>1, <1>2, <2>1, <2>3, RunOnlyMoves DEF Read, Reads, Run, RowOf
  <2>5. QED
    BY <1>1, <2>3, <2>4, RunOnlyMoves DEF MessageMoves
<1>3. CASE ClaimRefused(m)
  <2>1. /\ run' \in [Messages -> Run]
        /\ run'[m] = [run[m] EXCEPT !.phase = "raced"]
        /\ \A n \in Messages : n # m => run'[n] = run[n]
    BY <1>3, GotoIsTyped, PhasesAre DEF ClaimRefused
  <2>2. IsRefused(m)
    BY <1>1, <1>3, <2>1, RunOnlyMoves DEF ClaimRefused, IsRefused
  <2>3. QED
    BY <1>1, <2>1, <2>2, RunOnlyMoves DEF MessageMoves
<1>4. CASE ReadAgain(m)
  <2>1. PICK ph \in {"ok", "error"} :
           /\ Leave(m, ph)
           /\ ph = "ok" => RowOf(m).status \in {"completed", "WORKER_PROCESSING"}
    BY <1>4 DEF ReadAgain
  <2>2. ph \in Phase
    BY PhasesAre
  <2>3. /\ run' \in [Messages -> Run] /\ run'[m].phase = ph
        /\ \A n \in Messages : n # m => run'[n] = run[n]
    BY <2>1, <2>2, LeaveIsTyped
  <2>4. ReadsAgain(m)
    BY <1>1, <1>4, <2>1, <2>3, RunOnlyMoves DEF ReadAgain, ReadsAgain, RowOf
  <2>5. QED
    BY <1>1, <2>3, <2>4, RunOnlyMoves DEF MessageMoves
<1>5. QED
  BY <1>2, <1>3, <1>4

\* The claim, with its response or without.
LEMMA ClaimMoves ==
    ASSUME TypeOK, NEW m \in Messages, Claim(m) \/ ClaimLost(m)
    PROVE  TypeOK' /\ MessageMoves(m)
<1>1. /\ UNCHANGED <<msg, runLeft, envelopes>>
      /\ SetRow(m, ClaimedRow(m)) /\ ClaimedRow(m) \in Row
      /\ run[m].phase = "claiming" /\ ClaimCondition(m)
  BY ClaimedRowIsRow DEF Claim, ClaimLost
<1>2. faults' \in 0..MaxFaults /\ faults' \in {faults, faults + 1}
  BY FaultIsTyped DEF Claim, ClaimLost, TypeOK
<1>3. /\ run' \in [Messages -> Run]
      /\ \A n \in Messages : n # m => run'[n] = run[n]
      /\ \/ run'[m].phase = "working" /\ run'[m].attempt = RowOf(m).version + 1
         \/ run'[m].phase = "error" /\ faults' = faults + 1
  <2>1. CASE Claim(m)
    <3>1. run[m] \in Run /\ RowOf(m).version + 1 \in Nat /\ "working" \in Phase
      BY MessageTyped, RowTyped, PhasesAre DEF Row
    <3>2. [run[m] EXCEPT !.phase = "working", !.attempt = RowOf(m).version + 1] \in Run
      BY <3>1 DEF Run
    <3>3. run' = [run EXCEPT ![m] =
             [run[m] EXCEPT !.phase = "working", !.attempt = RowOf(m).version + 1]]
      BY <2>1 DEF Claim, TypeOK
    <3>4. QED
      BY <3>1, <3>2, <3>3 DEF TypeOK, Run
  <2>2. CASE ClaimLost(m)
    BY <2>2, LeaveIsTyped, PhasesAre DEF ClaimLost, Fault
  <2>3. QED
    BY <2>1, <2>2
<1>4. Claims(m)
  BY <1>1, <1>2, <1>3, RowOnlyMoves DEF Claims, RowOf
<1>5. QED
  BY <1>1, <1>2, <1>3, <1>4, RowOnlyMoves DEF MessageMoves

\* The result of the attempt, stored or not.
LEMMA ResultMoves ==
    ASSUME TypeOK, NEW m \in Messages, Complete(m) \/ CompleteLost(m) \/ AttemptFails(m)
    PROVE  TypeOK' /\ MessageMoves(m)
<1>1. /\ UNCHANGED <<msg, runLeft, envelopes>>
      /\ run[m].phase = "working" /\ CallsProvider(m)
  BY DEF Complete, CompleteLost, AttemptFails, StoresResult, CallsProvider
<1>2. faults' \in 0..MaxFaults /\ faults' \in {faults, faults + 1}
  BY FaultIsTyped DEF Complete, CompleteLost, AttemptFails, TypeOK
<1>3. ProviderErrors \subseteq Errors /\ {"client", "server"} \subseteq Errors
  BY JobsAssumption DEF Errors
<1>4. /\ run' \in [Messages -> Run]
      /\ \A n \in Messages : n # m => run'[n] = run[n]
      /\ \/ run'[m].phase = "failing" /\ run'[m].attempt = run[m].attempt
         \/ run'[m].phase = "ok"
  <2>1. CASE \E error \in Errors : FailWith(m, error)
    BY <2>1, FailWithIsTyped
  <2>2. CASE Leave(m, "ok")
    BY <2>2, LeaveIsTyped, PhasesAre
  <2>3. QED
    BY <1>3, <2>1, <2>2 DEF Complete, CompleteLost, AttemptFails
<1>5. CASE UNCHANGED job /\ run'[m].phase = "failing" /\ run'[m].attempt = run[m].attempt
  <2>1. Fails(m)
    BY <1>1, <1>2, <1>4, <1>5, RunOnlyMoves DEF Fails
  <2>2. QED
    BY <1>1, <1>2, <1>4, <1>5, <2>1, RunOnlyMoves DEF MessageMoves
<1>6. CASE SetRow(m, ClosedRow(m, "completed")) /\ OwnsAttempt(m) /\ StoresResult(m)
  <2>1. ClosedRow(m, "completed") \in Row
    BY ClosedRowIsRow, Vocabulary DEF Status
  <2>2. Completes(m)
    BY <1>1, <1>2, <1>4, <1>6, <2>1, RowOnlyMoves DEF Completes
  <2>3. QED
    BY <1>1, <1>2, <1>4, <1>6, <2>1, <2>2, RowOnlyMoves DEF MessageMoves
<1>7. \/ SetRow(m, ClosedRow(m, "completed")) /\ OwnsAttempt(m) /\ StoresResult(m)
      \/ UNCHANGED job /\ \E error \in Errors : FailWith(m, error)
  BY <1>3 DEF Complete, CompleteLost, AttemptFails
<1>8. QED
  BY <1>5, <1>6, <1>7, FailWithIsTyped

\* The failure of the attempt, recorded or not.
LEMMA FailureMoves ==
    ASSUME TypeOK, NEW m \in Messages,
           MarkFailed(m) \/ MarkFailedRefused(m) \/ MarkFailedLost(m)
    PROVE  TypeOK' /\ MessageMoves(m)
<1>1. /\ UNCHANGED <<msg, runLeft, envelopes>>
      /\ run[m].phase = "failing" /\ FailedRow(m) \in Row
  BY FailedRowIsRow DEF MarkFailed, MarkFailedRefused, MarkFailedLost
<1>2. faults' \in 0..MaxFaults /\ faults' \in {faults, faults + 1}
  BY FaultIsTyped DEF MarkFailed, MarkFailedRefused, MarkFailedLost, TypeOK
<1>3. PICK ph \in {"announcing", "ok", "error"} :
         /\ Leave(m, ph)
         /\ ph = "announcing" => IsTerminal(m) /\ MarkFailed(m)
         /\ ph = "ok" => MarkFailedRefused(m)
  BY DEF MarkFailed, MarkFailedRefused, MarkFailedLost
<1>4. /\ run' \in [Messages -> Run] /\ run'[m].phase = ph
      /\ \A n \in Messages : n # m => run'[n] = run[n]
  BY <1>3, LeaveIsTyped, PhasesAre
<1>5. CASE SetRow(m, FailedRow(m)) /\ OwnsAttempt(m)
  <2>1. ph # "ok"
    BY <1>3, <1>5 DEF MarkFailedRefused
  <2>2. RecordsFailure(m)
    BY <1>1, <1>2, <1>3, <1>4, <1>5, <2>1, RowOnlyMoves DEF RecordsFailure
  <2>3. QED
    BY <1>1, <1>2, <1>4, <1>5, <2>2, RowOnlyMoves DEF MessageMoves
<1>6. CASE UNCHANGED job /\ (MarkFailedRefused(m) \/ MarkFailedLost(m))
  <2>1. \/ ph = "error" /\ (~OwnsAttempt(m) \/ faults' = faults + 1)
        \/ ph = "ok" /\ ~OwnsAttempt(m)
        \/ ph = "announcing" /\ OwnsAttempt(m) /\ SetRow(m, FailedRow(m))
    BY <1>3, <1>6 DEF MarkFailedRefused, MarkFailed, MarkFailedLost, Fault
  <2>2. CASE ph # "announcing"
    <3>1. Rests(m) /\ Calls(m)
      BY <1>1, <1>2, <1>4, <1>6, RunOnlyMoves
    <3>2. GivesUp(m)
      BY <1>1, <1>4, <2>1, <2>2, <3>1 DEF GivesUp
    <3>3. QED
      BY <1>1, <1>2, <1>4, <1>6, <3>2, RunOnlyMoves DEF MessageMoves
  <2>3. QED
    BY <1>5, <2>1, <2>2
<1>7. QED
  BY <1>5, <1>6 DEF MarkFailed, MarkFailedRefused, MarkFailedLost

\* The announcement of a terminal failure, and its mark.
LEMMA AnnouncementMoves ==
    ASSUME TypeOK, NEW m \in Messages,
           \/ Announce(m) \/ AnnounceLost(m)
           \/ MarkPublished(m) \/ MarkPublishedLost(m)
    PROVE  TypeOK' /\ MessageMoves(m)
<1>1. UNCHANGED <<msg, runLeft>>
  BY DEF Announce, AnnounceLost, MarkPublished, MarkPublishedLost
<1>2. /\ faults' \in 0..MaxFaults /\ faults' \in {faults, faults + 1}
      /\ AnnounceLost(m) \/ MarkPublishedLost(m) => faults' = faults + 1
  BY FaultIsTyped DEF Announce, AnnounceLost, MarkPublished, MarkPublishedLost, TypeOK
<1>3. PICK ph \in {"marking", "ok", "error"} :
         /\ Leave(m, ph)
         /\ Announce(m) => ph = "marking"
         /\ AnnounceLost(m) \/ MarkPublishedLost(m) => ph = "error"
         /\ MarkPublished(m) => ph \in {"ok", "error"}
  <2>1. /\ Announce(m) => run[m].phase = "announcing" /\ Leave(m, "marking")
        /\ AnnounceLost(m) => run[m].phase = "announcing" /\ Leave(m, "error")
                               /\ Fault
        /\ MarkPublishedLost(m) => run[m].phase = "marking" /\ Leave(m, "error")
                                    /\ Fault
        /\ MarkPublished(m) => /\ run[m].phase = "marking"
                               /\ \E ph \in {"ok", "error"} : Leave(m, ph)
    BY DEF Announce, AnnounceLost, MarkPublished, MarkPublishedLost
  <2>2. faults \in Nat
    BY LimitsAssumption DEF TypeOK
  <2>3. Announce(m) => ~AnnounceLost(m) /\ ~MarkPublishedLost(m)
    BY <2>2 DEF Announce, AnnounceLost, MarkPublishedLost, Fault
  <2>4. MarkPublished(m) => ~AnnounceLost(m) /\ ~MarkPublishedLost(m) /\ ~Announce(m)
    BY <2>2 DEF Announce, AnnounceLost, MarkPublishedLost, MarkPublished, Fault
  <2>5. QED
    BY <2>1, <2>3, <2>4
<1>4. /\ run' \in [Messages -> Run] /\ run'[m].phase = ph
      /\ \A n \in Messages : n # m => run'[n] = run[n]
  BY <1>3, LeaveIsTyped, PhasesAre
<1>5. CASE Announce(m) \/ AnnounceLost(m)
  <2>1. /\ UNCHANGED job /\ run[m].phase = "announcing"
        /\ \/ envelopes' = [envelopes EXCEPT ![JobOf[m]] = @ + 1]
           \/ UNCHANGED envelopes /\ AnnounceLost(m)
    BY <1>5 DEF Announce, AnnounceLost
  <2>2. /\ envelopes' \in [Jobs -> Nat]
        /\ \A j \in Jobs : j # JobOf[m] => envelopes'[j] = envelopes[j]
        /\ \/ envelopes'[JobOf[m]] = envelopes[JobOf[m]] + 1
           \/ envelopes'[JobOf[m]] = envelopes[JobOf[m]] /\ AnnounceLost(m)
    BY <2>1, EnvelopeIsTyped DEF TypeOK
  <2>3. TypeOK'
    BY <1>1, <1>2, <1>4, <2>1, <2>2 DEF TypeOK
  <2>4. Announces(m)
    BY <1>1, <1>2, <1>3, <1>4, <1>5, <2>1, <2>2 DEF Announces, Calls
  <2>5. QED
    BY <1>1, <1>2, <1>4, <2>1, <2>2, <2>3, <2>4 DEF MessageMoves, Others
<1>6. CASE (MarkPublished(m) \/ MarkPublishedLost(m)) /\ SetRow(m, PublishedRow(m))
           /\ Unannounced(m)
  <2>1. UNCHANGED envelopes /\ run[m].phase = "marking" /\ ph \in {"ok", "error"}
    BY <1>3, <1>6 DEF MarkPublished, MarkPublishedLost
  <2>2. Marks(m)
    BY <1>1, <1>2, <1>4, <1>6, <2>1, PublishedRowIsRow, RowOnlyMoves DEF Marks
  <2>3. QED
    BY <1>1, <1>2, <1>4, <1>6, <2>1, <2>2, PublishedRowIsRow, RowOnlyMoves
    DEF MessageMoves
<1>7. CASE \/ MarkPublishedLost(m) /\ UNCHANGED job
           \/ MarkPublished(m) /\ ~Unannounced(m) /\ UNCHANGED job /\ Leave(m, "error")
  <2>1. UNCHANGED envelopes /\ run[m].phase = "marking"
    BY <1>7 DEF MarkPublished, MarkPublishedLost
  <2>2. run'[m].phase = "error"
    BY <1>3, <1>4, <1>7, LeaveIsTyped, PhasesAre
  <2>3. Marks(m)
    BY <1>1, <1>2, <1>4, <1>7, <2>1, <2>2, RunOnlyMoves DEF Marks, Rests
  <2>4. QED
    BY <1>1, <1>2, <1>4, <1>7, <2>1, <2>3, RunOnlyMoves DEF MessageMoves
<1>8. QED
  BY <1>5, <1>6, <1>7 DEF MarkPublished, MarkPublishedLost

\* Every step of a message, of its run or of the faults it meets.
LEMMA MessageStep ==
    ASSUME TypeOK, NEW m \in Messages,
           Enqueue(m) \/ QueueStep(m) \/ RunStep(m) \/ RunFault(m)
    PROVE  TypeOK' /\ MessageMoves(m)
  BY QueueMoves, ReadMoves, ClaimMoves, ResultMoves, FailureMoves, AnnouncementMoves
  DEF RunStep, RunFault

\* The clock runs the countdowns down, and only while no run is out of time.
TickMoves ==
    /\ \A m \in Messages :
          /\ run'[m] = run[m]
          /\ run[m].phase # "idle" => runLeft[m] > 0
          /\ runLeft'[m] = Less(runLeft[m])
          /\ msg'[m].state = msg[m].state
          /\ msg'[m].hidden = Less(msg[m].hidden)
    /\ \A j \in Jobs :
          /\ job'[j].status = job[j].status
          /\ job'[j].version = job[j].version
          /\ job'[j].attempt = job[j].attempt
          /\ job'[j].published = job[j].published
          /\ job'[j].leaseIn = Less(job[j].leaseIn)
          /\ envelopes'[j] = envelopes[j]
    /\ faults' = faults

LEMMA ClockStep == ASSUME TypeOK, Tick PROVE TypeOK' /\ TickMoves
<1>1. ASSUME NEW m \in Messages
      PROVE  /\ Less(runLeft[m]) \in 0..RunTimeout
             /\ msg'[m] = [msg[m] EXCEPT !.hidden = Less(@)]
             /\ msg'[m] \in Message
             /\ msg'[m].state = msg[m].state
             /\ msg'[m].hidden = Less(msg[m].hidden)
  <2>1. msg[m] \in Message /\ runLeft[m] \in 0..RunTimeout
    BY MessageTyped
  <2>2. msg[m].hidden \in 0..Visibility /\ RunTimeout \in Nat /\ Visibility \in Nat
    BY <2>1, TimeoutAssumption DEF Message
  <2>3. Less(runLeft[m]) \in 0..RunTimeout /\ Less(msg[m].hidden) \in 0..Visibility
    BY <2>1, <2>2 DEF Less
  <2>4. msg'[m] = [msg[m] EXCEPT !.hidden = Less(@)]
    BY DEF Tick
  <2>5. QED
    BY <2>1, <2>3, <2>4 DEF Message
<1>2. ASSUME NEW j \in Jobs
      PROVE  /\ job'[j] \in Row
             /\ job'[j].status = job[j].status
             /\ job'[j].version = job[j].version
             /\ job'[j].attempt = job[j].attempt
             /\ job'[j].published = job[j].published
             /\ job'[j].leaseIn = Less(job[j].leaseIn)
  <2>1. job[j] \in Row
    BY DEF TypeOK
  <2>2. Lease \in Nat /\ job[j].leaseIn \in 0..Lease
    BY <2>1, TimeoutAssumption DEF Row
  <2>3. Less(job[j].leaseIn) \in 0..Lease
    BY <2>2 DEF Less
  <2>4. job'[j] = [job[j] EXCEPT !.leaseIn = Less(@)]
    BY DEF Tick
  <2>5. QED
    BY <2>1, <2>3, <2>4 DEF Row
<1>3. job' \in [Jobs -> Row] /\ msg' \in [Messages -> Message]
  BY <1>1, <1>2 DEF Tick
<1>4. QED
  BY <1>1, <1>2, <1>3 DEF Tick, TypeOK, TickMoves

\* The user and the dispatcher change one row, and nothing else.
RowMoves(j) ==
    /\ \A i \in Jobs : i # j => job'[i] = job[i]
    /\ UNCHANGED <<msg, run, runLeft, envelopes, faults>>
    /\ job'[j].version = job[j].version
    /\ job'[j].published = job[j].published
    /\ \/ job'[j].status = "deleted" /\ job'[j].attempt = 0 /\ job'[j].leaseIn = 0
       \/ /\ job[j].status = "QUEUED_PENDING_DISPATCH" /\ job'[j].status = "QUEUED"
          /\ job'[j].attempt = job[j].attempt /\ job'[j].leaseIn = job[j].leaseIn

LEMMA OutsideStep ==
    ASSUME TypeOK, NEW j \in Jobs, Delete(j) \/ MarkDispatched(j)
    PROVE  TypeOK' /\ RowMoves(j)
<1>1. job[j] \in Row /\ 0 \in 0..Lease /\ {"deleted", "QUEUED"} \subseteq Status
  BY TimeoutAssumption, Vocabulary DEF TypeOK, Status
<1>2. PICK row :
         /\ job' = [job EXCEPT ![j] = row]
         /\ \/ row = [job[j] EXCEPT !.status = "deleted", !.attempt = 0, !.leaseIn = 0]
            \/ /\ job[j].status = "QUEUED_PENDING_DISPATCH"
               /\ row = [job[j] EXCEPT !.status = "QUEUED"]
  BY DEF Delete, MarkDispatched
<1>3. row \in Row
  <2>1. [job[j] EXCEPT !.status = "deleted", !.attempt = 0, !.leaseIn = 0] \in Row
    BY <1>1 DEF Row
  <2>2. [job[j] EXCEPT !.status = "QUEUED"] \in Row
    BY <1>1 DEF Row
  <2>3. QED
    BY <1>2, <2>1, <2>2
<1>4. /\ job' \in [Jobs -> Row] /\ job'[j] = row
      /\ \A i \in Jobs : i # j => job'[i] = job[i]
  BY <1>2, <1>3 DEF TypeOK
<1>5. UNCHANGED <<msg, run, runLeft, envelopes, faults>>
  BY DEF Delete, MarkDispatched
<1>6. RowMoves(j)
  BY <1>1, <1>2, <1>4, <1>5 DEF RowMoves, Row
<1>7. QED
  BY <1>4, <1>5, <1>6 DEF TypeOK

\* A step of the system, for the proofs that follow.
LEMMA EveryStepMoves ==
    ASSUME TypeOK, [Next]_vars
    PROVE  \/ \E m \in Messages : MessageMoves(m)
           \/ \E j \in Jobs : RowMoves(j)
           \/ TickMoves
           \/ UNCHANGED vars
  BY MessageStep, ClockStep, OutsideStep DEF Next

LEMMA InitIsTyped == Init => TypeOK
<1> SUFFICES ASSUME Init PROVE TypeOK
  OBVIOUS
<1>1. 0 \in 0..Lease /\ 0 \in 0..Visibility /\ 0 \in 0..RunTimeout
      /\ 0 \in 0..MaxReceives /\ 0 \in 0..MaxFaults
  BY TimeoutAssumption, LimitsAssumption
<1>2. job \in [Jobs -> Row]
  BY <1>1, JobsAssumption DEF Init, Row, Status
<1>3. msg \in [Messages -> Message]
  BY <1>1 DEF Init, Message
<1>4. run \in [Messages -> Run]
  BY IdleIsRun, PhasesAre DEF Init
<1>5. QED
  BY <1>1, <1>2, <1>3, <1>4 DEF Init, TypeOK

\* Every variable keeps its type: phases, statuses and errors stay in their
\* vocabularies, and no countdown or delivery count leaves its range.
THEOREM TypeCorrect == Spec => []TypeOK
<1>1. Init => TypeOK
  BY InitIsTyped
<1>2. TypeOK /\ [Next]_vars => TypeOK'
  <2> SUFFICES ASSUME TypeOK, [Next]_vars PROVE TypeOK'
    OBVIOUS
  <2>1. CASE Next
    BY <2>1, MessageStep, ClockStep, OutsideStep DEF Next
  <2>2. CASE UNCHANGED vars
    BY <2>2 DEF TypeOK, vars
  <2>3. QED
    BY <2>1, <2>2
<1>3. QED
  BY <1>1, <1>2, PTL DEF Spec

-----------------------------------------------------------------------------
(* Claims.  A run claims from the row it has read: the version tells whether *)
(* anybody has claimed or closed the row since, and a lease that had run out *)
(* when the row was read has not come back at the same version.              *)

RunsAreQueued ==
    \A m \in Messages : run[m].phase # "idle" => msg[m].state = "queued"

ClaimsAreAllowed ==
    \A m \in Messages : run[m].phase = "claiming" =>
        /\ run[m].seen \in claimable_statuses(JobType[JobOf[m]])
                              \cup {"WORKER_PROCESSING"}
        /\ run[m].version <= RowOf(m).version
        /\ ClaimCondition(m) /\ RowOf(m).status = "WORKER_PROCESSING"
              => RowOf(m).leaseIn = 0

ReadInv == RunsAreQueued /\ ClaimsAreAllowed

LEMMA LessIsLess == \A n \in Nat : Less(n) \in Nat /\ Less(n) <= n
  BY DEF Less

LEMMA RowFields ==
    ASSUME TypeOK, NEW j \in Jobs
    PROVE  job[j].version \in Nat /\ job[j].leaseIn \in Nat
  BY TimeoutAssumption DEF TypeOK, Row

\* At one version a row keeps its status and its lease only runs down, unless
\* the user or the dispatcher moves the status of an unclaimed row.
RowAdvances(j) ==
    \/ /\ job'[j].version = job[j].version
       /\ \/ job'[j].status = job[j].status /\ job'[j].leaseIn <= job[j].leaseIn
          \/ job'[j].status # "WORKER_PROCESSING"
    \/ job'[j].version = job[j].version + 1

LEMMA RowsAdvance ==
    ASSUME TypeOK, [Next]_vars, NEW j \in Jobs
    PROVE  RowAdvances(j)
<1>1. /\ job[j].version \in Nat /\ job[j].leaseIn \in Nat
      /\ Less(job[j].leaseIn) <= job[j].leaseIn
  BY RowFields, LessIsLess
<1>2. CASE job'[j] = job[j]
  BY <1>1, <1>2 DEF RowAdvances
<1>3. ASSUME NEW m \in Messages, MessageMoves(m), j = JobOf[m], job'[j] # job[j]
      PROVE  RowAdvances(j)
  <2>1. RowOf(m) = job[j] /\ job[j] \in Row
    BY <1>3 DEF RowOf, TypeOK
  <2>2. \/ job'[j] = ClaimedRow(m)
        \/ \E s : job'[j] = ClosedRow(m, s)
        \/ job'[j] = PublishedRow(m)
    BY <1>3
    DEF MessageMoves, Arrives, IsReceived, IsParked, Ends, Reads, Claims, IsRefused,
        ReadsAgain, Fails, Completes, RecordsFailure, FailedRow, GivesUp, Announces,
        Marks, Rests
  <2>3. \/ job'[j].version = job[j].version + 1
        \/ /\ job'[j].version = job[j].version /\ job'[j].status = job[j].status
           /\ job'[j].leaseIn = job[j].leaseIn
    BY <2>1, <2>2 DEF ClaimedRow, ClosedRow, PublishedRow, Row
  <2>4. QED
    BY <1>1, <2>3 DEF RowAdvances
<1>4. CASE \E m \in Messages : MessageMoves(m)
  BY <1>2, <1>3, <1>4 DEF MessageMoves, Others
<1>5. CASE \E i \in Jobs : RowMoves(i)
  BY <1>2, <1>5 DEF RowMoves, RowAdvances
<1>6. CASE TickMoves
  BY <1>1, <1>6 DEF TickMoves, RowAdvances
<1>7. CASE UNCHANGED vars
  BY <1>2, <1>7 DEF vars
<1>8. QED
  BY <1>4, <1>5, <1>6, <1>7, EveryStepMoves

\* A claim that is allowed stays allowed until it is made.
LEMMA ClaimStaysAllowed ==
    ASSUME TypeOK, TypeOK', ClaimsAreAllowed, NEW m \in Messages,
           RowAdvances(JobOf[m]), run[m].phase = "claiming", run'[m] = run[m]
    PROVE  /\ run[m].version <= RowOf(m)'.version
           /\ ClaimCondition(m)' /\ RowOf(m)'.status = "WORKER_PROCESSING"
                 => RowOf(m)'.leaseIn = 0
<1> DEFINE j == JobOf[m]
<1>1. /\ j \in Jobs /\ RowOf(m) = job[j] /\ RowOf(m)' = job'[j]
      /\ job[j].version \in Nat /\ job[j].leaseIn \in Nat
      /\ job'[j].version \in Nat /\ job'[j].leaseIn \in Nat
      /\ run[m].version \in Nat
  BY RowFields, RowTyped, MessageTyped, TimeoutAssumption DEF RowOf, Run, TypeOK, Row
<1>2. /\ run[m].version <= job[j].version
      /\ ClaimCondition(m) /\ job[j].status = "WORKER_PROCESSING"
            => job[j].leaseIn = 0
  BY <1>1 DEF ClaimsAreAllowed
<1>3. RowAdvances(j)
  OBVIOUS
<1> HIDE DEF j
<1>4. run[m].version <= job'[j].version
  BY <1>1, <1>2, <1>3 DEF RowAdvances
<1>5. ASSUME ClaimCondition(m)', job'[j].status = "WORKER_PROCESSING"
      PROVE  job'[j].leaseIn = 0
  <2>1. run[m].version = job'[j].version /\ run[m].seen = job'[j].status
    BY <1>1, <1>5 DEF ClaimCondition
  <2>2. /\ job'[j].version = job[j].version
        /\ job'[j].status = job[j].status /\ job'[j].leaseIn <= job[j].leaseIn
    BY <1>1, <1>2, <1>3, <1>5, <2>1 DEF RowAdvances
  <2>3. ClaimCondition(m)
    BY <1>1, <2>1, <2>2 DEF ClaimCondition
  <2>4. QED
    BY <1>1, <1>2, <1>5, <2>2, <2>3
<1>6. QED
  BY <1>1, <1>4, <1>5

\* Every other step of a run is a call.
LEMMA RunsMoveInCalls ==
    ASSUME NEW m \in Messages,
           \/ Reads(m) \/ Claims(m) \/ IsRefused(m) \/ ReadsAgain(m) \/ Fails(m)
           \/ Completes(m) \/ RecordsFailure(m) \/ GivesUp(m) \/ Announces(m)
           \/ Marks(m)
    PROVE  Calls(m) /\ run[m].phase # "idle"
  BY DEF Reads, Claims, IsRefused, ReadsAgain, Fails, Completes, RecordsFailure,
         GivesUp, Announces, Marks, StoresResult, CallsProvider

\* The runs a step leaves alone.
LEMMA OtherRuns ==
    ASSUME TypeOK, [Next]_vars, NEW n \in Messages
    PROVE  \/ MessageMoves(n)
           \/ run'[n] = run[n] /\ msg'[n].state = msg[n].state
  BY EveryStepMoves DEF MessageMoves, Others, RowMoves, TickMoves, vars

LEMMA ReadStep ==
    ASSUME TypeOK, TypeOK', ReadInv, [Next]_vars
    PROVE  ReadInv'
<1>1. ASSUME NEW m \in Messages, run'[m].phase # "idle"
      PROVE  msg'[m].state = "queued"
  <2>1. CASE run'[m] = run[m] /\ msg'[m].state = msg[m].state
    BY <1>1, <2>1 DEF ReadInv, RunsAreQueued
  <2>2. CASE MessageMoves(m)
    <3>1. \/ Calls(m) /\ run[m].phase # "idle"
          \/ Arrives(m) \/ IsReceived(m) \/ IsParked(m) \/ Ends(m)
      BY <2>2, RunsMoveInCalls DEF MessageMoves
    <3>2. CASE Calls(m) /\ run[m].phase # "idle"
      BY <3>2 DEF Calls, ReadInv, RunsAreQueued
    <3>3. CASE Arrives(m) \/ IsReceived(m) \/ IsParked(m) \/ Ends(m)
      BY <1>1, <3>3 DEF Arrives, IsReceived, IsParked, Ends, Visible
    <3>4. QED
      BY <3>1, <3>2, <3>3
  <2>3. QED
    BY <2>1, <2>2, OtherRuns
<1>2. ASSUME NEW m \in Messages, run'[m].phase = "claiming"
      PROVE  /\ run'[m].seen \in claimable_statuses(JobType[JobOf[m]])
                                    \cup {"WORKER_PROCESSING"}
             /\ run'[m].version <= RowOf(m)'.version
             /\ ClaimCondition(m)' /\ RowOf(m)'.status = "WORKER_PROCESSING"
                   => RowOf(m)'.leaseIn = 0
  <2>1. CASE run'[m] = run[m]
    <3>1. RowAdvances(JobOf[m])
      BY RowsAdvance, RowTyped
    <3>2. QED
      BY <1>2, <2>1, <3>1, ClaimStaysAllowed DEF ReadInv, ClaimsAreAllowed
  <2>2. CASE Reads(m)
    <3>1. /\ RowOf(m) = job[JobOf[m]] /\ RowOf(m)' = RowOf(m)
          /\ run'[m].seen = RowOf(m).status
          /\ run'[m].version = RowOf(m).version
          /\ RowOf(m).version \in Nat
      BY <2>2, RowFields, RowTyped DEF Reads, Rests, RowOf
    <3>2. Claimable(m) /\ ~LeaseLive(RowOf(m))
      BY <1>2, <2>2 DEF Reads, Disposition
    <3>3. RowOf(m).leaseIn \in Nat
      BY RowFields, RowTyped DEF RowOf
    <3>4. QED
      BY <3>1, <3>2, <3>3 DEF Claimable, LeaseLive
  <2>3. MessageMoves(m) => Reads(m) \/ run'[m] = run[m]
    BY <1>2, MessageTyped
    DEF MessageMoves, Arrives, IsReceived, IsParked, Ends, Claims, IsRefused, Run,
        ReadsAgain, Fails, Completes, RecordsFailure, GivesUp, Announces, Marks
  <2>4. QED
    BY <2>1, <2>2, <2>3, OtherRuns
<1>3. QED
  BY <1>1, <1>2 DEF ReadInv, RunsAreQueued, ClaimsAreAllowed

LEMMA InitReads == Init => ReadInv
  BY IdleIsRun DEF Init, ReadInv, RunsAreQueued, ClaimsAreAllowed, Idle

LEMMA ReadsAreSound == Spec => []ReadInv
<1>1. Init => ReadInv
  BY InitReads
<1>2. TypeOK /\ TypeOK' /\ ReadInv /\ [Next]_vars => ReadInv'
  BY ReadStep
<1>3. QED
  BY <1>1, <1>2, TypeCorrect, PTL DEF Spec

-----------------------------------------------------------------------------
(* One worker.  OneWorker alone is not inductive: that a second claim fails  *)
(* follows from the first worker's lease outlasting its run.                 *)

ClaimHeld ==
    \A m \in Messages : Working(m) =>
        \/ OwnsAttempt(m) /\ RowOf(m).leaseIn > runLeft[m]
        \/ RowOf(m).status = "deleted"
        \/ RowOf(m).status = "completed" /\ run[m].phase = "failing"

WorkerInv == OneWorker /\ ClaimHeld

\* A claim that succeeds finds nobody working on the job.
LEMMA ClaimFindsNoWorker ==
    ASSUME TypeOK, ReadInv, WorkerInv, NEW m \in Messages,
           run[m].phase = "claiming", ClaimCondition(m),
           NEW n \in Messages, JobOf[n] = JobOf[m]
    PROVE  ~Working(n)
<1> SUFFICES ASSUME Working(n) PROVE FALSE
  OBVIOUS
<1>1. RowOf(n) = RowOf(m) /\ run[m].seen = RowOf(m).status
  BY DEF RowOf, ClaimCondition
<1>2. RowOf(m).status \notin {"completed", "deleted"}
  BY <1>1, ClaimableMayBeClaimed DEF ReadInv, ClaimsAreAllowed
<1>3. OwnsAttempt(n) /\ RowOf(m).leaseIn > runLeft[n]
  BY <1>1, <1>2 DEF WorkerInv, ClaimHeld
<1>4. RowOf(m).leaseIn = 0
  BY <1>1, <1>3 DEF OwnsAttempt, ReadInv, ClaimsAreAllowed
<1>5. runLeft[n] \in Nat
  BY MessageTyped, TimeoutAssumption
<1>6. QED
  BY <1>3, <1>4, <1>5

\* A step that leaves a row alone and starts no work on it.
LEMMA QuietRuns ==
    ASSUME WorkerInv, NEW m \in Messages, Others(m), Rests(m),
           Working(m)' => /\ Working(m) /\ runLeft'[m] = runLeft[m]
                          /\ run'[m].attempt = run[m].attempt
                          /\ run[m].phase = "failing" => run'[m].phase = "failing"
    PROVE  WorkerInv'
<1>1. \A n \in Messages : RowOf(n)' = RowOf(n)
  BY JobsAssumption DEF Others, Rests, RowOf
<1>2. \A n \in Messages : Working(n)' =>
         /\ Working(n) /\ runLeft'[n] = runLeft[n]
         /\ run'[n].attempt = run[n].attempt
         /\ run[n].phase = "failing" => run'[n].phase = "failing"
  BY DEF Others, Working
<1>3. QED
  BY <1>1, <1>2 DEF WorkerInv, OneWorker, ClaimHeld, OwnsAttempt

\* A step that changes the row of a job on which nobody else works.
LEMMA LoneRun ==
    ASSUME WorkerInv, NEW m \in Messages, Others(m),
           \A n \in Messages : n # m /\ JobOf[n] = JobOf[m] => ~Working(n),
           Working(m)' => \/ OwnsAttempt(m)' /\ RowOf(m)'.leaseIn > runLeft'[m]
                          \/ RowOf(m)'.status = "completed" /\ run'[m].phase = "failing"
    PROVE  WorkerInv'
<1>1. \A n \in Messages : n # m =>
         /\ run'[n] = run[n] /\ runLeft'[n] = runLeft[n]
         /\ JobOf[n] # JobOf[m] => RowOf(n)' = RowOf(n)
         /\ Working(n)' => JobOf[n] # JobOf[m] /\ Working(n)
  BY JobsAssumption DEF Others, RowOf, Working
<1>2. ClaimHeld'
  BY <1>1 DEF WorkerInv, ClaimHeld, OwnsAttempt
<1>3. OneWorker'
  BY <1>1 DEF WorkerInv, OneWorker
<1>4. QED
  BY <1>2, <1>3 DEF WorkerInv

\* A step that closes a claimed row closes the only run that works on it.
LEMMA OwnerIsAlone ==
    ASSUME WorkerInv, NEW m \in Messages, Working(m), OwnsAttempt(m),
           NEW n \in Messages, n # m, JobOf[n] = JobOf[m]
    PROVE  ~Working(n)
  BY DEF WorkerInv, OneWorker, OwnsAttempt

LEMMA MessageKeepsWorker ==
    ASSUME TypeOK, ReadInv, WorkerInv, RunTimeout < Lease,
           NEW m \in Messages, MessageMoves(m)
    PROVE  WorkerInv'
<1>1. Others(m) /\ RowOf(m) = job[JobOf[m]] /\ RowOf(m)' = job'[JobOf[m]]
  BY DEF MessageMoves, RowOf
<1>2. CASE \/ Arrives(m) \/ IsReceived(m) \/ IsParked(m) \/ Ends(m) \/ Reads(m)
           \/ IsRefused(m) \/ ReadsAgain(m) \/ GivesUp(m)
  <2>1. Rests(m) /\ (Working(m)' => run'[m] = run[m] /\ runLeft'[m] = runLeft[m])
    BY <1>2, MessageTyped, DispositionIsPhase
    DEF Arrives, IsReceived, IsParked, Ends, Reads, IsRefused, ReadsAgain, GivesUp,
        Working, Run
  <2>2. QED
    BY <1>1, <2>1, QuietRuns DEF Working
<1>3. CASE Fails(m)
  BY <1>1, <1>3, QuietRuns DEF Fails, Calls, Working
<1>4. CASE Announces(m)
  <2>1. ~Working(m)' /\ \A n \in Messages : RowOf(n)' = RowOf(n)
    BY <1>1, <1>4, JobsAssumption DEF Announces, Working, Others, RowOf
  <2>2. \A n \in Messages : Working(n)' =>
           Working(n) /\ run'[n] = run[n] /\ runLeft'[n] = runLeft[n]
    BY <1>1, <2>1 DEF Others, Working
  <2>3. QED
    BY <2>1, <2>2 DEF WorkerInv, OneWorker, ClaimHeld, OwnsAttempt
<1>5. CASE Claims(m)
  <2>1. \A n \in Messages : JobOf[n] = JobOf[m] => ~Working(n)
    BY <1>5, ClaimFindsNoWorker DEF Claims
  <2>2. /\ RowOf(m)'.status = "WORKER_PROCESSING" /\ RowOf(m)'.leaseIn = Lease
        /\ RowOf(m)'.attempt = RowOf(m).version + 1
    BY <1>1, <1>5, RowTyped DEF Claims, ClaimedRow, Row
  <2>3. runLeft'[m] = runLeft[m] /\ Lease > runLeft[m]
    BY <1>5, MessageTyped, TimeoutAssumption DEF Claims, Calls
  <2>4. Working(m)' => OwnsAttempt(m)' /\ RowOf(m)'.leaseIn > runLeft'[m]
    BY <1>1, <1>5, <2>2, <2>3 DEF Claims, Working, OwnsAttempt
  <2>5. QED
    BY <1>1, <2>1, <2>4, LoneRun
<1>6. CASE Completes(m)
  <2>1. Working(m) /\ OwnsAttempt(m)
    BY <1>6 DEF Completes, StoresResult, CallsProvider, Working
  <2>2. RowOf(m)'.status = "completed"
    BY <1>1, <1>6, RowTyped DEF Completes, ClosedRow, Row
  <2>3. Working(m)' => run'[m].phase = "failing"
    BY <1>6 DEF Completes, Working
  <2>4. QED
    BY <1>1, <2>1, <2>2, <2>3, OwnerIsAlone, LoneRun
<1>7. CASE RecordsFailure(m)
  <2>1. Working(m) /\ OwnsAttempt(m) /\ ~Working(m)'
    BY <1>7 DEF RecordsFailure, Working
  <2>2. QED
    BY <1>1, <2>1, OwnerIsAlone, LoneRun
<1>8. CASE Marks(m)
  <2>1. ~Working(m)'
    BY <1>8 DEF Marks, Working
  <2>2. CASE Unannounced(m)
    <3>1. \A n \in Messages : JobOf[n] = JobOf[m] => ~Working(n)
      BY <2>2 DEF Unannounced, WorkerInv, ClaimHeld, OwnsAttempt, RowOf, FailedStatus
    <3>2. QED
      BY <1>1, <2>1, <3>1, LoneRun
  <2>3. CASE Rests(m)
    BY <1>1, <2>1, <2>3, QuietRuns
  <2>4. QED
    BY <1>8, <2>2, <2>3 DEF Marks, Rests
<1>9. QED
  BY <1>2, <1>3, <1>4, <1>5, <1>6, <1>7, <1>8 DEF MessageMoves

\* While Lambda kills an invocation before the lease of its claim can run out,
\* duplicates and redeliveries never work on one job at the same time.
THEOREM WorkersAreExclusive ==
    ASSUME RunTimeout < Lease
    PROVE  Spec => []WorkerInv
<1>1. Init => WorkerInv
  BY IdleIsRun DEF Init, WorkerInv, OneWorker, ClaimHeld, Working, Idle
<1>2. TypeOK /\ ReadInv /\ WorkerInv /\ [Next]_vars => WorkerInv'
  <2> SUFFICES ASSUME TypeOK, ReadInv, WorkerInv, [Next]_vars
               PROVE  WorkerInv'
    OBVIOUS
  <2>1. CASE \E j \in Jobs : RowMoves(j)
    <3>1. PICK j \in Jobs : RowMoves(j)
      BY <2>1
    <3>2. \A n \in Messages : Working(n)' <=> Working(n)
      BY <3>1 DEF RowMoves, Working
    <3>3. \A n \in Messages : Working(n) /\ RowOf(n)' # RowOf(n)
                                => RowOf(n)'.status = "deleted"
      BY <3>1, RowTyped
      DEF RowMoves, RowOf, WorkerInv, ClaimHeld, OwnsAttempt
    <3>4. ClaimHeld'
      BY <3>1, <3>2, <3>3 DEF RowMoves, WorkerInv, ClaimHeld, OwnsAttempt
    <3>5. \A n \in Messages : RowOf(n).status = "deleted" => RowOf(n)'.status = "deleted"
      BY <3>1, RowTyped DEF RowMoves, RowOf
    <3>6. OneWorker'
      BY <3>2, <3>5 DEF WorkerInv, OneWorker
    <3>7. QED
      BY <3>4, <3>6 DEF WorkerInv
  <2>2. CASE TickMoves
    <3>1. \A n \in Messages :
             /\ RowOf(n)'.status = RowOf(n).status
             /\ RowOf(n)'.attempt = RowOf(n).attempt
             /\ RowOf(n)'.leaseIn = Less(RowOf(n).leaseIn)
             /\ RowOf(n).leaseIn \in Nat /\ runLeft[n] \in Nat
             /\ run'[n] = run[n] /\ runLeft'[n] = Less(runLeft[n])
             /\ run[n].phase # "idle" => runLeft[n] > 0
      BY <2>2, RowFields, RowTyped, MessageTyped, TimeoutAssumption DEF TickMoves, RowOf
    <3>2. \A n \in Messages : Working(n) /\ RowOf(n).leaseIn > runLeft[n]
             => RowOf(n)'.leaseIn > runLeft'[n]
      BY <3>1 DEF Working, Less
    <3>3. QED
      BY <3>1, <3>2 DEF WorkerInv, OneWorker, ClaimHeld, OwnsAttempt, Working
  <2>3. CASE UNCHANGED vars
    BY <2>3 DEF vars, WorkerInv, OneWorker, ClaimHeld, OwnsAttempt, Working, RowOf
  <2>4. QED
    BY <2>1, <2>2, <2>3, EveryStepMoves, MessageKeepsWorker
<1>3. QED
  BY <1>1, <1>2, TypeCorrect, ReadsAreSound, PTL DEF Spec

\* Two runs never work on one job at the same time.
THEOREM AtMostOneWorker ==
    ASSUME RunTimeout < Lease
    PROVE  Spec => []OneWorker
<1>1. WorkerInv => OneWorker
  BY DEF WorkerInv
<1>2. QED
  BY <1>1, WorkersAreExclusive, PTL

-----------------------------------------------------------------------------
(* Status changes.                                                           *)

\* What a step of a run may do to the status of its row.
LEMMA StatusMoves ==
    ASSUME TypeOK, NEW m \in Messages, MessageMoves(m),
           job'[JobOf[m]].status # job[JobOf[m]].status
    PROVE  \/ /\ Claims(m)
              /\ job'[JobOf[m]].status = "WORKER_PROCESSING"
           \/ /\ Completes(m)
              /\ job[JobOf[m]].status = "WORKER_PROCESSING"
              /\ job'[JobOf[m]].status = "completed"
           \/ /\ RecordsFailure(m)
              /\ job[JobOf[m]].status = "WORKER_PROCESSING"
              /\ job'[JobOf[m]].status \in FailedStatus \cup {"FAILED_RETRYABLE"}
              /\ IsTerminal(m) => job'[JobOf[m]].status \in FailedStatus
<1>1. RowOf(m) = job[JobOf[m]] /\ RowOf(m) \in Row
  BY RowTyped DEF RowOf
<1>2. Claims(m) \/ Completes(m) \/ RecordsFailure(m)
  <2>1. ~Rests(m) /\ ~Announces(m)
    BY DEF Rests, Announces
  <2>2. ~Marks(m)
    BY <1>1 DEF Marks, PublishedRow, Row
  <2>3. QED
    BY <2>1, <2>2
    DEF MessageMoves, Arrives, IsReceived, IsParked, Ends, Reads, IsRefused,
        ReadsAgain, Fails, GivesUp
<1>3. CASE Claims(m)
  BY <1>1, <1>3 DEF Claims, ClaimedRow, Row
<1>4. CASE Completes(m)
  BY <1>1, <1>4 DEF Completes, ClosedRow, OwnsAttempt, Row
<1>5. CASE RecordsFailure(m)
  <2>1. run[m].error \in Errors /\ msg[m].receives \in Nat /\ MaxProcessingAttempts \in Nat
    BY MessageTyped, LimitsAssumption DEF Run, Message
  <2>2. job'[JobOf[m]].status =
           FailureStatus(run[m].error, msg[m].receives, MaxProcessingAttempts)
    BY <1>1, <1>5 DEF RecordsFailure, FailedRow, ClosedRow, Row
  <2>3. QED
    BY <1>1, <1>5, <2>1, <2>2, TerminalMeansFailed
    DEF RecordsFailure, OwnsAttempt, IsTerminal
<1>6. QED
  BY <1>2, <1>3, <1>4, <1>5

\* A claim is made from a claimable status or from an expired one.
LEMMA ClaimedFrom ==
    ASSUME ReadInv, NEW m \in Messages, Claims(m)
    PROVE  job[JobOf[m]].status \in claimable_statuses(JobType[JobOf[m]])
                                       \cup {"WORKER_PROCESSING"}
  BY DEF Claims, ClaimCondition, RowOf, ReadInv, ClaimsAreAllowed

LEMMA StepFollowsMatrix ==
    ASSUME TypeOK, ReadInv, [Next]_vars, NEW j \in Jobs,
           job'[j].status \notin {job[j].status, "deleted"}
    PROVE  can_transition(job[j].status, job'[j].status)
<1>1. ASSUME NEW m \in Messages, MessageMoves(m)
      PROVE  can_transition(job[j].status, job'[j].status)
  <2>1. j = JobOf[m]
    BY <1>1 DEF MessageMoves, Others
  <2>2. CASE Claims(m) /\ job'[j].status = "WORKER_PROCESSING"
    BY <2>1, <2>2, ClaimedFrom, ClaimableMayBeClaimed
  <2>3. CASE /\ job[j].status = "WORKER_PROCESSING"
             /\ job'[j].status \in FailedStatus \cup {"FAILED_RETRYABLE", "completed"}
    BY <2>3, OutcomesAreInMatrix DEF TERMINAL_STATUSES
  <2>4. QED
    BY <1>1, <2>1, <2>2, <2>3, StatusMoves
<1>2. CASE \E i \in Jobs : RowMoves(i)
  BY <1>2, OutcomesAreInMatrix DEF RowMoves
<1>3. CASE TickMoves \/ UNCHANGED vars
  BY <1>3 DEF TickMoves, vars
<1>4. QED
  BY <1>1, <1>2, <1>3, EveryStepMoves

\* Every status change is in the transition matrix although the status is
\* validated when it is read and written later: the version and the attempt of
\* the conditional updates carry the validation over.  No timing is assumed.
THEOREM StatusFollowsMatrix == Spec => FollowsMatrix
<1>1. TypeOK /\ ReadInv /\ [Next]_vars =>
         [\A j \in Jobs :
             job'[j].status \notin {job[j].status, "deleted"}
                 => can_transition(job[j].status, job'[j].status)]_vars
  BY StepFollowsMatrix
<1>2. QED
  BY <1>1, TypeCorrect, ReadsAreSound, PTL DEF Spec, FollowsMatrix

\* A terminal status is final but for the deletion of the record.
LEMMA TerminalIsFinal ==
    ASSUME TypeOK, ReadInv, [Next]_vars, NEW j \in Jobs,
           job[j].status \in TERMINAL_STATUSES \cup {"deleted"}
    PROVE  job'[j].status \in {job[j].status, "deleted"}
<1>1. job[j].status # "WORKER_PROCESSING" /\ job[j].status # "QUEUED_PENDING_DISPATCH"
  BY DEF TERMINAL_STATUSES, FailedStatus
<1>2. ASSUME NEW m \in Messages, MessageMoves(m)
      PROVE  job'[j].status \in {job[j].status, "deleted"}
  <2>1. CASE j # JobOf[m]
    BY <1>2, <2>1 DEF MessageMoves, Others
  <2>2. CASE j = JobOf[m]
    <3>1. ~Claims(m)
      BY <1>1, <2>2, ClaimedFrom, ClaimableMayBeClaimed
      DEF TERMINAL_STATUSES, FailedStatus
    <3>2. QED
      BY <1>1, <1>2, <2>2, <3>1, StatusMoves
  <2>3. QED
    BY <2>1, <2>2
<1>3. CASE \E i \in Jobs : RowMoves(i)
  BY <1>1, <1>3 DEF RowMoves
<1>4. CASE TickMoves \/ UNCHANGED vars
  BY <1>4 DEF TickMoves, vars
<1>5. QED
  BY <1>2, <1>3, <1>4, EveryStepMoves

-----------------------------------------------------------------------------
(* Envelopes.                                                                *)

Ended(j) == job[j].status \in FailedStatus \cup {"deleted"}

\* A run announces what its row already says, and marks what it has announced.
RunsAnnounceFailures ==
    \A m \in Messages :
        /\ run[m].phase = "announcing" => Ended(JobOf[m])
        /\ run[m].phase = "marking" => envelopes[JobOf[m]] > 0

EnvelopeInv == EnvelopesAreTrue /\ RunsAnnounceFailures

\* How a step changes what is announced of a job.
LEMMA EnvelopeMoves ==
    ASSUME TypeOK, [Next]_vars, NEW j \in Jobs
    PROVE  /\ envelopes'[j] \in {envelopes[j], envelopes[j] + 1}
           /\ envelopes'[j] # envelopes[j] =>
                 \E m \in Messages :
                    JobOf[m] = j /\ run[m].phase = "announcing" /\ MessageMoves(m)
           /\ job'[j].published # job[j].published =>
                 \E m \in Messages :
                    /\ JobOf[m] = j /\ run[m].phase = "marking" /\ MessageMoves(m)
                    /\ job'[j].published /\ Unannounced(m)
                    /\ job'[j].status = job[j].status
<1>1. ASSUME NEW m \in Messages, MessageMoves(m), j = JobOf[m]
      PROVE  /\ envelopes'[j] \in {envelopes[j], envelopes[j] + 1}
             /\ envelopes'[j] # envelopes[j] => run[m].phase = "announcing"
             /\ job'[j].published # job[j].published =>
                   /\ run[m].phase = "marking" /\ job'[j].published /\ Unannounced(m)
                   /\ job'[j].status = job[j].status
  <2>1. RowOf(m) = job[j] /\ RowOf(m) \in Row
    BY <1>1, RowTyped DEF RowOf
  <2>2. CASE Rests(m)
    BY <1>1, <2>2 DEF Rests
  <2>3. CASE Claims(m) \/ Completes(m) \/ RecordsFailure(m)
    BY <1>1, <2>1, <2>3
    DEF Claims, Completes, RecordsFailure, FailedRow, ClosedRow, ClaimedRow, Row
  <2>4. CASE Announces(m)
    BY <1>1, <2>4 DEF Announces
  <2>5. CASE Marks(m)
    BY <1>1, <2>1, <2>5 DEF Marks, PublishedRow, Row
  <2>6. QED
    BY <1>1, <2>2, <2>3, <2>4, <2>5
    DEF MessageMoves, Arrives, IsReceived, IsParked, Ends, Reads, IsRefused,
        ReadsAgain, Fails, GivesUp
<1>2. CASE job'[j].published = job[j].published /\ envelopes'[j] = envelopes[j]
  BY <1>2
<1>3. CASE \E m \in Messages : MessageMoves(m)
  <2>1. PICK m \in Messages : MessageMoves(m)
    BY <1>3
  <2>2. CASE j = JobOf[m]
    BY <1>1, <2>1, <2>2
  <2>3. CASE j # JobOf[m]
    BY <1>2, <2>1, <2>3 DEF MessageMoves, Others
  <2>4. QED
    BY <2>2, <2>3
<1>4. CASE \E i \in Jobs : RowMoves(i)
  BY <1>2, <1>4 DEF RowMoves
<1>5. CASE TickMoves \/ UNCHANGED vars
  BY <1>2, <1>5 DEF TickMoves, vars
<1>6. QED
  BY <1>3, <1>4, <1>5, EveryStepMoves

\* A run that is about to announce, or to mark, was so before the step or has
\* just come there.
LEMMA AnnouncingMoves ==
    ASSUME TypeOK, [Next]_vars, NEW m \in Messages
    PROVE  /\ run'[m].phase = "announcing" =>
                 \/ run'[m] = run[m]
                 \/ Reads(m) /\ MessageMoves(m)
                 \/ RecordsFailure(m) /\ IsTerminal(m) /\ MessageMoves(m)
           /\ run'[m].phase = "marking" =>
                 \/ run'[m] = run[m]
                 \/ Announces(m) /\ envelopes'[JobOf[m]] = envelopes[JobOf[m]] + 1
<1>1. CASE run'[m] = run[m]
  BY <1>1
<1>2. CASE MessageMoves(m)
  BY <1>2, MessageTyped, DispositionIsPhase
  DEF MessageMoves, Arrives, IsReceived, IsParked, Ends, Reads, Claims, IsRefused,
      ReadsAgain, Fails, Completes, RecordsFailure, GivesUp, Announces, Marks, Run
<1>3. QED
  BY <1>1, <1>2, OtherRuns

\* A terminal failure is announced for jobs that have failed, and marked as
\* announced only once an envelope was sent.  No timing is assumed.
THEOREM EnvelopesTellTheTruth == Spec => []EnvelopeInv
<1>1. Init => EnvelopeInv
  BY IdleIsRun DEF Init, EnvelopeInv, EnvelopesAreTrue, RunsAnnounceFailures, Idle
<1>2. TypeOK /\ ReadInv /\ EnvelopeInv /\ [Next]_vars => EnvelopeInv'
  <2> SUFFICES ASSUME TypeOK, ReadInv, EnvelopeInv, [Next]_vars
               PROVE  EnvelopeInv'
    OBVIOUS
  <2>1. \A j \in Jobs : Ended(j) => Ended(j)'
    BY TerminalIsFinal DEF Ended, TERMINAL_STATUSES
  <2>2. \A j \in Jobs : envelopes[j] \in Nat /\ envelopes'[j] \in {envelopes[j], envelopes[j] + 1}
    BY EnvelopeMoves DEF TypeOK
  <2>3. ASSUME NEW j \in Jobs, envelopes'[j] > 0
        PROVE  Ended(j)'
    BY <2>1, <2>3, EnvelopeMoves
    DEF EnvelopeInv, EnvelopesAreTrue, RunsAnnounceFailures, Ended
  <2>4. ASSUME NEW j \in Jobs, job'[j].published
        PROVE  envelopes'[j] > 0
    <3>1. envelopes[j] > 0
      BY <2>4, EnvelopeMoves DEF EnvelopeInv, EnvelopesAreTrue, RunsAnnounceFailures
    <3>2. QED
      BY <2>2, <3>1
  <2>5. ASSUME NEW m \in Messages, run'[m].phase = "announcing"
        PROVE  Ended(JobOf[m])'
    <3>1. CASE run'[m] = run[m]
      BY <2>1, <2>5, <3>1, RowTyped DEF EnvelopeInv, RunsAnnounceFailures
    <3>2. CASE Reads(m)
      BY <2>5, <3>2, RowTyped DEF Reads, Rests, Disposition, RowOf, Ended
    <3>3. CASE RecordsFailure(m) /\ IsTerminal(m) /\ MessageMoves(m)
      <4>1. job'[JobOf[m]].status \in FailedStatus
        <5>1. job[JobOf[m]].status = "WORKER_PROCESSING"
          BY <3>3 DEF RecordsFailure, OwnsAttempt, RowOf
        <5>2. job'[JobOf[m]].status =
                 FailureStatus(run[m].error, msg[m].receives, MaxProcessingAttempts)
          BY <3>3, RowTyped DEF RecordsFailure, FailedRow, ClosedRow, Row
        <5>3. run[m].error \in Errors /\ msg[m].receives \in Nat
              /\ MaxProcessingAttempts \in Nat
          BY MessageTyped, LimitsAssumption DEF Run, Message
        <5>4. QED
          BY <3>3, <5>2, <5>3, TerminalMeansFailed DEF IsTerminal
      <4>2. QED
        BY <4>1 DEF Ended
    <3>4. QED
      BY <2>5, <3>1, <3>2, <3>3, AnnouncingMoves
  <2>6. ASSUME NEW m \in Messages, run'[m].phase = "marking"
        PROVE  envelopes'[JobOf[m]] > 0
    <3>1. JobOf[m] \in Jobs
      BY RowTyped
    <3>2. CASE run'[m] = run[m]
      <4>1. envelopes[JobOf[m]] > 0
        BY <2>6, <3>2 DEF EnvelopeInv, RunsAnnounceFailures
      <4>2. QED
        BY <2>2, <3>1, <4>1
    <3>3. CASE envelopes'[JobOf[m]] = envelopes[JobOf[m]] + 1
      BY <2>2, <3>1, <3>3
    <3>4. QED
      BY <2>6, <3>2, <3>3, AnnouncingMoves
  <2>7. QED
    BY <2>3, <2>4, <2>5, <2>6
    DEF EnvelopeInv, EnvelopesAreTrue, RunsAnnounceFailures, Ended
<1>3. QED
  BY <1>1, <1>2, TypeCorrect, ReadsAreSound, PTL DEF Spec

\* An envelope is only sent for a failed job, and only a sent one is recorded.
THEOREM EnvelopesTrue == Spec => []EnvelopesAreTrue
<1>1. EnvelopeInv => EnvelopesAreTrue
  BY DEF EnvelopeInv
<1>2. QED
  BY <1>1, EnvelopesTellTheTruth, PTL

-----------------------------------------------------------------------------
(* The number of envelopes.  Until the failure is marked, an envelope is     *)
(* paid for by a run on its way to mark it or by the fault that stopped one; *)
(* from then on only the runs that were announcing already may send more.    *)

RunsIn(j, phase) == {m \in MessagesOf(j) : run[m].phase = phase}

\* Nobody starts to announce any more.
Closed(j) == job[j].published \/ job[j].status = "deleted"

Budget(closed, sent, announcing, marking, messages, fault) ==
    /\ closed = 1 => sent + announcing <= messages + fault
    /\ closed = 0 => sent <= marking + fault

BudgetOf(j) ==
    Budget(IF Closed(j) THEN 1 ELSE 0, envelopes[j],
           Cardinality(RunsIn(j, "announcing")), Cardinality(RunsIn(j, "marking")),
           Cardinality(MessagesOf(j)), faults)

BudgetInv == \A j \in Jobs : BudgetOf(j)

LEMMA MessagesAreFinite ==
    ASSUME NEW j, NEW phase
    PROVE  /\ IsFiniteSet(MessagesOf(j)) /\ Cardinality(MessagesOf(j)) \in Nat
           /\ IsFiniteSet(RunsIn(j, phase)) /\ Cardinality(RunsIn(j, phase)) \in Nat
           /\ Cardinality(RunsIn(j, phase)) <= Cardinality(MessagesOf(j))
<1>1. MessagesOf(j) \subseteq Messages /\ RunsIn(j, phase) \subseteq MessagesOf(j)
  BY DEF MessagesOf, RunsIn
<1>2. IsFiniteSet(MessagesOf(j))
  BY <1>1, JobsAssumption, FS_Subset
<1>3. QED
  BY <1>1, <1>2, FS_Subset, FS_CardinalityType

LEMMA AnnouncingOrMarking ==
    ASSUME NEW j
    PROVE  Cardinality(RunsIn(j, "announcing")) + Cardinality(RunsIn(j, "marking"))
              <= Cardinality(MessagesOf(j))
<1> DEFINE A == RunsIn(j, "announcing")
           K == RunsIn(j, "marking")
<1>1. IsFiniteSet(A) /\ IsFiniteSet(K) /\ IsFiniteSet(MessagesOf(j))
  BY MessagesAreFinite
<1>2. A \cap K = {} /\ A \cup K \subseteq MessagesOf(j)
  BY DEF RunsIn
<1> HIDE DEF A, K
<1>3. Cardinality(A) \in Nat /\ Cardinality(K) \in Nat
  BY <1>1, FS_CardinalityType
<1>4. Cardinality(A \cup K) = Cardinality(A) + Cardinality(K) - Cardinality({})
  BY <1>1, <1>2, FS_Union
<1>5. Cardinality(A \cup K) = Cardinality(A) + Cardinality(K)
  BY <1>3, <1>4, FS_EmptySet
<1>6. Cardinality(A \cup K) <= Cardinality(MessagesOf(j))
  BY <1>1, <1>2, FS_Subset
<1>7. QED
  BY <1>5, <1>6 DEF A, K

\* A run that comes to a phase, or leaves it, is counted there.
LEMMA RunIsCounted ==
    ASSUME NEW m \in Messages, NEW phase,
           \A n \in Messages : n # m => run'[n] = run[n]
    PROVE  /\ (run'[m].phase = phase <=> run[m].phase = phase) =>
                 Cardinality(RunsIn(JobOf[m], phase))' = Cardinality(RunsIn(JobOf[m], phase))
           /\ run'[m].phase = phase /\ run[m].phase # phase =>
                 Cardinality(RunsIn(JobOf[m], phase))' = Cardinality(RunsIn(JobOf[m], phase)) + 1
           /\ run'[m].phase # phase /\ run[m].phase = phase =>
                 Cardinality(RunsIn(JobOf[m], phase))' = Cardinality(RunsIn(JobOf[m], phase)) - 1
<1> DEFINE S == RunsIn(JobOf[m], phase)
           T == {n \in MessagesOf(JobOf[m]) : run'[n].phase = phase}
<1>1. RunsIn(JobOf[m], phase)' = T
  BY DEF RunsIn, MessagesOf
<1>2. m \in MessagesOf(JobOf[m]) /\ MessagesOf(JobOf[m]) \subseteq Messages
  BY DEF MessagesOf
<1>3. IsFiniteSet(S)
  BY MessagesAreFinite
<1>4. CASE run'[m].phase = phase <=> run[m].phase = phase
  <2>1. T = S
    BY <1>2, <1>4 DEF RunsIn
  <2>2. QED
    BY <1>1, <1>4, <2>1
<1>5. CASE run'[m].phase = phase /\ run[m].phase # phase
  <2>1. T = S \cup {m} /\ m \notin S
    BY <1>2, <1>5 DEF RunsIn
  <2>2. Cardinality(T) = Cardinality(S) + 1
    BY <1>3, <2>1, FS_AddElement
  <2>3. QED
    BY <1>1, <1>5, <2>2
<1>6. CASE run'[m].phase # phase /\ run[m].phase = phase
  <2>1. T = S \ {m} /\ m \in S
    BY <1>2, <1>6 DEF RunsIn
  <2>2. Cardinality(T) = Cardinality(S) - 1
    BY <1>3, <2>1, FS_RemoveElement
  <2>3. QED
    BY <1>1, <1>6, <2>2
<1>7. QED
  BY <1>4, <1>5, <1>6

\* What the budget of j depends on, before and after a step.
LEMMA BudgetMoves ==
    ASSUME TypeOK, TypeOK', NEW j \in Jobs, BudgetOf(j),
           faults' \in {faults, faults + 1},
           LET a == Cardinality(RunsIn(j, "announcing"))
               k == Cardinality(RunsIn(j, "marking"))
           IN  \/ Closed(j)' /\ envelopes'[j] = envelopes[j] /\ a' \in {a, a - 1}
               \/ /\ ~Closed(j)' /\ ~Closed(j) /\ envelopes'[j] = envelopes[j]
                  /\ k' = k \/ (k' = k - 1 /\ faults' = faults + 1)
               \/ /\ Closed(j)' <=> Closed(j)
                  /\ envelopes'[j] = envelopes[j] + 1 /\ a' = a - 1 /\ k' = k + 1
               \/ /\ Closed(j)' <=> Closed(j)
                  /\ envelopes'[j] \in {envelopes[j], envelopes[j] + 1}
                  /\ a' = a - 1 /\ k' = k /\ faults' = faults + 1
    PROVE  BudgetOf(j)'
<1> DEFINE M == Cardinality(MessagesOf(j))
           a == Cardinality(RunsIn(j, "announcing"))
           k == Cardinality(RunsIn(j, "marking"))
           a2 == Cardinality(RunsIn(j, "announcing"))'
           k2 == Cardinality(RunsIn(j, "marking"))'
           c == IF Closed(j) THEN 1 ELSE 0
           c2 == IF Closed(j)' THEN 1 ELSE 0
           f2 == faults'
           e2 == envelopes'[j]
<1>1. /\ M \in Nat /\ a \in Nat /\ k \in Nat /\ a + k <= M
  BY MessagesAreFinite, AnnouncingOrMarking
<1>2. /\ RunsIn(j, "announcing")' \subseteq MessagesOf(j)
      /\ RunsIn(j, "marking")' \subseteq MessagesOf(j)
  BY DEF RunsIn, MessagesOf
<1>3. a2 \in Nat /\ k2 \in Nat
  BY <1>2, MessagesAreFinite, FS_Subset, FS_CardinalityType
<1>4. /\ faults \in Nat /\ f2 \in Nat
      /\ envelopes[j] \in Nat /\ e2 \in Nat
  BY LimitsAssumption DEF TypeOK
<1>5. c \in {0, 1} /\ c2 \in {0, 1} /\ (c = 1 <=> Closed(j)) /\ (c2 = 1 <=> Closed(j)')
  OBVIOUS
<1>6. Budget(c, envelopes[j], a, k, M, faults)
  BY DEF BudgetOf
<1>7. f2 \in {faults, faults + 1}
  OBVIOUS
<1>8. \/ c2 = 1 /\ e2 = envelopes[j] /\ a2 \in {a, a - 1}
      \/ /\ c2 = 0 /\ c = 0 /\ e2 = envelopes[j]
         /\ k2 = k \/ (k2 = k - 1 /\ f2 = faults + 1)
      \/ c2 = c /\ e2 = envelopes[j] + 1 /\ a2 = a - 1 /\ k2 = k + 1
      \/ /\ c2 = c /\ e2 \in {envelopes[j], envelopes[j] + 1}
         /\ a2 = a - 1 /\ k2 = k /\ f2 = faults + 1
  OBVIOUS
<1>9. BudgetOf(j)' <=> Budget(c2, e2, a2, k2, M, f2)
  BY DEF BudgetOf, MessagesOf
<1> HIDE DEF M, a, k, a2, k2, c, c2, f2, e2
<1>10. Budget(c2, e2, a2, k2, M, f2)
  BY <1>1, <1>3, <1>4, <1>5, <1>6, <1>7, <1>8 DEF Budget
<1>11. QED
  BY <1>9, <1>10


\* The step of another job, of its user, of its dispatcher or of the clock.
LEMMA BudgetRests ==
    ASSUME TypeOK, TypeOK', NEW j \in Jobs, BudgetOf(j), faults' \in {faults, faults + 1},
           \A n \in MessagesOf(j) : run'[n] = run[n],
           envelopes'[j] = envelopes[j], Closed(j) => Closed(j)'
    PROVE  BudgetOf(j)'
<1> DEFINE a == Cardinality(RunsIn(j, "announcing"))
           k == Cardinality(RunsIn(j, "marking"))
<1>1. RunsIn(j, "announcing")' = RunsIn(j, "announcing")
      /\ RunsIn(j, "marking")' = RunsIn(j, "marking")
  BY DEF RunsIn, MessagesOf
<1>2. a' = a /\ k' = k
  BY <1>1
<1>3. QED
  BY <1>2, BudgetMoves

\* The step of a run, or of its message, in the budget of its own job.
LEMMA BudgetOfRun ==
    ASSUME TypeOK, TypeOK', ReadInv, EnvelopeInv, NEW m \in Messages, MessageMoves(m),
           BudgetOf(JobOf[m])
    PROVE  BudgetOf(JobOf[m])'
<1> DEFINE j == JobOf[m]
           a == Cardinality(RunsIn(j, "announcing"))
           k == Cardinality(RunsIn(j, "marking"))
<1>1. j \in Jobs /\ faults' \in {faults, faults + 1} /\ RowOf(m) = job[j] /\ RowOf(m)' = job'[j]
      /\ job[j] \in Row /\ job'[j] \in Row
  BY RowTyped, LimitsAssumption DEF TypeOK, MessageMoves, RowOf
<1>2. \A n \in Messages : n # m => run'[n] = run[n]
  BY DEF MessageMoves, Others
<1>4. /\ (run'[m].phase = "announcing" <=> run[m].phase = "announcing") => a' = a
      /\ run'[m].phase = "announcing" /\ run[m].phase # "announcing" => a' = a + 1
      /\ run'[m].phase # "announcing" /\ run[m].phase = "announcing" => a' = a - 1
  BY <1>2, RunIsCounted
<1>5. /\ (run'[m].phase = "marking" <=> run[m].phase = "marking") => k' = k
      /\ run'[m].phase = "marking" /\ run[m].phase # "marking" => k' = k + 1
      /\ run'[m].phase # "marking" /\ run[m].phase = "marking" => k' = k - 1
  BY <1>2, RunIsCounted
<1>6. /\ job[j].published => Ended(j)
      /\ run[m].phase = "marking" => Ended(j)
  BY <1>1 DEF EnvelopeInv, EnvelopesAreTrue, RunsAnnounceFailures, Ended
<1>7. SUFFICES
        \/ Closed(j)' /\ envelopes'[j] = envelopes[j] /\ a' \in {a, a - 1}
        \/ /\ ~Closed(j)' /\ ~Closed(j) /\ envelopes'[j] = envelopes[j]
           /\ k' = k \/ (k' = k - 1 /\ faults' = faults + 1)
        \/ /\ Closed(j)' <=> Closed(j)
           /\ envelopes'[j] = envelopes[j] + 1 /\ a' = a - 1 /\ k' = k + 1
        \/ /\ Closed(j)' <=> Closed(j)
           /\ envelopes'[j] \in {envelopes[j], envelopes[j] + 1}
           /\ a' = a - 1 /\ k' = k /\ faults' = faults + 1
  BY <1>1, BudgetMoves
<1> HIDE DEF j, a, k
<1>8. CASE \/ Arrives(m) \/ IsReceived(m) \/ IsParked(m) \/ Claims(m) \/ IsRefused(m)
           \/ ReadsAgain(m) \/ Fails(m) \/ Completes(m) \/ GivesUp(m)
  <2>1. /\ run[m].phase \notin {"announcing", "marking"} \/ run'[m] = run[m]
        /\ run'[m].phase \notin {"announcing", "marking"} \/ run'[m] = run[m]
    BY <1>8, MessageTyped
    DEF Arrives, IsReceived, IsParked, Visible, Claims, IsRefused, ReadsAgain, Fails,
        Completes, GivesUp, StoresResult, CallsProvider, Run
  <2>2. a' = a /\ k' = k
    BY <1>4, <1>5, <2>1
  <2>3. envelopes'[j] = envelopes[j]
    BY <1>8
    DEF j, Rests, Arrives, IsReceived, IsParked, Claims, IsRefused, ReadsAgain, Fails,
        Completes, GivesUp
  <2>4. Closed(j)' <=> Closed(j)
    <3>1. CASE Claims(m)
      <4>1. job[j].status \notin {"deleted"}
        BY <3>1, ClaimedFrom, ClaimableMayBeClaimed DEF j
      <4>2. job'[j].status = "WORKER_PROCESSING" /\ job'[j].published = job[j].published
        BY <1>1, <3>1 DEF j, Claims, ClaimedRow, Row
      <4>3. QED
        BY <4>1, <4>2 DEF Closed
    <3>2. CASE Completes(m)
      <4>1. job[j].status = "WORKER_PROCESSING"
        BY <1>1, <3>2 DEF Completes, OwnsAttempt
      <4>2. job'[j].status = "completed" /\ job'[j].published = job[j].published
        BY <1>1, <3>2 DEF j, Completes, ClosedRow, Row
      <4>3. QED
        BY <4>1, <4>2 DEF Closed
    <3>3. CASE Rests(m)
      BY <3>3 DEF j, Rests, Closed
    <3>4. QED
      BY <1>8, <3>1, <3>2, <3>3
      DEF Arrives, IsReceived, IsParked, IsRefused, ReadsAgain, Fails, GivesUp
  <2>5. QED
    BY <2>2, <2>3, <2>4
<1>9. CASE Reads(m) \/ Ends(m)
  <2>1. envelopes'[j] = envelopes[j] /\ job'[j] = job[j]
    BY <1>9 DEF j, Reads, Ends, Rests
  <2>2. Closed(j)' <=> Closed(j)
    BY <2>1 DEF Closed
  <2>3. CASE Reads(m)
    <3>1. k' = k
      BY <1>5, <2>3, DispositionIsPhase DEF Reads
    <3>2. run'[m].phase = "announcing" => ~Closed(j)
      <4>1. Disposition(m) = "announcing" =>
              ~RowOf(m).published /\ RowOf(m).status # "deleted"
        BY DEF Disposition, FailedStatus
      <4>2. QED
        BY <1>1, <2>3, <4>1 DEF Reads, Closed
    <3>3. run'[m].phase # "announcing" => a' = a
      BY <1>4, <2>3 DEF Reads
    <3>4. QED
      BY <2>1, <2>2, <3>1, <3>2, <3>3
  <2>4. CASE Ends(m)
    <3>1. a' \in {a, a - 1}
      BY <1>4, <2>4 DEF Ends
    <3>2. CASE run[m].phase = "marking"
      <4>1. k' = k - 1 /\ faults' = faults + 1
        BY <1>5, <2>4, <3>2 DEF Ends
      <4>2. QED
        BY <2>1, <2>2, <3>1, <4>1
    <3>3. CASE run[m].phase # "marking"
      <4>1. k' = k
        BY <1>5, <2>4, <3>3 DEF Ends
      <4>2. QED
        BY <2>1, <2>2, <3>1, <4>1
    <3>4. QED
      BY <3>2, <3>3
  <2>5. QED
    BY <1>9, <2>3, <2>4
<1>10. CASE RecordsFailure(m)
  <2>1. job[j].status = "WORKER_PROCESSING" /\ ~job[j].published
    BY <1>1, <1>6, <1>10 DEF RecordsFailure, OwnsAttempt, Ended, FailedStatus
  <2>2. job'[j].status # "deleted" /\ ~job'[j].published
    <3>1. job'[j] = FailedRow(m)
      BY <1>10 DEF j, RecordsFailure
    <3>2. FailedRow(m).published = job[j].published
      BY <1>1 DEF FailedRow, ClosedRow, Row
    <3>3. FailedRow(m).status = FailureStatus(run[m].error, msg[m].receives,
                                              MaxProcessingAttempts)
      BY <1>1 DEF FailedRow, ClosedRow, Row
    <3>4. QED
      BY <2>1, <3>1, <3>2, <3>3 DEF FailureStatus
  <2>3. k' = k
    BY <1>5, <1>10 DEF RecordsFailure
  <2>4. envelopes'[j] = envelopes[j]
    BY <1>10 DEF j, RecordsFailure
  <2>5. QED
    BY <2>1, <2>2, <2>3, <2>4 DEF Closed
<1>11. CASE Announces(m)
  <2>1. job'[j] = job[j] /\ run[m].phase = "announcing"
    BY <1>11 DEF j, Announces
  <2>2. Closed(j)' <=> Closed(j)
    BY <2>1 DEF Closed
  <2>3. CASE run'[m].phase = "marking" /\ envelopes'[j] = envelopes[j] + 1
    BY <1>4, <1>5, <2>1, <2>2, <2>3
  <2>4. CASE /\ run'[m].phase = "error" /\ faults' = faults + 1
             /\ envelopes'[j] \in {envelopes[j], envelopes[j] + 1}
    <3>1. a' = a - 1 /\ k' = k
      BY <1>4, <1>5, <2>1, <2>4
    <3>2. QED
      BY <2>2, <2>4, <3>1
  <2>5. QED
    BY <1>11, <2>3, <2>4 DEF j, Announces
<1>12. CASE Marks(m)
  <2>1. a' = a /\ k' = k - 1 /\ envelopes'[j] = envelopes[j]
    BY <1>4, <1>5, <1>12 DEF j, Marks
  <2>3. CASE job'[j] = PublishedRow(m)
    <3>1. Closed(j)'
      BY <1>1, <2>3 DEF PublishedRow, Row, Closed
    <3>2. QED
      BY <2>1, <3>1
  <2>4. CASE job'[j] = job[j] /\ ~Unannounced(m)
    <3>1. Closed(j)
      BY <1>1, <1>6, <1>12, <2>4 DEF Marks, Ended, Unannounced, Closed
    <3>2. Closed(j)'
      BY <2>4, <3>1 DEF Closed
    <3>3. QED
      BY <2>1, <3>2
  <2>5. CASE job'[j] = job[j] /\ faults' = faults + 1
    <3>1. Closed(j)' <=> Closed(j)
      BY <2>5 DEF Closed
    <3>2. QED
      BY <2>1, <2>5, <3>1
  <2>6. QED
    BY <1>12, <2>3, <2>4, <2>5 DEF j, Marks
<1>13. QED
  BY <1>8, <1>9, <1>10, <1>11, <1>12 DEF MessageMoves

\* However a run is interrupted between the envelope and its mark, and however
\* often the message is redelivered, an announced failure is announced again
\* at most once per fault and once per run that was announcing already.  No
\* timing is assumed.
THEOREM EnvelopesAreBudgeted == Spec => []BudgetInv
<1>1. Init => BudgetInv
  <2> SUFFICES ASSUME Init, NEW j \in Jobs PROVE BudgetOf(j)
    BY DEF BudgetInv
  <2>1. ~Closed(j) /\ envelopes[j] = 0 /\ faults = 0
    BY JobsAssumption, Vocabulary DEF Init, Closed
  <2>2. Cardinality(RunsIn(j, "marking")) >= 0
    BY MessagesAreFinite
  <2>3. QED
    BY <2>1, <2>2, MessagesAreFinite DEF BudgetOf, Budget
<1>2. TypeOK /\ TypeOK' /\ ReadInv /\ EnvelopeInv /\ BudgetInv /\ [Next]_vars => BudgetInv'
  <2> SUFFICES ASSUME TypeOK, TypeOK', ReadInv, EnvelopeInv, BudgetInv, [Next]_vars,
                      NEW j \in Jobs
               PROVE  BudgetOf(j)'
    BY DEF BudgetInv
  <2>1. BudgetOf(j)
    BY DEF BudgetInv
  <2>2. CASE \E m \in Messages : MessageMoves(m)
    <3>1. PICK m \in Messages : MessageMoves(m)
      BY <2>2
    <3>2. CASE j = JobOf[m]
      BY <2>1, <3>1, <3>2, BudgetOfRun
    <3>3. CASE j # JobOf[m]
      <4>1. job'[j] = job[j] /\ envelopes'[j] = envelopes[j]
            /\ faults' \in {faults, faults + 1}
        BY <3>1, <3>3 DEF MessageMoves, Others
      <4>2. \A n \in MessagesOf(j) : run'[n] = run[n]
        BY <3>1, <3>3 DEF MessageMoves, Others, MessagesOf
      <4>3. QED
        BY <2>1, <4>1, <4>2, BudgetRests DEF Closed
    <3>4. QED
      BY <3>2, <3>3
  <2>3. CASE \/ \E i \in Jobs : RowMoves(i)
             \/ TickMoves
             \/ UNCHANGED vars
    <3>1. /\ envelopes'[j] = envelopes[j] /\ faults' = faults
          /\ \A n \in MessagesOf(j) : run'[n] = run[n]
      BY <2>3 DEF RowMoves, TickMoves, vars, MessagesOf
    <3>2. Closed(j) => Closed(j)'
      BY <2>3 DEF RowMoves, TickMoves, vars, Closed
    <3>3. QED
      BY <2>1, <3>1, <3>2, BudgetRests
  <2>4. QED
    BY <2>2, <2>3, EveryStepMoves
<1>3. QED
  BY <1>1, <1>2, TypeCorrect, ReadsAreSound, EnvelopesTellTheTruth, PTL DEF Spec

\* A terminal failure is announced at most once per message and once per fault.
THEOREM EnvelopesInBudget == Spec => []EnvelopeBudget
<1>1. ASSUME TypeOK, BudgetInv, NEW j \in Jobs
      PROVE  envelopes[j] <= Cardinality(MessagesOf(j)) + faults
  <2> DEFINE M == Cardinality(MessagesOf(j))
             a == Cardinality(RunsIn(j, "announcing"))
             k == Cardinality(RunsIn(j, "marking"))
  <2>1. M \in Nat /\ a \in Nat /\ k \in Nat /\ k <= M
    BY MessagesAreFinite
  <2>2. envelopes[j] \in Nat /\ faults \in Nat
    BY <1>1, LimitsAssumption DEF TypeOK
  <2>3. Budget(IF Closed(j) THEN 1 ELSE 0, envelopes[j], a, k, M, faults)
    BY <1>1 DEF BudgetInv, BudgetOf
  <2> HIDE DEF M, a, k
  <2>4. envelopes[j] <= M + faults
    BY <2>1, <2>2, <2>3 DEF Budget
  <2>5. QED
    BY <2>4 DEF M
<1>2. TypeOK /\ BudgetInv => EnvelopeBudget
  BY <1>1 DEF EnvelopeBudget
<1>3. QED
  BY <1>2, TypeCorrect, EnvelopesAreBudgeted, PTL


-----------------------------------------------------------------------------
(* Acknowledged work.  A duplicate is acknowledged because somebody else     *)
(* holds the claim: unless that run died or its claim got no answer, it is   *)
(* still going on, and its own message is still in the queue.                *)

LeasesHaveWorkers ==
    \A j \in Jobs : LeaseLive(job[j]) =>
        faults > 0 \/ \E m \in MessagesOf(j) : Working(m) /\ OwnsAttempt(m)

\* A run loses the claim only to a lease that outlasts it, so that the row it
\* reads again is leased still.
LosersMeetLeases ==
    \A m \in Messages :
        /\ run[m].phase \in {"claiming", "raced"}
        /\ RowOf(m).status = "WORKER_PROCESSING"
        /\ ~(run[m].phase = "claiming" /\ ClaimCondition(m))
        => RowOf(m).leaseIn > runLeft[m]

\* A message of the job that was sent will not be acknowledged yet.
Pending(j) ==
    \E m \in MessagesOf(j) : msg[m].state \in {"queued", "dead"} /\ run[m].phase # "ok"

LeftClaimed(j) == job[j].status = "WORKER_PROCESSING" /\ faults > 0

Unsent(j) == \A m \in MessagesOf(j) : msg[m].state = "unsent"

UnsettledIsPending ==
    \A j \in Jobs : Settled(j) \/ Unsent(j) \/ Pending(j) \/ LeftClaimed(j)

AckInv == LeasesHaveWorkers /\ LosersMeetLeases /\ UnsettledIsPending

LEMMA FaultsGrow ==
    ASSUME TypeOK, faults' \in {faults, faults + 1}
    PROVE  (faults > 0 => faults' > 0) /\ (faults' = faults + 1 => faults' > 0)
<1>1. faults \in Nat
  BY LimitsAssumption DEF TypeOK
<1>2. QED
  BY <1>1

\* What the step of a run may do to its row.
LEMMA RowsOfRuns ==
    ASSUME TypeOK, NEW m \in Messages, MessageMoves(m)
    PROVE  \/ job'[JobOf[m]] = job[JobOf[m]]
           \/ Claims(m) /\ job'[JobOf[m]].leaseIn = Lease
           \/ job'[JobOf[m]].status # "WORKER_PROCESSING"
<1>1. RowOf(m) \in Row /\ RowOf(m) = job[JobOf[m]]
  BY RowTyped DEF RowOf
<1>2. ClaimedRow(m).leaseIn = Lease /\ ClosedRow(m, "completed").status = "completed"
  BY <1>1 DEF ClaimedRow, ClosedRow, Row
<1>3. FailedRow(m).status # "WORKER_PROCESSING"
  BY <1>1 DEF FailedRow, ClosedRow, Row, FailureStatus
<1>4. Unannounced(m) => PublishedRow(m).status # "WORKER_PROCESSING"
  BY <1>1 DEF Unannounced, PublishedRow, Row, FailedStatus
<1>5. QED
  BY <1>2, <1>3, <1>4
  DEF MessageMoves, Rests, Arrives, IsReceived, IsParked, Ends, Reads, Claims, IsRefused,
      ReadsAgain, Fails, Completes, RecordsFailure, GivesUp, Announces, Marks

\* The clock takes the same from both sides of a comparison.
LEMMA LessKeepsOrder ==
    /\ \A x, y \in Nat : x > y /\ y > 0 => Less(x) > Less(y)
    /\ \A x \in Nat : Less(x) > 0 => x > 0
  BY DEF Less

LEMMA Countdowns ==
    ASSUME TypeOK, NEW m \in Messages
    PROVE  /\ runLeft[m] \in Nat /\ runLeft[m] <= RunTimeout
           /\ RowOf(m).leaseIn \in Nat /\ JobOf[m] \in Jobs /\ RowOf(m) = job[JobOf[m]]
  BY RowTyped, TimeoutAssumption DEF TypeOK, Row, RowOf

LEMMA SettledIsFinal ==
    ASSUME TypeOK, ReadInv, [Next]_vars, NEW j \in Jobs, Settled(j)
    PROVE  Settled(j)'
<1>1. job'[j].status \in {job[j].status, "deleted"}
  BY TerminalIsFinal DEF Settled, TERMINAL_STATUSES
<1>2. job'[j].published # job[j].published => job'[j].published
  BY EnvelopeMoves
<1>3. QED
  BY <1>1, <1>2 DEF Settled

\* The holder of a claim keeps it until it writes the row, or dies.
LEMMA HolderKeepsClaim ==
    ASSUME TypeOK, NEW m \in Messages, MessageMoves(m), Working(m), OwnsAttempt(m),
           job'[JobOf[m]] = job[JobOf[m]]
    PROVE  faults' > 0 \/ (Working(m)' /\ OwnsAttempt(m)')
<1>1. /\ RowOf(m)' = RowOf(m) /\ RowOf(m) = job[JobOf[m]] /\ RowOf(m) \in Row
      /\ RowOf(m).status = "WORKER_PROCESSING" /\ run[m].phase \in {"working", "failing"}
      /\ faults' \in {faults, faults + 1}
  BY RowTyped DEF RowOf, OwnsAttempt, Working, MessageMoves
<1>2. ClosedRow(m, "completed").status = "completed"
      /\ FailedRow(m).status # "WORKER_PROCESSING"
  BY <1>1 DEF FailedRow, ClosedRow, Row, FailureStatus
<1>3. ~Completes(m) /\ ~RecordsFailure(m)
  BY <1>1, <1>2 DEF Completes, RecordsFailure
<1>4. CASE faults' = faults + 1
  BY <1>1, <1>4, FaultsGrow
<1>5. CASE Arrives(m) \/ Fails(m)
  BY <1>1, <1>5 DEF Arrives, Fails, Working, OwnsAttempt
<1>6. QED
  BY <1>1, <1>3, <1>4, <1>5
  DEF MessageMoves, IsReceived, IsParked, Visible, Ends, Reads, Claims, IsRefused,
      ReadsAgain, GivesUp, Announces, Marks

LEMMA LeasesStayHeld ==
    ASSUME TypeOK, ReadInv, AckInv, [Next]_vars
    PROVE  LeasesHaveWorkers'
<1> SUFFICES ASSUME NEW j \in Jobs, LeaseLive(job'[j])
             PROVE  faults' > 0 \/ \E m \in MessagesOf(j) : Working(m)' /\ OwnsAttempt(m)'
  BY DEF LeasesHaveWorkers, LeaseLive, MessagesOf
<1>1. job'[j].status = "WORKER_PROCESSING" /\ job'[j].leaseIn > 0
  BY DEF LeaseLive
<1>2. ASSUME LeaseLive(job[j]), faults' \in {faults, faults + 1}
      PROVE  faults' > 0 \/ \E m \in MessagesOf(j) : Working(m) /\ OwnsAttempt(m)
  BY <1>2, FaultsGrow DEF AckInv, LeasesHaveWorkers
<1>3. CASE \E m \in Messages : MessageMoves(m)
  <2>1. PICK m \in Messages : MessageMoves(m)
    BY <1>3
  <2>2. Others(m) /\ faults' \in {faults, faults + 1}
    BY <2>1 DEF MessageMoves
  <2>3. CASE JobOf[m] = j /\ job'[j] # job[j]
    <3>1. Claims(m)
      BY <1>1, <2>1, <2>3, RowsOfRuns
    <3>2. RowOf(m) = job[j] /\ RowOf(m) \in Row /\ RowOf(m)' = job'[j]
      BY <2>3, RowTyped DEF RowOf
    <3>3. ClaimedRow(m).attempt = job[j].version + 1
      BY <3>2 DEF ClaimedRow, Row
    <3>4. CASE run'[m].phase = "error" /\ faults' = faults + 1
      BY <2>2, <3>4, FaultsGrow
    <3>5. CASE run'[m].phase = "working" /\ run'[m].attempt = job[j].version + 1
      <4>1. Working(m)' /\ OwnsAttempt(m)'
        BY <1>1, <2>3, <3>1, <3>2, <3>3, <3>5 DEF Claims, Working, OwnsAttempt
      <4>2. QED
        BY <2>3, <4>1 DEF MessagesOf
    <3>6. QED
      BY <2>3, <3>1, <3>4, <3>5 DEF Claims
  <2>4. CASE job'[j] = job[j]
    <3>1. SUFFICES ASSUME NEW n \in MessagesOf(j), Working(n), OwnsAttempt(n)
                   PROVE  faults' > 0 \/ (Working(n)' /\ OwnsAttempt(n)')
      BY <1>2, <2>2, <2>4 DEF LeaseLive
    <3>2. n \in Messages /\ JobOf[n] = j
      BY DEF MessagesOf
    <3>3. CASE n = m
      BY <2>1, <2>4, <3>1, <3>2, <3>3, HolderKeepsClaim
    <3>4. CASE n # m
      BY <2>2, <2>4, <3>1, <3>2, <3>4 DEF Others, Working, OwnsAttempt, RowOf
    <3>5. QED
      BY <3>3, <3>4
  <2>5. QED
    BY <2>2, <2>3, <2>4 DEF Others
<1>4. CASE TickMoves
  <2>1. /\ job'[j].status = job[j].status /\ job'[j].leaseIn = Less(job[j].leaseIn)
        /\ job[j].leaseIn \in Nat /\ job'[j].attempt = job[j].attempt /\ faults' = faults
    BY <1>4, RowFields DEF TickMoves
  <2>2. LeaseLive(job[j])
    BY <1>1, <2>1, LessKeepsOrder DEF LeaseLive
  <2>3. \A n \in MessagesOf(j) : run'[n] = run[n] /\ JobOf[n] = j
    BY <1>4 DEF TickMoves, MessagesOf
  <2>4. QED
    BY <1>2, <2>1, <2>2, <2>3 DEF Working, OwnsAttempt, RowOf
<1>5. CASE (\E i \in Jobs : RowMoves(i)) \/ UNCHANGED vars
  <2>1. job'[j] = job[j] /\ UNCHANGED <<run, faults>>
    BY <1>1, <1>5 DEF RowMoves, vars
  <2>2. QED
    BY <1>2, <2>1 DEF Working, OwnsAttempt, RowOf, MessagesOf, LeaseLive
<1>6. QED
  BY <1>3, <1>4, <1>5, EveryStepMoves

LEMMA LosersStayLeased ==
    ASSUME TypeOK, AckInv, [Next]_vars, RunTimeout < Lease
    PROVE  LosersMeetLeases'
<1> SUFFICES ASSUME NEW m \in Messages, run'[m].phase \in {"claiming", "raced"},
                    RowOf(m)'.status = "WORKER_PROCESSING",
                    ~(run'[m].phase = "claiming" /\ ClaimCondition(m)')
             PROVE  RowOf(m)'.leaseIn > runLeft'[m]
  BY DEF LosersMeetLeases
<1> DEFINE j == JobOf[m]
<1>1. j \in Jobs /\ RowOf(m) = job[j] /\ RowOf(m)' = job'[j]
  BY RowTyped DEF RowOf
<1>2. CASE run'[m] = run[m] /\ runLeft'[m] = runLeft[m]
  <2>1. CASE job'[j] = job[j]
    <3>1. ClaimCondition(m)' <=> ClaimCondition(m)
      BY <1>1, <1>2, <2>1 DEF ClaimCondition
    <3>2. QED
      BY <1>1, <1>2, <2>1, <3>1 DEF AckInv, LosersMeetLeases
  <2>2. CASE job'[j].leaseIn = Lease
    BY <1>1, <1>2, <2>2, Countdowns, TimeoutAssumption
  <2>3. CASE TickMoves
    <3>1. run[m].phase # "idle"
      BY <1>2
    <3>2. runLeft[m] > 0 /\ runLeft'[m] = Less(runLeft[m])
      BY <2>3, <3>1 DEF TickMoves
    <3>3. FALSE
      BY <1>2, <3>2, Countdowns DEF Less
    <3>4. QED
      BY <3>3
  <2>4. job'[j] = job[j] \/ job'[j].leaseIn = Lease \/ TickMoves
    <3>1. ASSUME NEW n \in Messages, MessageMoves(n)
          PROVE  job'[j] = job[j] \/ job'[j].leaseIn = Lease
      <4>1. CASE JobOf[n] = j
        BY <1>1, <3>1, <4>1, RowsOfRuns
      <4>2. CASE JobOf[n] # j
        BY <1>1, <3>1, <4>2 DEF MessageMoves, Others
      <4>3. QED
        BY <4>1, <4>2
    <3>2. ASSUME NEW i \in Jobs, RowMoves(i) PROVE job'[j] = job[j]
      BY <1>1, <3>2 DEF RowMoves
    <3>3. QED
      BY <3>1, <3>2, EveryStepMoves DEF vars
  <2>5. QED
    BY <2>1, <2>2, <2>3, <2>4
<1>3. CASE TickMoves
  <2>1. run'[m] = run[m] /\ runLeft[m] > 0 /\ runLeft'[m] = Less(runLeft[m])
    BY <1>3 DEF TickMoves
  <2>2. /\ job'[j].status = job[j].status /\ job'[j].version = job[j].version
        /\ job'[j].leaseIn = Less(job[j].leaseIn)
    BY <1>1, <1>3 DEF TickMoves
  <2>3. ClaimCondition(m)' <=> ClaimCondition(m)
    BY <1>1, <2>1, <2>2 DEF ClaimCondition
  <2>4. RowOf(m).leaseIn > runLeft[m]
    BY <1>1, <2>1, <2>2, <2>3 DEF AckInv, LosersMeetLeases
  <2>5. Less(RowOf(m).leaseIn) > Less(runLeft[m])
    BY <2>1, <2>4, Countdowns, LessKeepsOrder
  <2>6. QED
    BY <1>1, <2>1, <2>2, <2>5
<1>4. CASE MessageMoves(m) /\ run'[m] # run[m]
  <2>1. CASE Reads(m)
    <3>1. run'[m].phase = "claiming" /\ job'[j] = job[j]
      BY <2>1, DispositionIsPhase DEF Reads, Rests
    <3>2. ClaimCondition(m)'
      BY <1>1, <2>1, <3>1 DEF Reads, ClaimCondition
    <3>3. QED
      BY <3>1, <3>2
  <2>2. CASE IsRefused(m)
    <3>1. /\ job'[j] = job[j] /\ runLeft'[m] = runLeft[m]
          /\ run[m].phase = "claiming" /\ ~ClaimCondition(m)
      BY <2>2 DEF IsRefused, Rests, Calls
    <3>2. QED
      BY <1>1, <3>1 DEF AckInv, LosersMeetLeases
  <2>3. QED
    BY <1>4, <2>1, <2>2
    DEF MessageMoves, Arrives, IsReceived, IsParked, Ends, Claims, ReadsAgain, Fails,
        Completes, RecordsFailure, GivesUp, Announces, Marks
<1>5. CASE MessageMoves(m) /\ run'[m] = run[m]
  <2>1. runLeft'[m] = runLeft[m]
    BY <1>5, RunsMoveInCalls
    DEF MessageMoves, Arrives, IsReceived, IsParked, Visible, Ends, Calls
  <2>2. QED
    BY <1>2, <1>5, <2>1
<1>6. \/ MessageMoves(m) \/ TickMoves
      \/ run'[m] = run[m] /\ runLeft'[m] = runLeft[m]
  BY EveryStepMoves DEF MessageMoves, Others, RowMoves, vars
<1>7. QED
  BY <1>2, <1>3, <1>4, <1>5, <1>6

\* Who reads that the job is taken, and is acknowledged for it, is not the
\* message that will finish it.
LEMMA LoserLeavesHolder ==
    ASSUME TypeOK, ReadInv, AckInv, NEW m \in Messages, MessageMoves(m),
           run[m].phase \in {"received", "raced"}, LeaseLive(RowOf(m)),
           job'[JobOf[m]] = job[JobOf[m]]
    PROVE  Pending(JobOf[m])' \/ LeftClaimed(JobOf[m])'
<1>1. Others(m) /\ RowOf(m) = job[JobOf[m]] /\ JobOf[m] \in Jobs
  BY RowTyped DEF MessageMoves, RowOf
<1>2. CASE faults > 0
  BY <1>1, <1>2, FaultsGrow DEF MessageMoves, LeaseLive, LeftClaimed
<1>3. CASE faults = 0
  <2>1. PICK n \in MessagesOf(JobOf[m]) : Working(n)
    BY <1>1, <1>3 DEF AckInv, LeasesHaveWorkers
  <2>2. n \in Messages /\ n # m /\ msg[n].state = "queued"
    BY <2>1 DEF MessagesOf, Working, ReadInv, RunsAreQueued
  <2>3. run'[n] = run[n] /\ msg'[n] = msg[n] /\ n \in MessagesOf(JobOf[m])'
    BY <1>1, <2>1, <2>2 DEF Others, MessagesOf
  <2>4. QED
    BY <2>1, <2>2, <2>3 DEF Pending, Working
<1>4. QED
  BY <1>2, <1>3, LimitsAssumption DEF TypeOK

\* The message somebody still has to work on is not acknowledged unless its
\* job is settled or is somebody else's.
LEMMA MessageKeepsPending ==
    ASSUME TypeOK, TypeOK', ReadInv, WorkerInv, AckInv, NEW m \in Messages, MessageMoves(m),
           msg[m].state \in {"queued", "dead"}, run[m].phase # "ok", ~Settled(JobOf[m])
    PROVE  Settled(JobOf[m])' \/ Pending(JobOf[m])' \/ LeftClaimed(JobOf[m])'
<1>1. /\ Others(m) /\ RowOf(m) = job[JobOf[m]] /\ RowOf(m)' = job'[JobOf[m]]
      /\ JobOf[m] \in Jobs /\ m \in MessagesOf(JobOf[m])'
      /\ job[JobOf[m]] \in Row
  BY RowTyped DEF MessageMoves, RowOf, MessagesOf
<1>2. CASE msg'[m].state \in {"queued", "dead"} /\ run'[m].phase # "ok"
  BY <1>1, <1>2 DEF Pending
<1>3. CASE Reads(m) /\ run'[m].phase = "ok"
  <2>1. LeaseLive(RowOf(m)) /\ job'[JobOf[m]] = job[JobOf[m]] /\ run[m].phase = "received"
    BY <1>1, <1>3 DEF Reads, Disposition, Settled, Rests
  <2>2. QED
    BY <2>1, LoserLeavesHolder
<1>4. CASE ReadsAgain(m) /\ run'[m].phase = "ok"
  <2>1. /\ run[m].phase = "raced" /\ RowOf(m).status = "WORKER_PROCESSING"
        /\ job'[JobOf[m]] = job[JobOf[m]]
    BY <1>1, <1>4 DEF ReadsAgain, Settled, Rests
  <2>2. RowOf(m).leaseIn > runLeft[m]
    BY <2>1 DEF AckInv, LosersMeetLeases
  <2>3. LeaseLive(RowOf(m))
    BY <2>1, <2>2, Countdowns DEF LeaseLive
  <2>4. QED
    BY <2>1, <2>3, LoserLeavesHolder
<1>5. CASE Completes(m)
  <2>1. job'[JobOf[m]].status = "completed"
    BY <1>1, <1>5 DEF Completes, ClosedRow, Row
  <2>2. QED
    BY <2>1 DEF Settled
<1>6. CASE GivesUp(m) /\ run'[m].phase = "ok"
  <2>1. ~OwnsAttempt(m) /\ Working(m)
    BY <1>6 DEF GivesUp, Working
  <2>2. QED
    BY <1>1, <2>1 DEF WorkerInv, ClaimHeld, Settled
<1>7. CASE Marks(m) /\ run'[m].phase = "ok"
  <2>1. Unannounced(m) /\ job'[JobOf[m]] = PublishedRow(m)
    BY <1>7 DEF Marks
  <2>2. job'[JobOf[m]].status \in FailedStatus /\ job'[JobOf[m]].published
    BY <1>1, <2>1 DEF Unannounced, PublishedRow, Row
  <2>3. QED
    BY <2>2 DEF Settled
<1>8. \/ msg'[m].state \in {"queued", "dead"} /\ run'[m].phase # "ok"
      \/ Reads(m) \/ ReadsAgain(m) \/ Completes(m) \/ GivesUp(m) \/ Marks(m)
  BY MessageTyped
  DEF MessageMoves, Arrives, IsReceived, IsParked, Visible, Ends, Claims, IsRefused,
      Fails, RecordsFailure, Announces, Calls, Run
<1>9. Reads(m) \/ ReadsAgain(m) \/ GivesUp(m) \/ Marks(m) => msg'[m] = msg[m]
  BY DEF Reads, ReadsAgain, GivesUp, Marks, Calls
<1>10. QED
  BY <1>2, <1>3, <1>4, <1>5, <1>6, <1>7, <1>8, <1>9

\* A job nobody has to work on is left as it is until a message arrives.
LEMMA RestIsKept ==
    ASSUME TypeOK, ReadInv, NEW j \in Jobs, ~Pending(j), [Next]_vars
    PROVE  \/ Settled(j)' \/ Pending(j)'
           \/ /\ Unsent(j) => Unsent(j)'
              /\ LeftClaimed(j) => LeftClaimed(j)'
<1>1. ASSUME NEW m \in MessagesOf(j), MessageMoves(m)
      PROVE  Pending(j)' \/ (Ends(m) /\ msg[m].state # "unsent")
  <2>1. m \in Messages /\ JobOf[m] = j /\ m \in MessagesOf(j)'
    BY DEF MessagesOf
  <2>2. run[m].phase # "idle" => msg[m].state = "queued"
    BY <2>1 DEF ReadInv, RunsAreQueued
  <2>3. msg[m].state \notin {"queued", "dead"} \/ run[m].phase = "ok"
    BY DEF Pending
  <2>4. CASE Arrives(m)
    BY <2>1, <2>2, <2>4 DEF Arrives, Pending
  <2>5. CASE Ends(m)
    BY <2>2, <2>5 DEF Ends
  <2>6. QED
    BY <1>1, <2>2, <2>3, <2>4, <2>5
    DEF MessageMoves, IsReceived, IsParked, Visible, Reads, Claims, IsRefused, ReadsAgain,
        Fails, Completes, StoresResult, CallsProvider, RecordsFailure, GivesUp, Announces,
        Marks
<1>2. CASE \E m \in Messages : MessageMoves(m)
  <2>1. PICK m \in Messages : MessageMoves(m)
    BY <1>2
  <2>2. CASE JobOf[m] = j
    <3>1. Pending(j)' \/ (Ends(m) /\ msg[m].state # "unsent")
      BY <1>1, <2>1, <2>2 DEF MessagesOf
    <3>2. CASE Ends(m) /\ msg[m].state # "unsent"
      <4>1. job'[j] = job[j] /\ ~Unsent(j) /\ faults' \in {faults, faults + 1}
        BY <2>1, <2>2, <3>2 DEF Ends, Rests, Unsent, MessagesOf, MessageMoves
      <4>2. QED
        BY <4>1, FaultsGrow DEF LeftClaimed
    <3>3. QED
      BY <3>1, <3>2
  <2>3. CASE JobOf[m] # j
    <3>1. job'[j] = job[j] /\ faults' \in {faults, faults + 1}
      BY <2>1, <2>3 DEF MessageMoves, Others
    <3>2. \A n \in MessagesOf(j) : msg'[n] = msg[n]
      BY <2>1, <2>3 DEF MessageMoves, Others, MessagesOf
    <3>3. QED
      BY <3>1, <3>2, FaultsGrow DEF LeftClaimed, Unsent, MessagesOf
  <2>4. QED
    BY <2>2, <2>3
<1>3. CASE \E i \in Jobs : RowMoves(i)
  BY <1>3 DEF RowMoves, Settled, LeftClaimed, Unsent, MessagesOf
<1>4. CASE TickMoves
  BY <1>4 DEF TickMoves, LeftClaimed, Unsent, MessagesOf
<1>5. CASE UNCHANGED vars
  BY <1>5 DEF vars, LeftClaimed, Unsent, MessagesOf
<1>6. QED
  BY <1>2, <1>3, <1>4, <1>5, EveryStepMoves

LEMMA PendingIsKept ==
    ASSUME TypeOK, TypeOK', ReadInv, WorkerInv, AckInv, [Next]_vars
    PROVE  UnsettledIsPending'
<1> SUFFICES ASSUME NEW j \in Jobs
             PROVE  Settled(j)' \/ Unsent(j)' \/ Pending(j)' \/ LeftClaimed(j)'
  BY DEF UnsettledIsPending
<1>1. CASE Settled(j)
  BY <1>1, SettledIsFinal
<1>2. CASE ~Settled(j) /\ ~Pending(j)
  BY <1>2, RestIsKept DEF AckInv, UnsettledIsPending
<1>3. CASE ~Settled(j) /\ Pending(j)
  <2>1. PICK m \in MessagesOf(j) :
           msg[m].state \in {"queued", "dead"} /\ run[m].phase # "ok"
    BY <1>3 DEF Pending
  <2>2. m \in Messages /\ JobOf[m] = j
    BY <2>1 DEF MessagesOf
  <2>3. CASE MessageMoves(m)
    BY <1>3, <2>1, <2>2, <2>3, MessageKeepsPending
  <2>4. CASE run'[m] = run[m] /\ msg'[m].state = msg[m].state
    BY <2>1, <2>4 DEF Pending, MessagesOf
  <2>5. QED
    BY <2>2, <2>3, <2>4, OtherRuns
<1>4. QED
  BY <1>1, <1>2, <1>3

\* The one condition on the timing: an invocation is killed before its lease
\* can run out.  The visibility timeout may be shorter than the lease, as it
\* is in the deployment.
THEOREM AcknowledgedIsAccountedFor ==
    ASSUME RunTimeout < Lease
    PROVE  Spec => []AckInv
<1>1. Init => AckInv
  <2> SUFFICES ASSUME Init PROVE AckInv
    OBVIOUS
  <2>1. \A j \in Jobs : job[j].leaseIn = 0
    BY DEF Init
  <2>2. \A m \in Messages : run[m].phase = "idle" /\ msg[m].state = "unsent"
    BY DEF Init, Idle
  <2>3. LeasesHaveWorkers
    BY <2>1 DEF LeasesHaveWorkers, LeaseLive
  <2>4. LosersMeetLeases
    BY <2>2 DEF LosersMeetLeases
  <2>5. UnsettledIsPending
    BY <2>2 DEF UnsettledIsPending, Unsent, MessagesOf
  <2>6. QED
    BY <2>3, <2>4, <2>5 DEF AckInv
<1>2. TypeOK /\ TypeOK' /\ ReadInv /\ WorkerInv /\ AckInv /\ [Next]_vars => AckInv'
  BY LeasesStayHeld, LosersStayLeased, PendingIsKept DEF AckInv
<1>3. QED
  BY <1>1, <1>2, TypeCorrect, ReadsAreSound, WorkersAreExclusive, PTL DEF Spec

\* Once the queue has nothing left for a job, the job is settled, or a run that
\* died has left it claimed: for the deployed timeouts too.
THEOREM AcknowledgedWorkIsSettledOrAbandoned ==
    ASSUME RunTimeout < Lease
    PROVE  Spec => []AckedSettledOrAbandoned
<1>1. AckInv => AckedSettledOrAbandoned
  <2> SUFFICES ASSUME AckInv, NEW j \in Jobs, NothingLeft(j)
               PROVE  Settled(j) \/ Abandoned(j)
    BY DEF AckedSettledOrAbandoned
  <2>1. ~Unsent(j) /\ ~Pending(j)
    BY DEF NothingLeft, Unsent, Pending
  <2>2. QED
    BY <2>1 DEF AckInv, UnsettledIsPending, LeftClaimed, Abandoned
<1>2. QED
  BY <1>1, AcknowledgedIsAccountedFor, PTL

=============================================================================
