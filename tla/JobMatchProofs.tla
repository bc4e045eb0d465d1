--------------------------- MODULE JobMatchProofs ---------------------------
(***************************************************************************)
(* Theorems about JobMatch, for every number of child jobs, of duplicated    *)
(* messages of the match and of its children, and every limit and lease.     *)
(* The steps a run shares with the other workflows are those of              *)
(* WorkerProofs.                                                             *)
(***************************************************************************)
EXTENDS JobMatch, WorkerProofs

-----------------------------------------------------------------------------
(* What one call of process_job_match does.                                  *)

\* The messages of the match: the runs that dispatch children.
MatchMessages == MessagesOf(Match)

ChildStatus == {"waiting", "QUEUED_PENDING_DISPATCH", "FAILED_RETRYABLE"}

\* dispatch_child_job found the child in one of the states it dispatches from.
ExpectsChild ==
    \A m \in Messages, c \in Children : dispatch[m][c].expected \in ChildStatus

MatchTypeInv == MatchTypeOK /\ ExpectsChild

Fallen(m) == run'[m].phase = "failing" /\ run'[m].attempt = run[m].attempt

\* The first step: the run fails, with its result stored or not.
StoreMoves(m) ==
    /\ run[m].seen # "RESULT_READY"
    /\ UNCHANGED <<msg, dispatch>> /\ Fallen(m)
    /\ \A j \in Jobs : j # Match => job'[j] = job[j]
    /\ \/ UNCHANGED job
       \/ OwnsAttempt(m) /\ job'[Match] = ClosedRow(m, "RESULT_READY")

CompletionMoves(m) ==
    /\ run[m].seen = "RESULT_READY"
    /\ \A c \in Children : dispatch[m][c].step = "done"
    /\ UNCHANGED <<msg, dispatch>>
    /\ \A j \in Jobs : j # Match => job'[j] = job[j]
    /\ \/ /\ OwnsAttempt(m) /\ job'[Match] = ClosedRow(m, "completed")
          /\ run'[m].phase = "ok" /\ UNCHANGED faults
       \/ /\ ~OwnsAttempt(m) /\ UNCHANGED <<job, faults>>
          /\ Fallen(m) /\ ~retryable(run'[m].error)
       \/ /\ OwnsAttempt(m) /\ Fallen(m) /\ faults' = faults + 1
          /\ UNCHANGED job \/ job'[Match] = ClosedRow(m, "completed")

\* A call for child c: what it writes to the row of the child ...
ChildRow(m, c) ==
    /\ \A j \in Jobs : j # c => job'[j] = job[j]
    /\ \/ job'[c] = job[c]
       \/ /\ dispatch[m][c].step = "pend" /\ job[c].status = dispatch[m][c].expected
          /\ job'[c].status = "QUEUED_PENDING_DISPATCH"
          /\ job'[c].version = job[c].version + 1
       \/ /\ dispatch[m][c].step = "mark" /\ job[c].status = "QUEUED_PENDING_DISPATCH"
          /\ job'[c].status = "processing"
          /\ job'[c].version = job[c].version + 1

\* ... and sends to the queue ...
Sending(c) ==
    \E n \in MessagesOf(c) :
        /\ msg[n].state = "unsent" /\ msg'[n].state = "queued"
        /\ \A k \in Messages : k # n => msg'[k] = msg[k]

\* ... and how the run goes on.
Advances(m, c) ==
    LET s == dispatch[m][c].step
        t == dispatch'[m][c].step
    IN  /\ faults' = faults /\ UNCHANGED run
        /\ \A d \in Children : d # c => dispatch'[m][d] = dispatch[m][d]
        /\ \/ t = "done" /\ job'[c].status \in Absorbed /\ UNCHANGED msg
           \/ s = "send" /\ t = "mark" /\ Sending(c) /\ UNCHANGED job
           \/ s = "mark" /\ t = "markRaced" /\ UNCHANGED <<job, msg>>
           \/ /\ s \in {"read", "pend", "pendRaced"} /\ t \in {"pend", "send", "pendRaced"}
              /\ UNCHANGED msg

Stops(m, c) ==
    /\ Fallen(m) /\ UNCHANGED dispatch
    /\ \/ /\ faults' = faults + 1
          /\ UNCHANGED msg \/ (dispatch[m][c].step = "send" /\ Sending(c))
       \/ /\ faults' = faults /\ UNCHANGED <<job, msg>>
          /\ \/ ~retryable(run'[m].error)
             \/ dispatch[m][c].step = "read" /\ job[c].status \in FailedStatus

ChildMoves(m, c) ==
    /\ run[m].seen = "RESULT_READY"
    /\ dispatch[m][c].step # "done"
    /\ ChildRow(m, c)
    /\ Advances(m, c) \/ Stops(m, c)

MatchMoves(m) ==
    /\ run[m].phase = "working"
    /\ \A n \in Messages : n # m => run'[n] = run[n] /\ dispatch'[n] = dispatch[n]
    /\ UNCHANGED <<runLeft, envelopes>>
    /\ faults' \in {faults, faults + 1}
    /\ StoreMoves(m) \/ CompletionMoves(m) \/ \E c \in Children : ChildMoves(m, c)

LEMMA MatchFacts ==
    /\ Children \subseteq Jobs /\ Match \in Jobs /\ Match \notin Children
    /\ Children = Jobs \ {Match} /\ JobType[Match] = "jobMatch"
    /\ MatchMessages \subseteq Messages
    /\ \A m \in MatchMessages : JobOf[m] = Match /\ RowOf(m) = job[Match]
  BY MatchAssumption DEF MatchMessages, MessagesOf, RowOf

LEMMA RetryableErrors ==
    ~retryable("client") /\ ~retryable("badInput") /\ retryable("server")
  BY DEF retryable, classify_failure

LEMMA HandoversInMatrix ==
    /\ \A s \in {"RESULT_READY", "completed"} : can_transition("WORKER_PROCESSING", s)
    /\ can_transition("waiting", "QUEUED_PENDING_DISPATCH")
  BY DEF can_transition, known_statuses, WORKFLOW_TRANSITIONS, TERMINAL_STATUSES

\* A call that fails leaves everything but its run alone, or with a fault.
LEMMA FallIsTyped ==
    ASSUME TypeOK, NEW m \in Messages, NEW error \in Errors, FailWith(m, error)
    PROVE  /\ run' \in [Messages -> Run] /\ Fallen(m) /\ run'[m].error = error
           /\ \A n \in Messages : n # m => run'[n] = run[n]
<1>1. run \in [Messages -> Run]
  BY DEF TypeOK
<1>2. run'[m] = [run[m] EXCEPT !.phase = "failing", !.error = error]
  BY <1>1 DEF FailWith
<1>3. run'[m].error = error
  BY <1>1, <1>2 DEF Run
<1>4. QED
  BY <1>3, FailWithIsTyped DEF Fallen

\* The dispatch of one child moves on.
LEMMA StepIsTyped ==
    ASSUME MatchTypeInv, NEW m \in Messages, NEW c \in Children,
           NEW r \in [step : Step, expected : ChildStatus],
           dispatch' = [dispatch EXCEPT ![m][c] = r]
    PROVE  /\ dispatch' \in [Messages -> [Children -> [step : Step, expected : Status]]]
           /\ ExpectsChild' /\ dispatch'[m][c] = r
           /\ \A n \in Messages : n # m => dispatch'[n] = dispatch[n]
           /\ \A d \in Children : d # c => dispatch'[m][d] = dispatch[m][d]
<1> DEFINE D == [Children -> [step : Step, expected : Status]]
<1>1. dispatch \in [Messages -> D] /\ dispatch[m] \in D
  BY DEF MatchTypeInv, MatchTypeOK
<1>2. r \in [step : Step, expected : Status] /\ r.expected \in ChildStatus
  BY Vocabulary DEF ChildStatus, Status
<1>3. dispatch'[m] = [dispatch[m] EXCEPT ![c] = r]
      /\ \A n \in Messages : n # m => dispatch'[n] = dispatch[n]
  BY <1>1
<1>4. dispatch'[m] \in D /\ dispatch'[m][c] = r
      /\ \A d \in Children : d # c => dispatch'[m][d] = dispatch[m][d]
  BY <1>1, <1>2, <1>3
<1>5. dispatch' \in [Messages -> D]
  BY <1>1, <1>3, <1>4
<1>6. ExpectsChild'
  BY <1>2, <1>3, <1>4 DEF MatchTypeInv, ExpectsChild
<1>7. QED
  BY <1>3, <1>4, <1>5, <1>6

LEMMA StepToIsTyped ==
    ASSUME MatchTypeInv, NEW m \in Messages, NEW c \in Children, NEW s \in Step,
           StepTo(m, c, s)
    PROVE  /\ dispatch' \in [Messages -> [Children -> [step : Step, expected : Status]]]
           /\ ExpectsChild' /\ dispatch'[m][c].step = s
           /\ \A n \in Messages : n # m => dispatch'[n] = dispatch[n]
           /\ \A d \in Children : d # c => dispatch'[m][d] = dispatch[m][d]
<1> DEFINE r == [dispatch[m][c] EXCEPT !.step = s]
<1>1. dispatch[m][c] \in [step : Step, expected : ChildStatus]
  BY DEF MatchTypeInv, MatchTypeOK, ExpectsChild
<1>2. r \in [step : Step, expected : ChildStatus] /\ r.step = s
  BY <1>1
<1>3. dispatch' = [dispatch EXCEPT ![m][c] = r]
  BY DEF StepTo
<1> HIDE DEF r
<1>4. QED
  BY <1>2, <1>3, StepIsTyped

LEMMA SetChildIsTyped ==
    ASSUME TypeOK, NEW c \in Children, NEW s \in Status, SetChild(c, s)
    PROVE  /\ job' \in [Jobs -> Row] /\ job'[c].status = s
           /\ job'[c].version = job[c].version + 1
           /\ \A j \in Jobs : j # c => job'[j] = job[j]
<1> DEFINE v == job[c].version + 1
           r == [job[c] EXCEPT !.status = s, !.version = v]
<1>1. c \in Jobs /\ job \in [Jobs -> Row] /\ job[c] \in Row
  BY MatchFacts DEF TypeOK
<1>2. v \in Nat
  BY <1>1 DEF Row
<1>3. job' = [job EXCEPT ![c] = r]
  BY <1>1 DEF SetChild
<1> HIDE DEF v
<1>4. r \in Row /\ r.status = s /\ r.version = v
  BY <1>1, <1>2 DEF Row
<1> HIDE DEF r
<1>5. QED
  BY <1>1, <1>3, <1>4 DEF v

LEMMA SendIsTyped ==
    ASSUME TypeOK, NEW c \in Children, NEW n \in MessagesOf(c),
           msg[n].state = "unsent", msg' = [msg EXCEPT ![n].state = "queued"]
    PROVE  msg' \in [Messages -> Message] /\ Sending(c)
<1>1. n \in Messages /\ msg \in [Messages -> Message] /\ msg[n] \in Message
  BY DEF TypeOK, MessagesOf
<1>2. msg'[n] = [msg[n] EXCEPT !.state = "queued"]
      /\ \A k \in Messages : k # n => msg'[k] = msg[k]
  BY <1>1
<1>3. msg'[n] \in Message /\ msg'[n].state = "queued"
  BY <1>1, <1>2 DEF Message
<1>4. msg' \in [Messages -> Message]
  BY <1>1, <1>2, <1>3
<1>5. QED
  BY <1>2, <1>3, <1>4 DEF Sending


LEMMA ErrorsAre == {"client", "server", "badInput"} \subseteq Errors
  BY DEF Errors

\* The first step of the workflow.
LEMMA StoreStep ==
    ASSUME MatchTypeInv, NEW m \in Messages, StoreResult(m) \/ StoreResultLost(m)
    PROVE  MatchTypeInv' /\ MatchMoves(m) /\ m \in MatchMessages
<1>1. /\ TypeOK /\ UNCHANGED <<msg, runLeft, envelopes, dispatch>>
      /\ run[m].phase = "working" /\ run[m].seen # "RESULT_READY" /\ JobOf[m] = Match
  BY DEF MatchTypeInv, MatchTypeOK, StoreResult, StoreResultLost, ProvidesMatch, CallsProvider
<1>2. PICK error \in Errors : FailWith(m, error)
  BY ErrorsAre DEF StoreResult, StoreResultLost
<1>3. faults' \in 0..MaxFaults /\ faults' \in {faults, faults + 1}
  BY <1>1, FaultIsTyped DEF StoreResult, StoreResultLost, TypeOK
<1>4. UNCHANGED job \/ (OwnsAttempt(m) /\ SetRow(m, ClosedRow(m, "RESULT_READY")))
  BY DEF StoreResult, StoreResultLost
<1>5. ClosedRow(m, "RESULT_READY") \in Row
  BY <1>1, ClosedRowIsRow, Vocabulary DEF Status
<1>6. /\ job' \in [Jobs -> Row]
      /\ \A j \in Jobs : j # Match => job'[j] = job[j]
      /\ UNCHANGED job \/ (OwnsAttempt(m) /\ job'[Match] = ClosedRow(m, "RESULT_READY"))
  <2>1. CASE UNCHANGED job
    BY <1>1, <2>1 DEF TypeOK
  <2>2. CASE OwnsAttempt(m) /\ SetRow(m, ClosedRow(m, "RESULT_READY"))
    <3> DEFINE r == ClosedRow(m, "RESULT_READY")
    <3>1. job' = [job EXCEPT ![Match] = r] /\ r \in Row
      BY <1>1, <1>5, <2>2 DEF SetRow
    <3> HIDE DEF r
    <3>2. job' \in [Jobs -> Row] /\ job'[Match] = r
          /\ \A j \in Jobs : j # Match => job'[j] = job[j]
      BY <1>1, <3>1, MatchFacts DEF TypeOK
    <3>3. QED
      BY <2>2, <3>2 DEF r
  <2>3. QED
    BY <1>4, <2>1, <2>2
<1>7. /\ run' \in [Messages -> Run] /\ Fallen(m)
      /\ \A n \in Messages : n # m => run'[n] = run[n]
  BY <1>1, <1>2, FallIsTyped
<1>8. MatchTypeInv'
  BY <1>1, <1>3, <1>6, <1>7 DEF MatchTypeInv, MatchTypeOK, TypeOK, ExpectsChild
<1>9. StoreMoves(m)
  BY <1>1, <1>6, <1>7 DEF StoreMoves
<1>10. m \in MatchMessages
  BY <1>1 DEF MatchMessages, MessagesOf
<1>11. QED
  BY <1>1, <1>3, <1>7, <1>8, <1>9, <1>10 DEF MatchMoves

\* The end of the workflow.
LEMMA CompletionStep ==
    ASSUME MatchTypeInv, NEW m \in Messages, CompleteMatch(m)
    PROVE  MatchTypeInv' /\ MatchMoves(m) /\ m \in MatchMessages
<1>1. /\ TypeOK /\ UNCHANGED <<msg, runLeft, envelopes, faults, dispatch>>
      /\ run[m].phase = "working" /\ run[m].seen = "RESULT_READY" /\ JobOf[m] = Match
      /\ \A c \in Children : dispatch[m][c].step = "done"
  BY DEF MatchTypeInv, MatchTypeOK, CompleteMatch, AllDispatched
<1>2. m \in MatchMessages
  BY <1>1 DEF MatchMessages, MessagesOf
<1>3. CASE OwnsAttempt(m) /\ SetRow(m, ClosedRow(m, "completed")) /\ Leave(m, "ok")
  <2> DEFINE r == ClosedRow(m, "completed")
  <2>1. job' = [job EXCEPT ![Match] = r] /\ r \in Row
    BY <1>1, <1>3, ClosedRowIsRow, Vocabulary DEF SetRow, Status
  <2> HIDE DEF r
  <2>2. job' \in [Jobs -> Row] /\ job'[Match] = r
        /\ \A j \in Jobs : j # Match => job'[j] = job[j]
    BY <1>1, <2>1, MatchFacts DEF TypeOK
  <2>3. /\ run' \in [Messages -> Run] /\ run'[m].phase = "ok"
        /\ \A n \in Messages : n # m => run'[n] = run[n]
    BY <1>1, <1>3, LeaveIsTyped, PhasesAre
  <2>4. MatchTypeInv'
    BY <1>1, <2>2, <2>3 DEF MatchTypeInv, MatchTypeOK, TypeOK, ExpectsChild
  <2>5. CompletionMoves(m)
    BY <1>1, <1>3, <2>2, <2>3 DEF CompletionMoves, r
  <2>6. QED
    BY <1>1, <1>2, <2>3, <2>4, <2>5 DEF MatchMoves
<1>4. CASE ~OwnsAttempt(m) /\ FailWith(m, "client") /\ UNCHANGED job
  <2>1. /\ run' \in [Messages -> Run] /\ Fallen(m) /\ run'[m].error = "client"
        /\ \A n \in Messages : n # m => run'[n] = run[n]
    BY <1>1, <1>4, FallIsTyped, ErrorsAre
  <2>2. MatchTypeInv'
    BY <1>1, <1>4, <2>1 DEF MatchTypeInv, MatchTypeOK, TypeOK, ExpectsChild
  <2>3. CompletionMoves(m)
    BY <1>1, <1>4, <2>1, RetryableErrors DEF CompletionMoves
  <2>4. QED
    BY <1>1, <1>2, <2>1, <2>2, <2>3 DEF MatchMoves
<1>5. QED
  BY <1>3, <1>4 DEF CompleteMatch

LEMMA CompletionLostStep ==
    ASSUME MatchTypeInv, NEW m \in Messages, CompleteMatchLost(m)
    PROVE  MatchTypeInv' /\ MatchMoves(m) /\ m \in MatchMessages
<1>1. /\ TypeOK /\ UNCHANGED <<msg, runLeft, envelopes, dispatch>>
      /\ run[m].phase = "working" /\ run[m].seen = "RESULT_READY" /\ JobOf[m] = Match
      /\ \A c \in Children : dispatch[m][c].step = "done"
      /\ OwnsAttempt(m)
  BY DEF MatchTypeInv, MatchTypeOK, CompleteMatchLost, AllDispatched
<1>2. m \in MatchMessages
  BY <1>1 DEF MatchMessages, MessagesOf
<1>3. PICK error \in Errors : FailWith(m, error)
  BY ErrorsAre DEF CompleteMatchLost
<1>4. faults' \in 0..MaxFaults /\ faults' = faults + 1
  BY <1>1, FaultIsTyped DEF CompleteMatchLost
<1>5. /\ job' \in [Jobs -> Row]
      /\ \A j \in Jobs : j # Match => job'[j] = job[j]
      /\ UNCHANGED job \/ job'[Match] = ClosedRow(m, "completed")
  <2>1. CASE UNCHANGED job
    BY <1>1, <2>1 DEF TypeOK
  <2>2. CASE SetRow(m, ClosedRow(m, "completed"))
    <3> DEFINE r == ClosedRow(m, "completed")
    <3>1. job' = [job EXCEPT ![Match] = r] /\ r \in Row
      BY <1>1, <2>2, ClosedRowIsRow, Vocabulary DEF SetRow, Status
    <3> HIDE DEF r
    <3>2. job' \in [Jobs -> Row] /\ job'[Match] = r
          /\ \A j \in Jobs : j # Match => job'[j] = job[j]
      BY <1>1, <3>1, MatchFacts DEF TypeOK
    <3>3. QED
      BY <3>2 DEF r
  <2>3. QED
    BY <2>1, <2>2 DEF CompleteMatchLost
<1>6. /\ run' \in [Messages -> Run] /\ Fallen(m)
      /\ \A n \in Messages : n # m => run'[n] = run[n]
  BY <1>1, <1>3, FallIsTyped
<1>7. MatchTypeInv'
  BY <1>1, <1>4, <1>5, <1>6 DEF MatchTypeInv, MatchTypeOK, TypeOK, ExpectsChild
<1>8. CompletionMoves(m)
  BY <1>1, <1>4, <1>5, <1>6 DEF CompletionMoves
<1>9. QED
  BY <1>1, <1>2, <1>4, <1>6, <1>7, <1>8 DEF MatchMoves

\* A call for a child that goes on.
LEMMA ChildGoesOn ==
    ASSUME MatchTypeInv, NEW m \in MatchMessages, NEW c \in Children,
           run[m].phase = "working", run[m].seen = "RESULT_READY",
           dispatch[m][c].step # "done",
           UNCHANGED <<run, runLeft, envelopes, faults>>,
           job' \in [Jobs -> Row], msg' \in [Messages -> Message],
           dispatch' \in [Messages -> [Children -> [step : Step, expected : Status]]],
           ExpectsChild', \A n \in Messages : n # m => dispatch'[n] = dispatch[n],
           ChildRow(m, c), Advances(m, c)
    PROVE  MatchTypeInv' /\ MatchMoves(m)
<1>1. MatchTypeInv'
  BY DEF MatchTypeInv, MatchTypeOK, TypeOK
<1>2. ChildMoves(m, c)
  BY DEF ChildMoves
<1>3. QED
  BY <1>1, <1>2 DEF MatchMoves

\* A call for a child that ends the run.
LEMMA ChildStops ==
    ASSUME MatchTypeInv, NEW m \in MatchMessages, NEW c \in Children,
           run[m].phase = "working", run[m].seen = "RESULT_READY",
           dispatch[m][c].step # "done",
           NEW error \in Errors, FailWith(m, error),
           UNCHANGED <<runLeft, envelopes, dispatch>>,
           job' \in [Jobs -> Row], msg' \in [Messages -> Message], faults' \in 0..MaxFaults,
           ChildRow(m, c),
           \/ /\ faults' = faults + 1
              /\ UNCHANGED msg \/ (dispatch[m][c].step = "send" /\ Sending(c))
           \/ /\ faults' = faults /\ UNCHANGED <<job, msg>>
              /\ \/ ~retryable(error)
                 \/ dispatch[m][c].step = "read" /\ job[c].status \in FailedStatus
    PROVE  MatchTypeInv' /\ MatchMoves(m)
<1>1. TypeOK /\ m \in Messages
  BY MatchFacts DEF MatchTypeInv, MatchTypeOK
<1>2. /\ run' \in [Messages -> Run] /\ Fallen(m) /\ run'[m].error = error
      /\ \A n \in Messages : n # m => run'[n] = run[n]
  BY <1>1, FallIsTyped
<1>3. MatchTypeInv'
  BY <1>2 DEF MatchTypeInv, MatchTypeOK, TypeOK, ExpectsChild
<1>4. Stops(m, c)
  BY <1>2 DEF Stops
<1>5. QED
  BY <1>2, <1>3, <1>4 DEF MatchMoves, ChildMoves

LEMMA StepsAre ==
    Step = {"read", "pend", "pendRaced", "send", "mark", "markRaced", "done"}
  BY DEF Step

\* The calls of dispatch_child_job.
LEMMA ReadOrRacedStep ==
    ASSUME MatchTypeInv, NEW m \in Messages, NEW c \in Children,
           ReadChild(m, c) \/ PendChildAgain(m, c) \/ MarkChildAgain(m, c)
    PROVE  MatchTypeInv' /\ MatchMoves(m) /\ m \in MatchMessages
<1>1. /\ TypeOK /\ UNCHANGED <<job, msg, runLeft, envelopes, faults>>
      /\ run[m].phase = "working" /\ run[m].seen = "RESULT_READY" /\ JobOf[m] = Match
      /\ dispatch[m][c].step \in {"read", "pendRaced", "markRaced"}
  BY DEF MatchTypeInv, MatchTypeOK, ReadChild, PendChildAgain, MarkChildAgain, Dispatching
<1>2. m \in MatchMessages
  BY <1>1 DEF MatchMessages, MessagesOf
<1>3. /\ job' \in [Jobs -> Row] /\ msg' \in [Messages -> Message] /\ ChildRow(m, c)
      /\ faults' \in 0..MaxFaults
  BY <1>1 DEF TypeOK, ChildRow
<1>4. CASE UNCHANGED run /\ StepTo(m, c, "done") /\ job[c].status \in Absorbed
  <2>1. Advances(m, c)
    BY <1>1, <1>4, StepToIsTyped, StepsAre DEF Advances
  <2>2. QED
    BY <1>1, <1>2, <1>3, <1>4, <2>1, StepToIsTyped, StepsAre, ChildGoesOn
<1>5. CASE UNCHANGED run /\ StepTo(m, c, "send") /\ dispatch[m][c].step = "pendRaced"
  <2>1. Advances(m, c)
    BY <1>1, <1>5, StepToIsTyped, StepsAre DEF Advances
  <2>2. QED
    BY <1>1, <1>2, <1>3, <1>5, <2>1, StepToIsTyped, StepsAre, ChildGoesOn
<1>6. ASSUME UNCHANGED run, dispatch[m][c].step = "read",
             NEW r \in [step : {"pend", "send"}, expected : ChildStatus],
             dispatch' = [dispatch EXCEPT ![m][c] = r]
      PROVE  MatchTypeInv' /\ MatchMoves(m)
  <2>1. r \in [step : Step, expected : ChildStatus] /\ r.step \in {"pend", "send"}
    BY StepsAre
  <2>2. /\ dispatch' \in [Messages -> [Children -> [step : Step, expected : Status]]]
        /\ ExpectsChild' /\ dispatch'[m][c] = r
        /\ \A n \in Messages : n # m => dispatch'[n] = dispatch[n]
        /\ \A d \in Children : d # c => dispatch'[m][d] = dispatch[m][d]
    BY <1>6, <2>1, StepIsTyped
  <2>3. Advances(m, c)
    BY <1>1, <1>6, <2>1, <2>2 DEF Advances
  <2>4. QED
    BY <1>1, <1>2, <1>3, <1>6, <2>2, <2>3, ChildGoesOn
<1>7. ASSUME NEW error \in Errors, FailWith(m, error), UNCHANGED dispatch,
             \/ ~retryable(error)
             \/ dispatch[m][c].step = "read" /\ job[c].status \in FailedStatus
      PROVE  MatchTypeInv' /\ MatchMoves(m)
  BY <1>1, <1>2, <1>3, <1>7, ChildStops
<1>8. CASE ReadChild(m, c)
  <2> DEFINE status == job[c].status
             r == [step |-> IF status = "QUEUED_PENDING_DISPATCH" THEN "send" ELSE "pend",
                   expected |-> status]
  <2>1. dispatch[m][c].step = "read"
    BY <1>8 DEF ReadChild, Dispatching
  <2>2. CASE status \in ChildStatus /\ dispatch' = [dispatch EXCEPT ![m][c] = r] /\ UNCHANGED run
    <3>1. r \in [step : {"pend", "send"}, expected : ChildStatus]
      BY <2>2
    <3> HIDE DEF r
    <3>2. QED
      BY <1>2, <1>6, <2>1, <2>2, <3>1
  <2>3. CASE status \in FailedStatus /\ FailWith(m, "server") /\ UNCHANGED dispatch
    BY <1>2, <1>7, <2>1, <2>3, ErrorsAre
  <2>4. CASE FailWith(m, "badInput") /\ UNCHANGED dispatch
    BY <1>2, <1>7, <2>4, ErrorsAre, RetryableErrors
  <2>5. CASE status \in Absorbed /\ StepTo(m, c, "done") /\ UNCHANGED run
    BY <1>2, <1>4, <2>5
  <2>6. QED
    BY <1>8, <2>2, <2>3, <2>4, <2>5 DEF ReadChild, ChildStatus
<1>9. CASE PendChildAgain(m, c)
  <2>1. dispatch[m][c].step = "pendRaced"
    BY <1>9 DEF PendChildAgain, Dispatching
  <2>2. \/ UNCHANGED run /\ StepTo(m, c, "done") /\ job[c].status \in Absorbed
        \/ UNCHANGED run /\ StepTo(m, c, "send")
        \/ FailWith(m, "client") /\ UNCHANGED dispatch
    BY <1>9 DEF PendChildAgain
  <2>3. QED
    BY <1>2, <1>4, <1>5, <1>7, <2>1, <2>2, ErrorsAre, RetryableErrors
<1>10. CASE MarkChildAgain(m, c)
  <2>1. \/ UNCHANGED run /\ StepTo(m, c, "done") /\ job[c].status \in Absorbed
        \/ FailWith(m, "client") /\ UNCHANGED dispatch
    BY <1>10 DEF MarkChildAgain
  <2>2. QED
    BY <1>2, <1>4, <1>7, <2>1, ErrorsAre, RetryableErrors
<1>11. QED
  BY <1>2, <1>8, <1>9, <1>10

LEMMA WriteOrSendStep ==
    ASSUME MatchTypeInv, NEW m \in Messages, NEW c \in Children,
           PendChild(m, c) \/ SendChild(m, c) \/ MarkChild(m, c)
    PROVE  MatchTypeInv' /\ MatchMoves(m) /\ m \in MatchMessages
<1>1. /\ TypeOK /\ UNCHANGED <<run, runLeft, envelopes, faults>>
      /\ run[m].phase = "working" /\ run[m].seen = "RESULT_READY" /\ JobOf[m] = Match
      /\ dispatch[m][c].step \in {"pend", "send", "mark"}
  BY DEF MatchTypeInv, MatchTypeOK, PendChild, SendChild, MarkChild, Dispatching
<1>2. m \in MatchMessages
  BY <1>1 DEF MatchMessages, MessagesOf
<1>3. {"QUEUED_PENDING_DISPATCH", "processing"} \subseteq Status
  BY Vocabulary DEF Status
<1>4. CASE PendChild(m, c)
  <2>1. dispatch[m][c].step = "pend" /\ UNCHANGED msg /\ msg' \in [Messages -> Message]
    BY <1>1, <1>4 DEF PendChild, Dispatching, TypeOK
  <2>2. CASE /\ job[c].status = dispatch[m][c].expected
             /\ SetChild(c, "QUEUED_PENDING_DISPATCH") /\ StepTo(m, c, "send")
    <3>1. job' \in [Jobs -> Row] /\ ChildRow(m, c)
      BY <1>1, <1>3, <2>1, <2>2, SetChildIsTyped DEF ChildRow
    <3>2. Advances(m, c)
      BY <1>1, <2>1, <2>2, StepToIsTyped, StepsAre DEF Advances
    <3>3. QED
      BY <1>1, <1>2, <2>1, <2>2, <3>1, <3>2, StepToIsTyped, StepsAre, ChildGoesOn
  <2>3. CASE UNCHANGED job /\ StepTo(m, c, "pendRaced")
    <3>1. job' \in [Jobs -> Row] /\ ChildRow(m, c)
      BY <1>1, <2>3 DEF ChildRow, TypeOK
    <3>2. Advances(m, c)
      BY <1>1, <2>1, <2>3, StepToIsTyped, StepsAre DEF Advances
    <3>3. QED
      BY <1>1, <1>2, <2>1, <2>3, <3>1, <3>2, StepToIsTyped, StepsAre, ChildGoesOn
  <2>4. QED
    BY <1>2, <1>4, <2>2, <2>3 DEF PendChild
<1>5. CASE SendChild(m, c)
  <2>1. dispatch[m][c].step = "send" /\ UNCHANGED job /\ StepTo(m, c, "mark")
    BY <1>5 DEF SendChild, Dispatching
  <2>2. msg' \in [Messages -> Message] /\ Sending(c)
    BY <1>1, <1>5, SendIsTyped DEF SendChild
  <2>3. job' \in [Jobs -> Row] /\ ChildRow(m, c)
    BY <1>1, <2>1 DEF ChildRow, TypeOK
  <2>4. Advances(m, c)
    BY <1>1, <2>1, <2>2, StepToIsTyped, StepsAre DEF Advances
  <2>5. QED
    BY <1>1, <1>2, <2>1, <2>2, <2>3, <2>4, StepToIsTyped, StepsAre, ChildGoesOn
<1>6. CASE MarkChild(m, c)
  <2>1. dispatch[m][c].step = "mark" /\ UNCHANGED msg /\ msg' \in [Messages -> Message]
    BY <1>1, <1>6 DEF MarkChild, Dispatching, TypeOK
  <2>2. CASE /\ job[c].status = "QUEUED_PENDING_DISPATCH"
             /\ SetChild(c, "processing") /\ StepTo(m, c, "done")
    <3>1. job' \in [Jobs -> Row] /\ ChildRow(m, c) /\ job'[c].status = "processing"
      BY <1>1, <1>3, <2>1, <2>2, SetChildIsTyped DEF ChildRow
    <3>2. Advances(m, c)
      BY <1>1, <2>1, <2>2, <3>1, StepToIsTyped, StepsAre DEF Advances, Absorbed
    <3>3. QED
      BY <1>1, <1>2, <2>1, <2>2, <3>1, <3>2, StepToIsTyped, StepsAre, ChildGoesOn
  <2>3. CASE UNCHANGED job /\ StepTo(m, c, "markRaced")
    <3>1. job' \in [Jobs -> Row] /\ ChildRow(m, c)
      BY <1>1, <2>3 DEF ChildRow, TypeOK
    <3>2. Advances(m, c)
      BY <1>1, <2>1, <2>3, StepToIsTyped, StepsAre DEF Advances
    <3>3. QED
      BY <1>1, <1>2, <2>1, <2>3, <3>1, <3>2, StepToIsTyped, StepsAre, ChildGoesOn
  <2>4. QED
    BY <1>2, <1>6, <2>2, <2>3 DEF MarkChild
<1>7. QED
  BY <1>4, <1>5, <1>6

\* A call of the dispatch that raises, applied or not.
LEMMA LostStep ==
    ASSUME MatchTypeInv, NEW m \in Messages, NEW c \in Children, DispatchLost(m, c)
    PROVE  MatchTypeInv' /\ MatchMoves(m) /\ m \in MatchMessages
<1>1. /\ TypeOK /\ UNCHANGED <<runLeft, envelopes, dispatch>>
      /\ run[m].phase = "working" /\ run[m].seen = "RESULT_READY" /\ JobOf[m] = Match
      /\ dispatch[m][c].step # "done"
  BY DEF MatchTypeInv, MatchTypeOK, DispatchLost, Dispatching
<1>2. m \in MatchMessages
  BY <1>1 DEF MatchMessages, MessagesOf
<1>3. PICK error \in Errors : FailWith(m, error)
  BY ErrorsAre DEF DispatchLost
<1>4. faults' \in 0..MaxFaults /\ faults' = faults + 1
  BY <1>1, FaultIsTyped DEF DispatchLost
<1>5. {"QUEUED_PENDING_DISPATCH", "processing"} \subseteq Status
  BY Vocabulary DEF Status
<1>6. /\ job' \in [Jobs -> Row] /\ msg' \in [Messages -> Message] /\ ChildRow(m, c)
      /\ UNCHANGED msg \/ (dispatch[m][c].step = "send" /\ Sending(c))
  <2>1. CASE UNCHANGED <<job, msg>>
    BY <1>1, <2>1 DEF TypeOK, ChildRow
  <2>2. CASE /\ dispatch[m][c].step = "send" /\ UNCHANGED job
             /\ \E n \in MessagesOf(c) :
                   /\ msg[n].state = "unsent"
                   /\ msg' = [msg EXCEPT ![n].state = "queued"]
    <3>1. msg' \in [Messages -> Message] /\ Sending(c)
      BY <1>1, <2>2, SendIsTyped
    <3>2. QED
      BY <1>1, <2>2, <3>1 DEF TypeOK, ChildRow
  <2>3. CASE /\ dispatch[m][c].step = "pend" /\ job[c].status = dispatch[m][c].expected
             /\ SetChild(c, "QUEUED_PENDING_DISPATCH") /\ UNCHANGED msg
    BY <1>1, <1>5, <2>3, SetChildIsTyped DEF TypeOK, ChildRow
  <2>4. CASE /\ dispatch[m][c].step = "mark" /\ job[c].status = "QUEUED_PENDING_DISPATCH"
             /\ SetChild(c, "processing") /\ UNCHANGED msg
    BY <1>1, <1>5, <2>4, SetChildIsTyped DEF TypeOK, ChildRow
  <2>5. QED
    BY <2>1, <2>2, <2>3, <2>4 DEF DispatchLost
<1>7. QED
  BY <1>1, <1>2, <1>3, <1>4, <1>6, ChildStops

LEMMA MatchCalls ==
    ASSUME MatchTypeInv, NEW m \in Messages, MatchStep(m) \/ MatchFault(m)
    PROVE  MatchTypeInv' /\ MatchMoves(m) /\ m \in MatchMessages
  BY StoreStep, CompletionStep, CompletionLostStep, ReadOrRacedStep, WriteOrSendStep, LostStep
  DEF MatchStep, MatchFault, DispatchStep

-----------------------------------------------------------------------------
(* The steps of the system, and its types.                                   *)

\* A run begins, ends, or does what the runs of every workflow do.
PlainMoves(m) ==
    /\ MessageMoves(m)
    /\ dispatch'[m] = NotDispatched
    /\ \A n \in Messages : n # m => dispatch'[n] = dispatch[n]
    /\ msg[m].state # "unsent"

EnqueueMoves(m) == MessageMoves(m) /\ Arrives(m) /\ UNCHANGED dispatch

DeleteMoves(j) == RowMoves(j) /\ job'[j].status = "deleted" /\ UNCHANGED dispatch

LEMMA NotDispatchedIsTyped ==
    /\ NotDispatched \in [Children -> [step : Step, expected : Status]]
    /\ \A c \in Children : NotDispatched[c].expected \in ChildStatus
                           /\ NotDispatched[c].step = "read"
  BY Vocabulary DEF NotDispatched, Step, Status, ChildStatus

\* The dispatch goes with the run: every other run keeps it.
LEMMA DispatchIsTyped ==
    ASSUME MatchTypeInv, TypeOK',
           \/ UNCHANGED dispatch
           \/ \E m \in Messages : dispatch' = [dispatch EXCEPT ![m] = NotDispatched]
    PROVE  MatchTypeInv'
<1>1. CASE UNCHANGED dispatch
  BY <1>1 DEF MatchTypeInv, MatchTypeOK, ExpectsChild
<1>2. CASE \E m \in Messages : dispatch' = [dispatch EXCEPT ![m] = NotDispatched]
  <2> DEFINE D == [Children -> [step : Step, expected : Status]]
  <2>1. PICK m \in Messages : dispatch' = [dispatch EXCEPT ![m] = NotDispatched]
    BY <1>2
  <2>2. dispatch \in [Messages -> D] /\ NotDispatched \in D
    BY NotDispatchedIsTyped DEF MatchTypeInv, MatchTypeOK
  <2>3. /\ dispatch' \in [Messages -> D] /\ dispatch'[m] = NotDispatched
        /\ \A n \in Messages : n # m => dispatch'[n] = dispatch[n]
    BY <2>1, <2>2
  <2>4. ExpectsChild'
    BY <2>3, NotDispatchedIsTyped DEF MatchTypeInv, ExpectsChild
  <2>5. QED
    BY <2>3, <2>4 DEF MatchTypeInv, MatchTypeOK
<1>3. QED
  BY <1>1, <1>2

LEMMA PlainStepMoves ==
    ASSUME MatchTypeInv, ReadInv, NEW m \in Messages, PlainStep(m)
    PROVE  PlainMoves(m)
<1>1. TypeOK /\ MessageMoves(m)
  BY MessageStep DEF MatchTypeInv, MatchTypeOK, PlainStep
<1>2. dispatch' = [dispatch EXCEPT ![m] = NotDispatched]
  BY DEF PlainStep
<1>3. dispatch'[m] = NotDispatched /\ \A n \in Messages : n # m => dispatch'[n] = dispatch[n]
  BY <1>2 DEF MatchTypeInv, MatchTypeOK
<1>4. msg[m].state # "unsent"
  <2>1. run[m].phase # "idle" \/ msg[m].state = "queued"
    BY DEF PlainStep, QueueStep, Receive, Redrive, Visible, RunStep, RunFault, Read, Claim,
           ClaimRefused, ReadAgain, Complete, AttemptFails, MarkFailed, MarkFailedRefused,
           Announce, MarkPublished, Return, Crash, ClaimLost, CompleteLost, MarkFailedLost,
           AnnounceLost, MarkPublishedLost, StoresResult, CallsProvider
  <2>2. QED
    BY <2>1 DEF ReadInv, RunsAreQueued
<1>5. QED
  BY <1>1, <1>3, <1>4 DEF PlainMoves

\* Outside the calls of process_job_match the steps are Worker's.
LEMMA WorkerSteps ==
    ASSUME [MatchNext]_matchVars
    PROVE  \/ \E m \in Messages : MatchStep(m) \/ MatchFault(m)
           \/ /\ [Next]_vars
              /\ \/ UNCHANGED dispatch
                 \/ \E m \in Messages : dispatch' = [dispatch EXCEPT ![m] = NotDispatched]
<1>1. ASSUME NEW m \in Messages, PlainStep(m)
      PROVE  Next /\ dispatch' = [dispatch EXCEPT ![m] = NotDispatched]
  BY <1>1 DEF PlainStep, Next
<1>2. ASSUME NEW m \in MessagesOf(Match), Enqueue(m) PROVE Next
  BY <1>2 DEF Next, MessagesOf
<1>3. ASSUME NEW j \in Jobs, Delete(j) PROVE Next
  BY <1>3 DEF Next
<1>4. Tick => Next
  BY DEF Next
<1>5. UNCHANGED matchVars => UNCHANGED vars /\ UNCHANGED dispatch
  BY DEF matchVars, vars
<1>6. QED
  BY <1>1, <1>2, <1>3, <1>4, <1>5 DEF MatchNext

LEMMA TypesStep ==
    ASSUME MatchTypeInv, [MatchNext]_matchVars
    PROVE  MatchTypeInv'
<1>1. ASSUME [Next]_vars PROVE TypeOK'
  <2>1. TypeOK
    BY DEF MatchTypeInv, MatchTypeOK
  <2>2. CASE Next
    BY <2>1, <2>2, MessageStep, ClockStep, OutsideStep DEF Next
  <2>3. CASE UNCHANGED vars
    BY <2>1, <2>3 DEF TypeOK, vars
  <2>4. QED
    BY <1>1, <2>2, <2>3
<1>2. QED
  BY <1>1, WorkerSteps, MatchCalls, DispatchIsTyped

LEMMA EveryMatchStepMoves ==
    ASSUME MatchTypeInv, ReadInv, [MatchNext]_matchVars
    PROVE  \/ \E m \in Messages : PlainMoves(m)
           \/ \E m \in MatchMessages : MatchMoves(m) \/ EnqueueMoves(m)
           \/ \E j \in Jobs : DeleteMoves(j)
           \/ TickMoves /\ UNCHANGED dispatch
           \/ UNCHANGED matchVars
<1>1. TypeOK
  BY DEF MatchTypeInv, MatchTypeOK
<1>2. ASSUME NEW m \in MessagesOf(Match), Enqueue(m), UNCHANGED dispatch
      PROVE  m \in MatchMessages /\ EnqueueMoves(m)
  <2>1. m \in Messages /\ m \in MatchMessages
    BY DEF MessagesOf, MatchMessages
  <2>2. MessageMoves(m)
    BY <1>1, <1>2, <2>1, MessageStep
  <2>3. UNCHANGED <<job, run, runLeft, envelopes, faults>> /\ msg[m].state = "unsent"
    BY <1>2 DEF Enqueue
  <2>4. msg'[m].state = "queued" /\ msg'[m].hidden = msg[m].hidden
    BY <1>1, <1>2, <2>1 DEF Enqueue, TypeOK, Message
  <2>5. QED
    BY <1>2, <2>1, <2>2, <2>3, <2>4 DEF EnqueueMoves, Arrives, Rests
<1>3. ASSUME NEW j \in Jobs, Delete(j), UNCHANGED dispatch PROVE DeleteMoves(j)
  <2>1. RowMoves(j)
    BY <1>1, <1>3, OutsideStep
  <2>2. job'[j].status = "deleted"
    BY <1>1, <1>3 DEF Delete, TypeOK, Row
  <2>3. QED
    BY <1>3, <2>1, <2>2 DEF DeleteMoves
<1>4. QED
  BY <1>1, <1>2, <1>3, PlainStepMoves, MatchCalls, ClockStep DEF MatchNext

\* What the calls of process_job_match write changes the version of the row.
LEMMA MatchRowsAdvance ==
    ASSUME MatchTypeInv, NEW m \in MatchMessages, MatchMoves(m), NEW j \in Jobs
    PROVE  RowAdvances(j)
<1>1. /\ job[j].version \in Nat /\ job[j].leaseIn \in Nat
      /\ job[Match] \in Row /\ RowOf(m) = job[Match]
  BY RowFields, MatchFacts DEF MatchTypeInv, MatchTypeOK, TypeOK
<1>2. \/ job'[j] = job[j]
      \/ j = Match /\ \E s : job'[j] = ClosedRow(m, s)
      \/ job'[j].version = job[j].version + 1
  BY DEF MatchMoves, StoreMoves, CompletionMoves, ChildMoves, ChildRow
<1>3. CASE job'[j] = job[j]
  BY <1>1, <1>3 DEF RowAdvances
<1>4. CASE j = Match /\ \E s : job'[j] = ClosedRow(m, s)
  BY <1>1, <1>4 DEF RowAdvances, ClosedRow, Row
<1>5. CASE job'[j].version = job[j].version + 1
  BY <1>5 DEF RowAdvances
<1>6. QED
  BY <1>2, <1>3, <1>4, <1>5

LEMMA MatchReadStep ==
    ASSUME MatchTypeInv, MatchTypeInv', ReadInv, NEW m \in MatchMessages, MatchMoves(m)
    PROVE  ReadInv'
<1>1. TypeOK /\ TypeOK' /\ m \in Messages
  BY MatchFacts DEF MatchTypeInv, MatchTypeOK
<1>2. /\ run[m].phase = "working" /\ run'[m].phase # "claiming"
      /\ \A n \in Messages : n # m => run'[n] = run[n]
  BY DEF MatchMoves, StoreMoves, CompletionMoves, ChildMoves, Advances, Stops, Fallen
<1>3. \A n \in Messages : msg[n].state = "queued" => msg'[n].state = "queued"
  BY DEF MatchMoves, StoreMoves, CompletionMoves, ChildMoves, Advances, Stops, Sending
<1>4. RunsAreQueued'
  BY <1>2, <1>3 DEF ReadInv, RunsAreQueued
<1>5. ASSUME NEW n \in Messages, run'[n].phase = "claiming"
      PROVE  /\ run'[n].seen \in claimable_statuses(JobType[JobOf[n]])
                                    \cup {"WORKER_PROCESSING"}
             /\ run'[n].version <= RowOf(n)'.version
             /\ ClaimCondition(n)' /\ RowOf(n)'.status = "WORKER_PROCESSING"
                   => RowOf(n)'.leaseIn = 0
  <2>1. n # m /\ run'[n] = run[n]
    BY <1>2, <1>5
  <2>2. RowAdvances(JobOf[n])
    BY <1>1, MatchRowsAdvance, RowTyped
  <2>3. QED
    BY <1>1, <1>5, <2>1, <2>2, ClaimStaysAllowed DEF ReadInv, ClaimsAreAllowed
<1>6. ClaimsAreAllowed'
  BY <1>5 DEF ClaimsAreAllowed
<1>7. QED
  BY <1>4, <1>6 DEF ReadInv

LEMMA TypesAreKept == MatchSpec => [](MatchTypeInv /\ ReadInv)
<1>1. MatchInit => MatchTypeInv /\ ReadInv
  <2> SUFFICES ASSUME MatchInit PROVE MatchTypeInv /\ ReadInv
    OBVIOUS
  <2>1. TypeOK /\ ReadInv
    BY InitIsTyped, InitReads DEF MatchInit
  <2>2. dispatch = [m \in Messages |-> NotDispatched]
    BY DEF MatchInit
  <2>3. QED
    BY <2>1, <2>2, NotDispatchedIsTyped DEF MatchTypeInv, MatchTypeOK, ExpectsChild
<1>2. MatchTypeInv /\ ReadInv /\ [MatchNext]_matchVars => MatchTypeInv' /\ ReadInv'
  <2> SUFFICES ASSUME MatchTypeInv, ReadInv, [MatchNext]_matchVars
               PROVE  MatchTypeInv' /\ ReadInv'
    OBVIOUS
  <2>1. MatchTypeInv'
    BY TypesStep
  <2>2. TypeOK /\ TypeOK'
    BY <2>1 DEF MatchTypeInv, MatchTypeOK
  <2>3. CASE \E m \in Messages : MatchStep(m) \/ MatchFault(m)
    BY <2>1, <2>3, MatchCalls, MatchReadStep
  <2>4. CASE [Next]_vars
    BY <2>1, <2>2, <2>4, ReadStep
  <2>5. QED
    BY <2>1, <2>3, <2>4, WorkerSteps
<1>3. QED
  BY <1>1, <1>2, PTL DEF MatchSpec

\* What a run of the match writes to the status of a row.
LEMMA MatchWritesStatus ==
    ASSUME MatchTypeInv, NEW m \in MatchMessages, MatchMoves(m), NEW j \in Jobs,
           job'[j].status # job[j].status
    PROVE  \/ can_transition(job[j].status, job'[j].status)
           \/ j \in Children /\ <<job[j].status, job'[j].status>> \in ParentWrites
<1>1. /\ RowOf(m) = job[Match] /\ RowOf(m) \in Row
      /\ Match \notin Children /\ Children \subseteq Jobs
  BY MatchFacts DEF MatchTypeInv, MatchTypeOK, TypeOK
<1>2. CASE StoreMoves(m) \/ CompletionMoves(m)
  <2>1. j = Match /\ OwnsAttempt(m)
        /\ \E s \in {"RESULT_READY", "completed"} : job'[Match] = ClosedRow(m, s)
    BY <1>2 DEF StoreMoves, CompletionMoves
  <2>2. /\ job[j].status = "WORKER_PROCESSING"
        /\ job'[j].status \in {"RESULT_READY", "completed"}
    BY <1>1, <2>1 DEF OwnsAttempt, ClosedRow, Row
  <2>3. QED
    BY <2>2, HandoversInMatrix
<1>3. CASE \E c \in Children : ChildMoves(m, c)
  <2>1. PICK c \in Children : ChildMoves(m, c)
    BY <1>3
  <2>2. j = c
    BY <2>1 DEF ChildMoves, ChildRow
  <2>3. \/ /\ job[c].status \in ChildStatus
           /\ job'[c].status = "QUEUED_PENDING_DISPATCH"
        \/ /\ job[c].status = "QUEUED_PENDING_DISPATCH"
           /\ job'[c].status = "processing"
    BY <2>1, <2>2, MatchFacts DEF ChildMoves, ChildRow, MatchTypeInv, ExpectsChild
  <2>4. QED
    BY <2>2, <2>3, HandoversInMatrix DEF ChildStatus, ParentWrites
<1>4. QED
  BY <1>2, <1>3 DEF MatchMoves

\* Whoever writes first, a child's worker or its parent, every status changes
\* along the matrix or by one of the parent's two writes; no timing is assumed.
THEOREM ParentsRespectWorkers == MatchSpec => ParentRespectsWorker
<1>1. MatchTypeInv /\ ReadInv /\ [MatchNext]_matchVars =>
         [\A j \in Jobs :
             job'[j].status \notin {job[j].status, "deleted"} =>
                 \/ can_transition(job[j].status, job'[j].status)
                 \/ j \in Children
                       /\ <<job[j].status, job'[j].status>> \in ParentWrites]_matchVars
  <2> SUFFICES ASSUME MatchTypeInv, ReadInv, [MatchNext]_matchVars, NEW j \in Jobs,
                      job'[j].status \notin {job[j].status, "deleted"}
               PROVE  \/ can_transition(job[j].status, job'[j].status)
                      \/ /\ j \in Children
                         /\ <<job[j].status, job'[j].status>> \in ParentWrites
    OBVIOUS
  <2>1. CASE [Next]_vars
    BY <2>1, StepFollowsMatrix DEF MatchTypeInv, MatchTypeOK
  <2>2. CASE \E m \in Messages : MatchStep(m) \/ MatchFault(m)
    BY <2>2, MatchCalls, MatchWritesStatus
  <2>3. QED
    BY <2>1, <2>2, WorkerSteps
<1>2. QED
  BY <1>1, TypesAreKept, PTL DEF MatchSpec, ParentRespectsWorker

\* The match, its children and the dispatches in progress keep their types: no
\* race puts a status outside the vocabulary into a row.
THEOREM MatchTypeCorrect == MatchSpec => []MatchTypeOK
<1>1. MatchTypeInv => MatchTypeOK
  BY DEF MatchTypeInv
<1>2. QED
  BY <1>1, TypesAreKept, PTL

-----------------------------------------------------------------------------
(* One run of the match.  Worker's OneWorker fails here: a run that has      *)
(* stored the match result fails while the next one already dispatches.  What *)
(* does hold is that attempts are not reused, that a working run owns the    *)
(* row, and that a lease outlives the run that owns it.                      *)

AttemptsDiffer ==
    \A m \in MatchMessages : Working(m) =>
        /\ run[m].attempt <= job[Match].version
        /\ \A n \in MatchMessages : Working(n) /\ n # m => run[n].attempt # run[m].attempt

WorkingRunsOwn ==
    \A m \in MatchMessages :
        run[m].phase = "working" => OwnsAttempt(m) \/ job[Match].status = "deleted"

LeasesOutlast ==
    \A m \in MatchMessages :
        Working(m) /\ OwnsAttempt(m) => job[Match].leaseIn > runLeft[m]

OneMatchRun ==
    \A m, n \in MatchMessages :
        run[m].phase = "working" /\ run[n].phase = "working" => m = n

MatchRunsInv == AttemptsDiffer /\ WorkingRunsOwn /\ LeasesOutlast /\ OneMatchRun

\* No run of the match starts to work.
RunsFollow ==
    \A n \in MatchMessages : Working(n)' =>
        /\ Working(n) /\ run'[n].attempt = run[n].attempt /\ runLeft'[n] = runLeft[n]
        /\ run'[n].phase = "working" => run[n].phase = "working"

LEMMA MatchRowTyped ==
    ASSUME MatchTypeInv
    PROVE  /\ job[Match] \in Row /\ job[Match].version \in Nat /\ job[Match].leaseIn \in Nat
           /\ \A m \in MatchMessages :
                 /\ run[m].attempt \in Nat /\ runLeft[m] \in Nat /\ runLeft[m] <= RunTimeout
                 /\ OwnsAttempt(m) <=> /\ job[Match].status = "WORKER_PROCESSING"
                                       /\ job[Match].attempt = run[m].attempt
<1>1. TypeOK /\ RunTimeout \in Nat
  BY TimeoutAssumption DEF MatchTypeInv, MatchTypeOK
<1>2. job[Match] \in Row /\ job[Match].version \in Nat /\ job[Match].leaseIn \in Nat
  BY <1>1, RowFields, MatchFacts DEF TypeOK
<1>3. \A m \in MatchMessages :
         run[m].attempt \in Nat /\ runLeft[m] \in Nat /\ runLeft[m] <= RunTimeout
  BY <1>1, MatchFacts DEF TypeOK, Run
<1>4. QED
  BY <1>2, <1>3, MatchFacts DEF OwnsAttempt

LEMMA PrimedOwner ==
    ASSUME MatchTypeInv' PROVE
    \A m \in MatchMessages : OwnsAttempt(m)' <=>
        job'[Match].status = "WORKER_PROCESSING" /\ job'[Match].attempt = run'[m].attempt
  BY MatchFacts DEF OwnsAttempt, RowOf

LEMMA FollowingAttempts ==
    ASSUME MatchTypeInv, AttemptsDiffer, RunsFollow,
           job'[Match].version \in {job[Match].version, job[Match].version + 1}
    PROVE  AttemptsDiffer'
<1> DEFINE v == job[Match].version
           w == job'[Match].version
<1>1. v \in Nat /\ w \in {v, v + 1}
  BY MatchRowTyped
<1> HIDE DEF v, w
<1>2. \A x \in Nat : x <= v => x <= w
  BY <1>1
<1>3. \A m \in MatchMessages : Working(m)' =>
         run'[m].attempt = run[m].attempt /\ run[m].attempt \in Nat /\ run[m].attempt <= v
  BY MatchRowTyped DEF RunsFollow, AttemptsDiffer, v
<1>4. \A m \in MatchMessages : Working(m)' => run'[m].attempt <= w
  BY <1>2, <1>3
<1>5. QED
  BY <1>4 DEF AttemptsDiffer, RunsFollow, w

\* A step that leaves the row of the match alone.
LEMMA RunsAtRest ==
    ASSUME MatchTypeInv, MatchTypeInv', MatchRunsInv, RunsFollow, job'[Match] = job[Match]
    PROVE  MatchRunsInv'
<1>1. AttemptsDiffer'
  BY FollowingAttempts DEF MatchRunsInv
<1>2. \A m \in MatchMessages : Working(m)' => (OwnsAttempt(m)' <=> OwnsAttempt(m))
  BY MatchRowTyped, PrimedOwner DEF RunsFollow
<1>3. WorkingRunsOwn'
  BY <1>2 DEF MatchRunsInv, WorkingRunsOwn, RunsFollow, Working
<1>4. LeasesOutlast'
  BY <1>2 DEF MatchRunsInv, LeasesOutlast, RunsFollow
<1>5. OneMatchRun'
  BY DEF MatchRunsInv, OneMatchRun, RunsFollow, Working
<1>6. QED
  BY <1>1, <1>3, <1>4, <1>5 DEF MatchRunsInv

\* A step after which nobody owns the row of the match.
LEMMA RunsAtClosedRow ==
    ASSUME MatchTypeInv, MatchTypeInv', MatchRunsInv, RunsFollow,
           job'[Match].version \in {job[Match].version, job[Match].version + 1},
           job'[Match].status # "WORKER_PROCESSING",
           \A m \in MatchMessages :
              run'[m].phase = "working" => job'[Match].status = "deleted"
    PROVE  MatchRunsInv'
<1>1. AttemptsDiffer'
  BY FollowingAttempts DEF MatchRunsInv
<1>2. \A m \in MatchMessages : ~OwnsAttempt(m)'
  BY PrimedOwner
<1>3. WorkingRunsOwn' /\ LeasesOutlast'
  BY <1>2 DEF WorkingRunsOwn, LeasesOutlast
<1>4. OneMatchRun'
  BY DEF MatchRunsInv, OneMatchRun, RunsFollow, Working
<1>5. QED
  BY <1>1, <1>3, <1>4 DEF MatchRunsInv

\* The owner of the row is the only run that works on it.
LEMMA OwnerWorksAlone ==
    ASSUME MatchTypeInv, MatchRunsInv, NEW m \in MatchMessages, Working(m), OwnsAttempt(m),
           NEW n \in MatchMessages, n # m
    PROVE  run[n].phase # "working" /\ (Working(n) => ~OwnsAttempt(n))
<1>1. Working(n) => ~OwnsAttempt(n)
  BY MatchRowTyped DEF MatchRunsInv, AttemptsDiffer
<1>2. job[Match].status # "deleted"
  BY MatchRowTyped
<1>3. QED
  BY <1>1, <1>2 DEF MatchRunsInv, WorkingRunsOwn, Working

\* A claim of the match finds no run that works on it or owns it.
LEMMA ClaimFindsNoRun ==
    ASSUME MatchTypeInv, ReadInv, MatchRunsInv, NEW m \in MatchMessages, Claims(m),
           NEW n \in MatchMessages, Working(n)
    PROVE  run[n].phase = "failing" /\ ~OwnsAttempt(n)
<1>1. /\ m \in Messages /\ run[m].phase = "claiming" /\ ClaimCondition(m)
      /\ RowOf(m) = job[Match] /\ JobOf[m] = Match
  BY MatchFacts DEF Claims
<1>2. job[Match].status # "deleted"
  BY <1>1, ClaimableMayBeClaimed DEF ReadInv, ClaimsAreAllowed, ClaimCondition
<1>3. job[Match].status = "WORKER_PROCESSING" => job[Match].leaseIn = 0
  BY <1>1 DEF ReadInv, ClaimsAreAllowed
<1>4. ~OwnsAttempt(n)
  BY <1>3, MatchRowTyped DEF MatchRunsInv, LeasesOutlast
<1>5. QED
  BY <1>2, <1>4 DEF MatchRunsInv, WorkingRunsOwn, Working

\* A step of one message, seen by the runs of the match.
LEMMA OneRunMoves ==
    ASSUME NEW m \in Messages,
           \A n \in Messages : n # m => run'[n] = run[n] /\ runLeft'[n] = runLeft[n],
           m \in MatchMessages /\ Working(m)' =>
              /\ Working(m) /\ run'[m].attempt = run[m].attempt /\ runLeft'[m] = runLeft[m]
              /\ run'[m].phase = "working" => run[m].phase = "working"
    PROVE  RunsFollow
  BY MatchFacts DEF RunsFollow, Working

LEMMA MatchClaimKeepsRuns ==
    ASSUME MatchTypeInv, MatchTypeInv', ReadInv, MatchRunsInv, RunTimeout < Lease,
           NEW m \in MatchMessages, Others(m), Claims(m)
    PROVE  MatchRunsInv'
<1>1. /\ m \in Messages /\ JobOf[m] = Match /\ RowOf(m) = job[Match]
      /\ job[Match] \in Row /\ job[Match].version \in Nat /\ runLeft'[m] = runLeft[m]
      /\ job'[Match] = ClaimedRow(m)
      /\ \/ run'[m].phase = "working" /\ run'[m].attempt = job[Match].version + 1
         \/ run'[m].phase = "error"
      /\ \A n \in MatchMessages : n # m => run'[n] = run[n] /\ runLeft'[n] = runLeft[n]
  BY MatchFacts, MatchRowTyped DEF Claims, Calls, Others
<1> DEFINE v == job[Match].version
           w == v + 1
<1>2. /\ job'[Match].status = "WORKER_PROCESSING" /\ job'[Match].version = w
      /\ job'[Match].attempt = w /\ job'[Match].leaseIn = Lease
  BY <1>1 DEF ClaimedRow, Row
<1>3. w \in Nat /\ w <= w /\ \A x \in Nat : x <= v => x <= w /\ x # w
  BY <1>1
<1>4. run'[m].phase = "working" => run'[m].attempt = w
  BY <1>1
<1> HIDE DEF v, w
<1>5. ASSUME NEW n \in MatchMessages, n # m, Working(n)'
      PROVE  /\ Working(n) /\ run'[n] = run[n] /\ run[n].phase = "failing"
             /\ run'[n].attempt <= w /\ run'[n].attempt # w
  <2>1. Working(n) /\ run'[n] = run[n]
    BY <1>1, <1>5 DEF Working
  <2>2. run[n].attempt \in Nat /\ run[n].attempt <= v
    BY <2>1, MatchRowTyped DEF MatchRunsInv, AttemptsDiffer, v
  <2>3. run[n].phase = "failing"
    BY <2>1, ClaimFindsNoRun
  <2>4. QED
    BY <1>3, <2>1, <2>2, <2>3
<1>6. Working(m)' => run'[m].phase = "working" /\ run'[m].attempt = w
  BY <1>1, <1>4 DEF Working
<1>7. AttemptsDiffer'
  <2>1. \A n \in MatchMessages : Working(n)' => run'[n].attempt <= job'[Match].version
    BY <1>2, <1>3, <1>5, <1>6
  <2>2. ASSUME NEW n \in MatchMessages, NEW k \in MatchMessages, Working(n)', Working(k)', n # k
        PROVE  run'[n].attempt # run'[k].attempt
    <3>1. CASE n = m \/ k = m
      BY <1>5, <1>6, <2>2, <3>1
    <3>2. CASE n # m /\ k # m
      BY <1>5, <2>2, <3>2 DEF MatchRunsInv, AttemptsDiffer
    <3>3. QED
      BY <3>1, <3>2
  <2>3. QED
    BY <2>1, <2>2 DEF AttemptsDiffer
<1>8. \A n \in MatchMessages : OwnsAttempt(n)' <=> run'[n].attempt = w
  BY <1>2, PrimedOwner
<1>9. WorkingRunsOwn' /\ OneMatchRun'
  <2>1. \A n \in MatchMessages : run'[n].phase = "working" => n = m
    BY <1>5 DEF Working
  <2>2. QED
    BY <1>4, <1>8, <2>1 DEF WorkingRunsOwn, OneMatchRun
<1>10. LeasesOutlast'
  <2>1. \A n \in MatchMessages : Working(n)' /\ OwnsAttempt(n)' => n = m
    BY <1>5, <1>8
  <2>2. runLeft'[m] \in Nat /\ runLeft'[m] <= RunTimeout /\ RunTimeout \in Nat /\ Lease \in Nat
    BY <1>1, MatchRowTyped, TimeoutAssumption
  <2>3. \A x, y, z \in Nat : x <= y /\ y < z => z > x
    OBVIOUS
  <2>4. Lease > runLeft'[m]
    BY <2>2, <2>3
  <2>5. QED
    BY <1>2, <2>1, <2>4 DEF LeasesOutlast
<1>11. QED
  BY <1>7, <1>9, <1>10 DEF MatchRunsInv

LEMMA MessageKeepsMatchRuns ==
    ASSUME MatchTypeInv, MatchTypeInv', ReadInv, MatchRunsInv, RunTimeout < Lease,
           NEW m \in Messages, MessageMoves(m)
    PROVE  MatchRunsInv'
<1>1. /\ TypeOK /\ Others(m)
      /\ \A n \in Messages : n # m => run'[n] = run[n] /\ runLeft'[n] = runLeft[n]
  BY DEF MatchTypeInv, MatchTypeOK, MessageMoves, Others
<1>2. CASE m \notin MatchMessages
  <2>1. RunsFollow
    BY <1>1, <1>2, OneRunMoves
  <2>2. job'[Match] = job[Match]
    BY <1>1, <1>2, MatchFacts DEF Others, MatchMessages, MessagesOf
  <2>3. QED
    BY <2>1, <2>2, RunsAtRest
<1>3. CASE m \in MatchMessages
  <2>1. JobOf[m] = Match /\ RowOf(m) = job[Match] /\ job[Match] \in Row
    BY <1>3, MatchFacts, MatchRowTyped
  <2>2. CASE \/ Arrives(m) \/ IsReceived(m) \/ IsParked(m) \/ Ends(m) \/ Reads(m)
             \/ IsRefused(m) \/ ReadsAgain(m) \/ GivesUp(m)
    <3>1. Rests(m) /\ (Working(m)' => run'[m] = run[m] /\ runLeft'[m] = runLeft[m])
      BY <1>1, <2>2, MessageTyped, DispositionIsPhase
      DEF Arrives, IsReceived, IsParked, Ends, Reads, IsRefused, ReadsAgain, GivesUp,
          Working, Run
    <3>2. RunsFollow
      BY <1>1, <3>1, OneRunMoves DEF Working
    <3>3. QED
      BY <2>1, <3>1, <3>2, RunsAtRest DEF Rests
  <2>3. CASE Fails(m)
    <3>1. RunsFollow
      BY <1>1, <2>3, OneRunMoves DEF Fails, Calls, Working
    <3>2. QED
      BY <2>1, <2>3, <3>1, RunsAtRest DEF Fails, Rests
  <2>4. CASE Announces(m)
    <3>1. RunsFollow
      BY <1>1, <2>4, OneRunMoves DEF Announces, Working
    <3>2. QED
      BY <2>1, <2>4, <3>1, RunsAtRest DEF Announces
  <2>5. CASE Claims(m)
    BY <1>1, <1>3, <2>5, MatchClaimKeepsRuns
  <2>6. CASE Completes(m)
    BY <2>1, <2>6, MatchFacts DEF Completes, StoresResult
  <2>7. CASE RecordsFailure(m)
    <3>1. Working(m) /\ OwnsAttempt(m) /\ ~Working(m)' /\ job'[Match] = FailedRow(m)
      BY <2>1, <2>7 DEF RecordsFailure, Working
    <3>2. RunsFollow
      BY <1>1, <3>1, OneRunMoves
    <3>3. job'[Match].version = job[Match].version + 1
          /\ job'[Match].status \in FailedStatus \cup {"FAILED_RETRYABLE"}
      <4>1. run[m].error \in Errors /\ msg[m].receives \in Nat /\ MaxProcessingAttempts \in Nat
        BY <1>1, MessageTyped, LimitsAssumption DEF Run, Message
      <4>2. job'[Match].status =
               FailureStatus(run[m].error, msg[m].receives, MaxProcessingAttempts)
            /\ job'[Match].version = job[Match].version + 1
        BY <2>1, <3>1 DEF FailedRow, ClosedRow, Row
      <4>3. QED
        BY <4>1, <4>2, TerminalMeansFailed
    <3>4. \A n \in MatchMessages : run'[n].phase # "working"
      BY <1>1, <1>3, <3>1, MatchFacts, OwnerWorksAlone DEF Working
    <3>5. job'[Match].status # "WORKER_PROCESSING"
      BY <3>3 DEF FailedStatus
    <3>6. QED
      BY <3>2, <3>3, <3>4, <3>5, RunsAtClosedRow
  <2>8. CASE Marks(m)
    <3>1. RunsFollow
      BY <1>1, <2>8, OneRunMoves DEF Marks, Working
    <3>2. CASE job'[Match] = job[Match]
      BY <3>1, <3>2, RunsAtRest
    <3>3. CASE Unannounced(m) /\ job'[Match] = PublishedRow(m)
      <4>1. job'[Match].version = job[Match].version
            /\ job'[Match].status = job[Match].status
            /\ job[Match].status \in FailedStatus
        BY <2>1, <3>3 DEF PublishedRow, Unannounced, Row
      <4>2. \A n \in MatchMessages : run[n].phase # "working"
        BY <4>1, MatchRowTyped DEF MatchRunsInv, WorkingRunsOwn, FailedStatus
      <4>3. \A n \in MatchMessages : run'[n].phase # "working"
        BY <3>1, <4>2 DEF RunsFollow, Working
      <4>4. job'[Match].status # "WORKER_PROCESSING"
        BY <4>1 DEF FailedStatus
      <4>5. QED
        BY <3>1, <4>1, <4>3, <4>4, RunsAtClosedRow
    <3>4. QED
      BY <2>1, <2>8, <3>2, <3>3 DEF Marks
  <2>9. QED
    BY <2>2, <2>3, <2>4, <2>5, <2>6, <2>7, <2>8 DEF MessageMoves
<1>4. QED
  BY <1>2, <1>3

LEMMA MatchKeepsMatchRuns ==
    ASSUME MatchTypeInv, MatchTypeInv', MatchRunsInv, NEW m \in MatchMessages, MatchMoves(m)
    PROVE  MatchRunsInv'
<1>1. /\ m \in Messages /\ run[m].phase = "working" /\ RowOf(m) = job[Match]
      /\ job[Match] \in Row
      /\ \A n \in Messages : n # m => run'[n] = run[n]
      /\ runLeft' = runLeft
  BY MatchFacts, MatchRowTyped DEF MatchMoves
<1>2. ASSUME Fallen(m) \/ UNCHANGED run \/ ~Working(m)' PROVE RunsFollow
  BY <1>1, <1>2, OneRunMoves DEF Fallen, Working
<1>3. ASSUME NEW s \in {"RESULT_READY", "completed"}, run'[m].phase # "working", RunsFollow,
             OwnsAttempt(m), job'[Match] = ClosedRow(m, s)
      PROVE  MatchRunsInv'
  <2>1. job'[Match].status = s /\ job'[Match].version = job[Match].version + 1
    BY <1>1, <1>3 DEF ClosedRow, Row
  <2>2. \A n \in MatchMessages : run'[n].phase # "working"
    BY <1>1, <1>3, MatchFacts, OwnerWorksAlone DEF Working
  <2>3. QED
    BY <1>3, <2>1, <2>2, RunsAtClosedRow
<1>4. CASE StoreMoves(m)
  <2>1. RunsFollow /\ run'[m].phase # "working"
    BY <1>2, <1>4 DEF StoreMoves, Fallen
  <2>2. QED
    BY <1>3, <1>4, <2>1, RunsAtRest DEF StoreMoves
<1>5. CASE CompletionMoves(m)
  <2>1. RunsFollow /\ run'[m].phase # "working"
    BY <1>2, <1>5 DEF CompletionMoves, Fallen, Working
  <2>2. QED
    BY <1>3, <1>5, <2>1, RunsAtRest DEF CompletionMoves
<1>6. CASE \E c \in Children : ChildMoves(m, c)
  <2>1. PICK c \in Children : ChildMoves(m, c)
    BY <1>6
  <2>2. RunsFollow
    BY <1>2, <2>1 DEF ChildMoves, Advances, Stops
  <2>3. job'[Match] = job[Match]
    BY <2>1, MatchFacts DEF ChildMoves, ChildRow
  <2>4. QED
    BY <2>2, <2>3, RunsAtRest
<1>7. QED
  BY <1>4, <1>5, <1>6 DEF MatchMoves

\* While Lambda kills an invocation before the lease of its claim runs out, at
\* most one run of a match works at a time, and it owns the row.
LEMMA MatchRunsAreKept ==
    ASSUME RunTimeout < Lease
    PROVE  MatchSpec => []MatchRunsInv
<1>1. MatchInit => MatchRunsInv
  BY MatchFacts, IdleIsRun
  DEF MatchInit, Init, MatchRunsInv, AttemptsDiffer, WorkingRunsOwn, LeasesOutlast,
      OneMatchRun, Working, Idle
<1>2. MatchTypeInv /\ MatchTypeInv' /\ ReadInv /\ MatchRunsInv /\ [MatchNext]_matchVars
         => MatchRunsInv'
  <2> SUFFICES ASSUME MatchTypeInv, MatchTypeInv', ReadInv, MatchRunsInv,
                      [MatchNext]_matchVars
               PROVE  MatchRunsInv'
    OBVIOUS
  <2>1. ASSUME NEW j \in Jobs, DeleteMoves(j) PROVE MatchRunsInv'
    <3>1. UNCHANGED <<run, runLeft>> /\ RunsFollow
      BY <2>1, MatchFacts DEF DeleteMoves, RowMoves, RunsFollow, Working
    <3>2. CASE j # Match
      BY <2>1, <3>1, <3>2, MatchFacts, RunsAtRest DEF DeleteMoves, RowMoves
    <3>3. CASE j = Match
      BY <2>1, <3>1, <3>3, RunsAtClosedRow DEF DeleteMoves, RowMoves
    <3>4. QED
      BY <3>2, <3>3
  <2>2. ASSUME TickMoves, UNCHANGED dispatch PROVE MatchRunsInv'
    <3>1. /\ job'[Match].version = job[Match].version
          /\ job'[Match].status = job[Match].status
          /\ job'[Match].attempt = job[Match].attempt
          /\ job'[Match].leaseIn = Less(job[Match].leaseIn)
          /\ \A m \in MatchMessages :
                /\ run'[m] = run[m] /\ runLeft'[m] = Less(runLeft[m])
                /\ Working(m) => runLeft[m] > 0
      BY <2>2, MatchFacts DEF TickMoves, Working
    <3>2. \A m \in MatchMessages : OwnsAttempt(m)' <=> OwnsAttempt(m)
      BY <3>1, MatchRowTyped, PrimedOwner
    <3>3. \A m \in MatchMessages : Working(m) /\ job[Match].leaseIn > runLeft[m]
             => job'[Match].leaseIn > runLeft'[m]
      BY <3>1, MatchRowTyped, LessKeepsOrder
    <3>4. LeasesOutlast'
      BY <3>1, <3>2, <3>3 DEF MatchRunsInv, LeasesOutlast, Working
    <3>5. AttemptsDiffer' /\ WorkingRunsOwn' /\ OneMatchRun'
      BY <3>1, <3>2
      DEF MatchRunsInv, AttemptsDiffer, WorkingRunsOwn, OneMatchRun, Working
    <3>6. QED
      BY <3>4, <3>5 DEF MatchRunsInv
  <2>3. ASSUME UNCHANGED matchVars PROVE MatchRunsInv'
    <3>1. RunsFollow /\ job'[Match] = job[Match]
      BY <2>3 DEF matchVars, RunsFollow, Working
    <3>2. QED
      BY <3>1, RunsAtRest
  <2>4. QED
    BY <2>1, <2>2, <2>3, EveryMatchStepMoves, MessageKeepsMatchRuns, MatchKeepsMatchRuns,
       MatchFacts DEF PlainMoves, EnqueueMoves
<1>3. QED
  BY <1>1, <1>2, TypesAreKept, PTL DEF MatchSpec

\* Two deliveries of a match are never worked on at the same time.
THEOREM OneRunPerMatch ==
    ASSUME RunTimeout < Lease
    PROVE  MatchSpec => []OneMatchRun
<1>1. MatchRunsInv => OneMatchRun
  BY DEF MatchRunsInv
<1>2. QED
  BY <1>1, MatchRunsAreKept, PTL

-----------------------------------------------------------------------------
(* A completed match has handed its children over.  The argument follows the *)
(* dispatch: a child leaves the states before its dispatch only once its     *)
(* message was sent, a dispatch counts a child as done only when it has left *)
(* them, and no second dispatch pulls it back meanwhile.                     *)

Undispatched == {"waiting", "QUEUED_PENDING_DISPATCH"}

IsDispatching(m) == run[m].phase = "working" /\ run[m].seen = "RESULT_READY"

SentBeforeWork ==
    \A c \in Children : job[c].status \notin Undispatched \cup {"deleted"} => Sent(c) # {}

DispatchesAreTrue ==
    \A m \in MatchMessages, c \in Children : IsDispatching(m) =>
        /\ dispatch[m][c].step \in {"mark", "markRaced", "done"} => Sent(c) # {}
        /\ dispatch[m][c].step = "done" => job[c].status \notin Undispatched

HandInv == SentBeforeWork /\ DispatchesAreTrue /\ CompletedMatchHandedOver

\* What was sent stays sent.
MsgsAdvance ==
    \A n \in Messages : msg[n].state # "unsent" => msg'[n].state # "unsent"

LEMMA SentStays ==
    ASSUME MsgsAdvance, NEW c \in Children
    PROVE  Sent(c) \subseteq Sent(c)'
  BY DEF MsgsAdvance, Sent, MessagesOf

LEMMA MessageAdvances ==
    ASSUME NEW m \in Messages, MessageMoves(m)
    PROVE  MsgsAdvance
<1>1. \A n \in Messages : n # m => msg'[n] = msg[n]
  BY DEF MessageMoves, Others
<1>2. \/ Arrives(m) \/ IsReceived(m) \/ IsParked(m) \/ Ends(m) \/ Calls(m)
  BY RunsMoveInCalls DEF MessageMoves
<1>3. msg[m].state # "unsent" => msg'[m].state # "unsent"
  BY <1>2 DEF Arrives, IsReceived, IsParked, Ends, Calls
<1>4. QED
  BY <1>1, <1>3 DEF MsgsAdvance

\* A step that writes a child's status only where a message of it was sent.
LEMMA HandedStays ==
    ASSUME HandInv, MsgsAdvance,
           \A c \in Children :
              \/ job'[c].status = job[c].status
              \/ job'[c].status = "deleted"
              \/ job'[c].status \notin Undispatched /\ Sent(c)' # {},
           \A m \in MatchMessages : IsDispatching(m)' =>
              \/ \A c \in Children : dispatch'[m][c].step = "read"
              \/ IsDispatching(m) /\ dispatch'[m] = dispatch[m],
           job'[Match].status = "completed" => job[Match].status = "completed"
    PROVE  HandInv'
<1>1. \A c \in Children : Sent(c) # {} => Sent(c)' # {}
  BY SentStays
<1>2. \A c \in Children : job[c].status \notin Undispatched => job'[c].status \notin Undispatched
  BY DEF Undispatched
<1>3. SentBeforeWork'
  BY <1>1 DEF HandInv, SentBeforeWork
<1>4. DispatchesAreTrue'
  BY <1>1, <1>2 DEF HandInv, DispatchesAreTrue
<1>5. CompletedMatchHandedOver'
  BY <1>1, <1>2 DEF HandInv, CompletedMatchHandedOver, Undispatched
<1>6. QED
  BY <1>3, <1>4, <1>5 DEF HandInv

LEMMA MessageKeepsHanded ==
    ASSUME MatchTypeInv, HandInv, NEW m \in Messages,
           PlainMoves(m) \/ (m \in MatchMessages /\ EnqueueMoves(m))
    PROVE  HandInv'
<1>1. TypeOK /\ MessageMoves(m) /\ MsgsAdvance /\ JobOf[m] \in Jobs
  BY MessageAdvances, JobsAssumption
  DEF PlainMoves, EnqueueMoves, MatchTypeInv, MatchTypeOK
<1>2. ASSUME NEW j \in Jobs, job'[j].status # job[j].status
      PROVE  /\ j = JobOf[m] /\ PlainMoves(m) /\ job'[j].status \notin Undispatched
             /\ JobType[j] = "jobMatch" => job'[j].status # "completed"
  <2>1. j = JobOf[m]
    BY <1>1, <1>2 DEF MessageMoves, Others
  <2>2. ~Arrives(m)
    BY <1>2, <2>1 DEF Arrives, Rests
  <2>3. /\ job'[j].status \in {"WORKER_PROCESSING", "completed", "FAILED_RETRYABLE"}
                                  \cup FailedStatus
        /\ job'[j].status = "completed" => Completes(m)
    BY <1>1, <1>2, <2>1, StatusMoves DEF FailedStatus
  <2>4. QED
    BY <2>1, <2>2, <2>3
    DEF EnqueueMoves, Undispatched, FailedStatus, Completes, StoresResult
<1>3. ASSUME NEW c \in Children, job'[c].status # job[c].status
      PROVE  job'[c].status \notin Undispatched /\ Sent(c)' # {}
  <2>1. c = JobOf[m] /\ PlainMoves(m) /\ job'[c].status \notin Undispatched
    BY <1>2, <1>3, MatchFacts
  <2>2. m \in Sent(c)
    BY <2>1 DEF PlainMoves, Sent, MessagesOf
  <2>3. QED
    BY <1>1, <2>1, <2>2, SentStays
<1>4. ASSUME NEW n \in MatchMessages, IsDispatching(n)'
      PROVE  \/ \A c \in Children : dispatch'[n][c].step = "read"
             \/ IsDispatching(n) /\ dispatch'[n] = dispatch[n]
  <2>1. CASE PlainMoves(m) /\ n = m
    BY <2>1, NotDispatchedIsTyped DEF PlainMoves
  <2>2. CASE PlainMoves(m) /\ n # m
    BY <1>4, <2>2, MatchFacts DEF PlainMoves, MessageMoves, Others, IsDispatching
  <2>3. CASE EnqueueMoves(m)
    BY <1>4, <2>3, MatchFacts DEF EnqueueMoves, Arrives, MessageMoves, Others, IsDispatching
  <2>4. QED
    BY <2>1, <2>2, <2>3
<1>5. job'[Match].status = "completed" => job[Match].status = "completed"
  BY <1>2, MatchFacts
<1>6. QED
  BY <1>1, <1>3, <1>4, <1>5, HandedStays

LEMMA MatchMsgsAdvance ==
    ASSUME NEW m \in MatchMessages, MatchMoves(m)
    PROVE  MsgsAdvance
<1>1. UNCHANGED msg \/ \E c \in Children : Sending(c)
  BY DEF MatchMoves, StoreMoves, CompletionMoves, ChildMoves, Advances, Stops
<1>2. CASE UNCHANGED msg
  BY <1>2 DEF MsgsAdvance
<1>3. CASE \E c \in Children : Sending(c)
  BY <1>3 DEF Sending, MsgsAdvance
<1>4. QED
  BY <1>1, <1>2, <1>3

LEMMA OneDispatches ==
    ASSUME MatchRunsInv, NEW m \in MatchMessages, MatchMoves(m),
           NEW n \in MatchMessages, run'[n].phase = "working"
    PROVE  n = m
<1>1. n # m => run[n].phase = "working" /\ run[m].phase = "working"
  BY MatchFacts DEF MatchMoves
<1>2. QED
  BY <1>1 DEF MatchRunsInv, OneMatchRun

LEMMA ChildKeepsHanded ==
    ASSUME MatchTypeInv, MatchRunsInv, HandInv, NEW m \in MatchMessages, MatchMoves(m),
           NEW c \in Children, ChildMoves(m, c)
    PROVE  HandInv'
<1>1. /\ MsgsAdvance /\ run[m].phase = "working" /\ IsDispatching(m)
      /\ job'[Match] = job[Match] /\ ChildRow(m, c)
      /\ \A d \in Children : d # c => job'[d] = job[d]
  BY MatchMsgsAdvance, MatchFacts DEF MatchMoves, ChildMoves, ChildRow, IsDispatching
<1>2. \A d \in Children : Sent(d) # {} => Sent(d)' # {}
  BY <1>1, SentStays
<1>3. CompletedMatchHandedOver'
  BY <1>1, MatchRowTyped DEF MatchRunsInv, WorkingRunsOwn, CompletedMatchHandedOver
<1>4. \/ job'[c].status = job[c].status
      \/ job'[c].status = "QUEUED_PENDING_DISPATCH"
      \/ Sent(c) # {}
  BY <1>1 DEF ChildRow, HandInv, DispatchesAreTrue
<1>5. SentBeforeWork'
  BY <1>1, <1>2, <1>4 DEF HandInv, SentBeforeWork, Undispatched
<1>6. CASE Stops(m, c)
  <2>1. \A n \in MatchMessages : ~IsDispatching(n)'
    BY <1>6, OneDispatches DEF Stops, Fallen, IsDispatching
  <2>2. QED
    BY <1>3, <1>5, <2>1 DEF HandInv, DispatchesAreTrue
<1>7. CASE Advances(m, c)
  <2>1. \A n \in MatchMessages : IsDispatching(n)' => n = m
    BY OneDispatches DEF IsDispatching
  <2>2. ASSUME NEW d \in Children, d # c
        PROVE  /\ dispatch'[m][d].step \in {"mark", "markRaced", "done"} => Sent(d)' # {}
               /\ dispatch'[m][d].step = "done" => job'[d].status \notin Undispatched
    BY <1>1, <1>2, <1>7, <2>2 DEF Advances, HandInv, DispatchesAreTrue
  <2>3. dispatch'[m][c].step = "done" => job'[c].status \in Absorbed
    BY <1>7 DEF Advances
  <2>4. dispatch'[m][c].step = "done" =>
           job'[c].status \notin Undispatched /\ Sent(c)' # {}
    BY <1>5, <2>3 DEF Absorbed, Undispatched, SentBeforeWork
  <2>5. dispatch'[m][c].step \in {"mark", "markRaced"} => Sent(c)' # {}
    <3>1. Sending(c) => Sent(c)' # {}
      BY DEF Sending, Sent, MessagesOf
    <3>2. dispatch[m][c].step = "mark" => Sent(c)' # {}
      BY <1>1, <1>2 DEF HandInv, DispatchesAreTrue
    <3>3. QED
      BY <1>7, <3>1, <3>2 DEF Advances
  <2>6. DispatchesAreTrue'
    BY <2>1, <2>2, <2>4, <2>5 DEF DispatchesAreTrue
  <2>7. QED
    BY <1>3, <1>5, <2>6 DEF HandInv
<1>8. QED
  BY <1>6, <1>7 DEF ChildMoves

LEMMA MatchKeepsHanded ==
    ASSUME MatchTypeInv, MatchRunsInv, HandInv, NEW m \in MatchMessages, MatchMoves(m)
    PROVE  HandInv'
<1>1. /\ MsgsAdvance /\ run[m].phase = "working" /\ RowOf(m) = job[Match]
      /\ job[Match] \in Row
  BY MatchMsgsAdvance, MatchFacts, MatchRowTyped DEF MatchMoves
<1>2. ASSUME run'[m].phase # "working", UNCHANGED msg,
             \A c \in Children : job'[c] = job[c],
             CompletedMatchHandedOver'
      PROVE  HandInv'
  <2>1. \A n \in MatchMessages : ~IsDispatching(n)'
    BY <1>2, OneDispatches DEF IsDispatching
  <2>2. DispatchesAreTrue'
    BY <2>1 DEF DispatchesAreTrue
  <2>3. SentBeforeWork'
    BY <1>2 DEF HandInv, SentBeforeWork, Sent
  <2>4. QED
    BY <1>2, <2>2, <2>3 DEF HandInv
<1>3. CASE StoreMoves(m)
  <2>1. job'[Match].status = "completed" => job[Match].status = "completed"
    BY <1>1, <1>3 DEF StoreMoves, ClosedRow, Row
  <2>2. UNCHANGED msg /\ \A c \in Children : job'[c] = job[c]
    BY <1>3, MatchFacts DEF StoreMoves
  <2>3. CompletedMatchHandedOver'
    BY <2>1, <2>2 DEF HandInv, CompletedMatchHandedOver, Sent
  <2>4. QED
    BY <1>2, <1>3, <2>2, <2>3 DEF StoreMoves, Fallen
<1>4. CASE CompletionMoves(m)
  <2>1. UNCHANGED msg /\ \A c \in Children : job'[c] = job[c]
    BY <1>4, MatchFacts DEF CompletionMoves
  <2>2. \A c \in Children : Sent(c) # {} /\ job[c].status \notin Undispatched
    BY <1>1, <1>4 DEF CompletionMoves, HandInv, DispatchesAreTrue, IsDispatching
  <2>3. CompletedMatchHandedOver'
    BY <2>1, <2>2 DEF CompletedMatchHandedOver, Sent, Undispatched
  <2>4. run'[m].phase # "working"
    BY <1>4 DEF CompletionMoves, Fallen
  <2>5. QED
    BY <1>2, <2>1, <2>3, <2>4
<1>5. CASE \E c \in Children : ChildMoves(m, c)
  BY <1>5, ChildKeepsHanded
<1>6. QED
  BY <1>3, <1>4, <1>5 DEF MatchMoves

LEMMA HandoverIsKept ==
    ASSUME RunTimeout < Lease
    PROVE  MatchSpec => []HandInv
<1>1. MatchInit => HandInv
  <2> SUFFICES ASSUME MatchInit PROVE HandInv
    OBVIOUS
  <2>1. /\ job[Match].status = "QUEUED_PENDING_DISPATCH"
        /\ \A c \in Children : job[c].status = "waiting"
        /\ \A m \in MatchMessages : run[m].phase = "idle"
    BY MatchAssumption, MatchFacts DEF MatchInit, Init, Idle
  <2>2. QED
    BY <2>1
    DEF HandInv, SentBeforeWork, DispatchesAreTrue, CompletedMatchHandedOver, Undispatched,
        IsDispatching
<1>2. MatchTypeInv /\ ReadInv /\ MatchRunsInv /\ HandInv /\ [MatchNext]_matchVars => HandInv'
  <2> SUFFICES ASSUME MatchTypeInv, ReadInv, MatchRunsInv, HandInv, [MatchNext]_matchVars
               PROVE  HandInv'
    OBVIOUS
  <2>1. ASSUME UNCHANGED <<msg, run, dispatch>> \/ (TickMoves /\ UNCHANGED dispatch),
               \A j \in Jobs : job'[j].status \in {job[j].status, "deleted"}
        PROVE  HandInv'
    <3>1. MsgsAdvance
      BY <2>1 DEF MsgsAdvance, TickMoves
    <3>2. \A m \in MatchMessages : IsDispatching(m)' =>
             IsDispatching(m) /\ dispatch'[m] = dispatch[m]
      BY <2>1, MatchFacts DEF IsDispatching, TickMoves
    <3>3. QED
      BY <2>1, <3>1, <3>2, MatchFacts, HandedStays
  <2>2. ASSUME NEW j \in Jobs, DeleteMoves(j) PROVE HandInv'
    BY <2>1, <2>2 DEF DeleteMoves, RowMoves
  <2>3. ASSUME TickMoves, UNCHANGED dispatch PROVE HandInv'
    BY <2>1, <2>3 DEF TickMoves
  <2>4. ASSUME UNCHANGED matchVars PROVE HandInv'
    BY <2>1, <2>4 DEF matchVars
  <2>5. QED
    BY <2>2, <2>3, <2>4, EveryMatchStepMoves, MessageKeepsHanded, MatchKeepsHanded, MatchFacts
<1>3. QED
  BY <1>1, <1>2, TypesAreKept, MatchRunsAreKept, PTL DEF MatchSpec

\* A completed match has handed every child over, whatever interrupted, repeated
\* or raced its dispatch, while no run outlives the lease of its claim: then one
\* run dispatches at a time, and none pulls back what another has counted as done.
THEOREM MatchHandsOver ==
    ASSUME RunTimeout < Lease
    PROVE  MatchSpec => []CompletedMatchHandedOver
<1>1. HandInv => CompletedMatchHandedOver
  BY DEF HandInv
<1>2. QED
  BY <1>1, HandoverIsKept, PTL

-----------------------------------------------------------------------------
(* A child is sent once.  Every further message takes a fault, or a sibling  *)
(* that has failed for good; a run pays for the message it may send when it  *)
(* claims the match, and what it has sent is spent until the match ends or   *)
(* a fault pays again.                                                       *)

Blocked(c) == \E d \in Children \ {c} : job[d].status \in FailedStatus \cup {"deleted"}

MaySend(c) == Blocked(c) \/ Cardinality(Sent(c)) <= faults

Dispatched(m, c) == dispatch[m][c].step \in {"mark", "markRaced", "done"}

\* The failure that the run will record ends the match.
IsGivingUp(m) ==
    run[m].phase = "failing" /\ ~retryable(run[m].error) /\ OwnsAttempt(m)

Spends(m, c) == (IsDispatching(m) /\ Dispatched(m, c)) \/ IsGivingUp(m)

Spent(c) == \E m \in MatchMessages : Spends(m, c)

Open == job[Match].status \notin TERMINAL_STATUSES \cup {"deleted"}

DispatchesMaySend ==
    \A m \in MatchMessages, c \in Children :
        IsDispatching(m) => Dispatched(m, c) \/ MaySend(c)

OpenMaySend == \A c \in Children : Open => Spent(c) \/ MaySend(c)

OnceInv == ChildSentOnce /\ DispatchesMaySend /\ OpenMaySend

\* What has failed for good stays so.
FailuresLast == (\A c \in Children : Blocked(c) => Blocked(c)') /\ (Open' => Open)

LEMMA SentIsFinite ==
    ASSUME MatchTypeInv, NEW c \in Children
    PROVE  IsFiniteSet(Sent(c)) /\ Cardinality(Sent(c)) \in Nat /\ faults \in Nat
<1>1. Sent(c) \subseteq Messages /\ IsFiniteSet(Messages)
  BY JobsAssumption DEF Sent, MessagesOf
<1>2. faults \in Nat
  BY LimitsAssumption DEF MatchTypeInv, MatchTypeOK, TypeOK
<1>3. QED
  BY <1>1, <1>2, FS_Subset, FS_CardinalityType

LEMMA SentOnceMeans ==
    ASSUME NEW c \in Children
    PROVE  ChildSentOnce => Blocked(c) \/ Cardinality(Sent(c)) <= 1 + faults
  BY DEF ChildSentOnce, Blocked

\* What a child may be sent, it may be sent later.
LEMMA MaySendLater ==
    ASSUME MatchTypeInv, FailuresLast, ChildSentOnce, NEW c \in Children,
           faults' \in {faults, faults + 1}, Sent(c)' = Sent(c)
    PROVE  /\ MaySend(c) \/ faults' = faults + 1 => MaySend(c)'
           /\ Blocked(c)' \/ Cardinality(Sent(c)') <= 1 + faults'
<1> DEFINE s == Cardinality(Sent(c))
<1>1. s \in Nat /\ faults \in Nat
  BY SentIsFinite
<1>2. Cardinality(Sent(c)') = s
  OBVIOUS
<1>3. Blocked(c) \/ s <= 1 + faults
  BY SentOnceMeans
<1>4. Blocked(c) => Blocked(c)'
  BY DEF FailuresLast
<1>5. (MaySend(c) => Blocked(c) \/ s <= faults) /\ (Blocked(c)' \/ s <= faults' => MaySend(c)')
  BY <1>2 DEF MaySend
<1> HIDE DEF s
<1>6. \A x, f, g \in Nat : g \in {f, f + 1} =>
         /\ x <= f => x <= g
         /\ x <= 1 + f => x <= 1 + g /\ (g = f + 1 => x <= g)
  OBVIOUS
<1>7. /\ s <= faults => s <= faults'
      /\ s <= 1 + faults => s <= 1 + faults' /\ (faults' = faults + 1 => s <= faults')
  BY <1>1, <1>6, faults' \in Nat
<1>8. QED
  BY <1>2, <1>3, <1>4, <1>5, <1>7

\* A step that sends nothing.
LEMMA OnceStays ==
    ASSUME MatchTypeInv, OnceInv, FailuresLast, faults' \in {faults, faults + 1},
           \A c \in Children : Sent(c)' = Sent(c),
           \A m \in MatchMessages, c \in Children :
              IsDispatching(m)' => Dispatched(m, c)' \/ MaySend(c) \/ faults' = faults + 1,
           \A c \in Children : Open' => Spent(c)' \/ MaySend(c) \/ faults' = faults + 1
    PROVE  OnceInv'
<1>1. \A c \in Children :
         /\ MaySend(c) \/ faults' = faults + 1 => MaySend(c)'
         /\ Blocked(c)' \/ Cardinality(Sent(c)') <= 1 + faults'
  BY MaySendLater DEF OnceInv
<1>2. ChildSentOnce'
  BY <1>1 DEF ChildSentOnce, Blocked
<1>3. DispatchesMaySend'
  BY <1>1 DEF DispatchesMaySend
<1>4. OpenMaySend'
  BY <1>1 DEF OpenMaySend
<1>5. QED
  BY <1>2, <1>3, <1>4 DEF OnceInv

LEMMA TerminalLasts ==
    ASSUME MatchTypeInv, ReadInv, MatchRunsInv, [MatchNext]_matchVars
    PROVE  FailuresLast
<1>1. ASSUME NEW j \in Jobs, job[j].status \in TERMINAL_STATUSES \cup {"deleted"}
      PROVE  job'[j].status \in {job[j].status, "deleted"}
  <2>1. CASE [Next]_vars
    BY <1>1, <2>1, TerminalIsFinal DEF MatchTypeInv, MatchTypeOK
  <2>2. ASSUME NEW m \in MatchMessages, MatchMoves(m)
        PROVE  job'[j].status = job[j].status
    <3>1. job'[Match] = job[Match] \/ OwnsAttempt(m)
      BY <2>2, MatchFacts
      DEF MatchMoves, StoreMoves, CompletionMoves, ChildMoves, ChildRow
    <3>2. j = Match => job'[j] = job[j]
      BY <1>1, <3>1, MatchRowTyped DEF TERMINAL_STATUSES, FailedStatus
    <3>3. \A c \in Children :
             \/ job'[c] = job[c]
             \/ job[c].status \in ChildStatus
      BY <2>2, MatchFacts DEF MatchMoves, StoreMoves, CompletionMoves, ChildMoves, ChildRow,
         MatchTypeInv, ExpectsChild, ChildStatus
    <3>4. j # Match => job'[j] = job[j]
      BY <1>1, <3>3, MatchFacts DEF TERMINAL_STATUSES, FailedStatus, ChildStatus
    <3>5. QED
      BY <3>2, <3>4
  <2>3. QED
    BY <2>1, <2>2, WorkerSteps, MatchCalls
<1>2. \A c \in Children : Blocked(c) => Blocked(c)'
  <2>1. \A d \in Children : job[d].status \in FailedStatus \cup {"deleted"}
           => job'[d].status \in FailedStatus \cup {"deleted"}
    BY <1>1, MatchFacts DEF TERMINAL_STATUSES
  <2>2. QED
    BY <2>1 DEF Blocked
<1>3. Open' => Open
  BY <1>1, MatchFacts DEF Open, TERMINAL_STATUSES
<1>4. QED
  BY <1>2, <1>3 DEF FailuresLast

\* A claim finds an open match, and nothing spent.
LEMMA ClaimMaySend ==
    ASSUME MatchTypeInv, ReadInv, MatchRunsInv, OnceInv, NEW m \in MatchMessages, Claims(m),
           NEW c \in Children
    PROVE  MaySend(c)
<1>1. m \in Messages /\ JobOf[m] = Match
  BY MatchFacts
<1>2. job[Match].status \in claimable_statuses("jobMatch") \cup {"WORKER_PROCESSING"}
  BY <1>1, ClaimedFrom, MatchFacts
<1>3. Open
  BY <1>2, ClaimableMayBeClaimed DEF Open, TERMINAL_STATUSES, FailedStatus
<1>4. ASSUME NEW n \in MatchMessages PROVE ~Spends(n, c)
  <2>1. Spends(n, c) => Working(n)
    BY DEF Spends, IsDispatching, IsGivingUp, Working
  <2>2. Working(n) => run[n].phase = "failing" /\ ~OwnsAttempt(n)
    BY ClaimFindsNoRun
  <2>3. QED
    BY <2>1, <2>2 DEF Spends, IsDispatching, IsGivingUp
<1>5. QED
  BY <1>3, <1>4 DEF OnceInv, OpenMaySend, Spent

\* A run spends on as long as it and the row of the match stay as they are.
LEMMA SpendingStays ==
    ASSUME MatchTypeInv, MatchTypeInv', NEW n \in MatchMessages, NEW c \in Children,
           Spends(n, c), run'[n] = run[n],
           IsDispatching(n) => Dispatched(n, c)',
           job'[Match].status = job[Match].status, job'[Match].attempt = job[Match].attempt
    PROVE  Spent(c)'
<1>1. OwnsAttempt(n)' <=> OwnsAttempt(n)
  BY MatchRowTyped, PrimedOwner
<1>2. Spends(n, c)'
  BY <1>1 DEF Spends, IsDispatching, IsGivingUp
<1>3. QED
  BY <1>2 DEF Spent

\* The owner of the row is the only run that spends.
LEMMA OwnerSpendsAlone ==
    ASSUME MatchTypeInv, MatchRunsInv, NEW m \in MatchMessages, Working(m), OwnsAttempt(m),
           NEW n \in MatchMessages, NEW c \in Children, Spends(n, c)
    PROVE  n = m
<1>1. n # m => run[n].phase # "working" /\ (Working(n) => ~OwnsAttempt(n))
  BY OwnerWorksAlone
<1>2. QED
  BY <1>1 DEF Spends, IsDispatching, IsGivingUp, Working

LEMMA MessageKeepsOnce ==
    ASSUME MatchTypeInv, MatchTypeInv', ReadInv, MatchRunsInv, OnceInv, FailuresLast,
           NEW m \in Messages, PlainMoves(m) \/ (m \in MatchMessages /\ EnqueueMoves(m))
    PROVE  OnceInv'
<1>1. /\ TypeOK /\ MessageMoves(m) /\ faults' \in {faults, faults + 1} /\ Others(m)
      /\ \A n \in Messages : n # m => run'[n] = run[n] /\ dispatch'[n] = dispatch[n]
      /\ PlainMoves(m) \/ UNCHANGED dispatch
  BY DEF PlainMoves, EnqueueMoves, MessageMoves, Others, MatchTypeInv, MatchTypeOK
<1>2. ASSUME NEW c \in Children PROVE Sent(c)' = Sent(c)
  <2>1. \A n \in MessagesOf(c) : (msg'[n].state # "unsent") <=> (msg[n].state # "unsent")
    <3>1. \A n \in Messages : n # m => msg'[n] = msg[n]
      BY <1>1 DEF Others
    <3>2. CASE PlainMoves(m)
      BY <1>1, <3>1, <3>2, MessageAdvances DEF PlainMoves, MsgsAdvance, MessagesOf
    <3>3. CASE m \in MatchMessages
      BY <3>1, <3>3, MatchFacts DEF MessagesOf
    <3>4. QED
      BY <3>2, <3>3
  <2>2. QED
    BY <2>1 DEF Sent, MessagesOf
<1>3. PlainMoves(m) /\ run'[m].phase = "working" => Claims(m)
  <2> SUFFICES ASSUME PlainMoves(m), run'[m].phase = "working" PROVE Claims(m)
    OBVIOUS
  <2>1. ~Arrives(m)
    BY DEF PlainMoves, Arrives
  <2>2. ~IsRefused(m)
    BY <1>1, MessageTyped DEF IsRefused, Run
  <2>3. QED
    BY <1>1, <2>1, <2>2, DispositionIsPhase
    DEF MessageMoves, IsReceived, IsParked, Ends, Reads, ReadsAgain, Fails, Completes,
        RecordsFailure, GivesUp, Announces, Marks, Visible
<1>4. ASSUME NEW n \in MatchMessages, NEW c \in Children, IsDispatching(n)'
      PROVE  Dispatched(n, c)' \/ MaySend(c)
  <2>1. CASE run'[n] = run[n] /\ dispatch'[n] = dispatch[n]
    BY <1>4, <2>1 DEF OnceInv, DispatchesMaySend, IsDispatching, Dispatched
  <2>2. CASE n = m /\ PlainMoves(m)
    BY <1>3, <1>4, <2>2, ClaimMaySend DEF IsDispatching
  <2>3. CASE n = m /\ EnqueueMoves(m)
    BY <2>1, <2>3 DEF EnqueueMoves, Arrives
  <2>4. QED
    BY <1>1, <2>1, <2>2, <2>3, MatchFacts
<1>5. ASSUME NEW c \in Children, Open', ~MaySend(c), faults' # faults + 1
      PROVE  Spent(c)'
  <2>1. PICK n \in MatchMessages : Spends(n, c)
    BY <1>5 DEF FailuresLast, OnceInv, OpenMaySend, Spent
  <2>2. /\ n \in Messages /\ Working(n) /\ JobOf[n] = Match /\ RowOf(n) = job[Match]
        /\ job[Match] \in Row
    BY <2>1, MatchFacts, MatchRowTyped DEF Spends, IsDispatching, IsGivingUp, Working
  <2>3. ASSUME job'[Match].status = job[Match].status,
               job'[Match].attempt = job[Match].attempt,
               run'[n] = run[n], dispatch'[n] = dispatch[n]
        PROVE  Spent(c)'
    <3>1. IsDispatching(n) => Dispatched(n, c)'
      BY <2>1, <2>3 DEF Spends, Dispatched, IsDispatching, IsGivingUp
    <3>2. QED
      BY <2>1, <2>3, <3>1, SpendingStays
  <2>4. CASE m \notin MatchMessages
    <3>1. job'[Match] = job[Match]
      BY <1>1, <2>4, MatchFacts DEF Others, MatchMessages, MessagesOf
    <3>2. QED
      BY <1>1, <2>2, <2>3, <2>4, <3>1
  <2>5. CASE m \in MatchMessages
    <3>1. JobOf[m] = Match /\ RowOf(m) = job[Match]
      BY <2>5, MatchFacts
    <3>2. CASE RecordsFailure(m)
      <4>1. Working(m) /\ OwnsAttempt(m)
        BY <3>2 DEF RecordsFailure, Working
      <4>2. n = m /\ IsTerminal(m)
        BY <2>1, <2>5, <3>2, <4>1, OwnerSpendsAlone
        DEF Spends, IsDispatching, IsGivingUp, RecordsFailure, IsTerminal, terminal
      <4>3. job'[Match] = FailedRow(m) /\ run[m].error \in Errors /\ msg[m].receives \in Nat
            /\ MaxProcessingAttempts \in Nat
        BY <1>1, <3>1, <3>2, MessageTyped, LimitsAssumption
        DEF RecordsFailure, Run, Message
      <4>4. job'[Match].status \in FailedStatus
        BY <2>2, <3>1, <4>2, <4>3, TerminalMeansFailed
        DEF FailedRow, ClosedRow, IsTerminal, Row
      <4>5. QED
        BY <1>5, <4>4 DEF Open, TERMINAL_STATUSES
    <3>3. CASE ~RecordsFailure(m)
      <4>1. ~Claims(m)
        BY <1>5, <2>5, ClaimMaySend
      <4>2. ~Completes(m)
        BY <3>1, MatchFacts DEF Completes, StoresResult
      <4>3. job'[Match].status = job[Match].status /\ job'[Match].attempt = job[Match].attempt
        <5>1. job'[Match] = job[Match] \/ job'[Match] = PublishedRow(m)
          BY <1>1, <3>1, <3>3, <4>1, <4>2
          DEF MessageMoves, Arrives, IsReceived, IsParked, Ends, Reads, IsRefused,
              ReadsAgain, Fails, GivesUp, Announces, Marks, Rests
        <5>2. QED
          BY <2>2, <3>1, <5>1 DEF PublishedRow, Row
      <4>4. CASE n # m
        BY <1>1, <2>2, <2>3, <4>3, <4>4
      <4>5. CASE n = m /\ EnqueueMoves(m)
        BY <2>3, <4>3, <4>5 DEF EnqueueMoves, Arrives
      <4>6. CASE n = m /\ PlainMoves(m)
        <5>1. ~Arrives(m)
          BY <4>6 DEF PlainMoves, Arrives
        <5>2. ~Fails(m)
          BY <2>1, <4>6 DEF Fails, Spends, IsDispatching, IsGivingUp, CallsProvider
        <5>3. ~Ends(m)
          BY <1>5, <2>2, <4>6 DEF Ends, Working
        <5>4. ~GivesUp(m)
          BY <1>5, <2>1, <4>6 DEF GivesUp, Spends, IsDispatching, IsGivingUp
        <5>5. QED
          BY <1>1, <2>2, <3>3, <4>1, <4>2, <4>6, <5>1, <5>2, <5>3, <5>4
          DEF MessageMoves, IsReceived, IsParked, Reads, IsRefused, ReadsAgain, Announces,
              Marks, Visible, Working
      <4>7. QED
        BY <4>4, <4>5, <4>6
    <3>4. QED
      BY <3>2, <3>3
  <2>6. QED
    BY <2>4, <2>5
<1>6. QED
  BY <1>1, <1>2, <1>4, <1>5, OnceStays

\* The child whose message goes out has one more, its siblings have the same.
LEMMA SendingCounts ==
    ASSUME MatchTypeInv, NEW c \in Children, Sending(c)
    PROVE  /\ Cardinality(Sent(c)') = Cardinality(Sent(c)) + 1
           /\ \A d \in Children : d # c => Sent(d)' = Sent(d)
<1>1. PICK n \in MessagesOf(c) :
         /\ msg[n].state = "unsent" /\ msg'[n].state = "queued"
         /\ \A k \in Messages : k # n => msg'[k] = msg[k]
  BY DEF Sending
<1>2. Sent(c)' = Sent(c) \cup {n} /\ n \notin Sent(c)
  BY <1>1 DEF Sent, MessagesOf
<1>3. \A d \in Children : d # c => Sent(d)' = Sent(d)
  BY <1>1 DEF Sent, MessagesOf
<1>4. QED
  BY <1>2, <1>3, SentIsFinite, FS_AddElement

LEMMA StillSent ==
    ASSUME UNCHANGED msg, NEW c \in Children
    PROVE  Sent(c)' = Sent(c)
  BY DEF Sent

\* A message that could be sent leaves the bound in place ...
LEMMA SendingFits ==
    ASSUME MatchTypeInv, FailuresLast, NEW c \in Children, Sending(c), MaySend(c),
           faults' \in {faults, faults + 1}
    PROVE  /\ Blocked(c)' \/ Cardinality(Sent(c)') <= 1 + faults'
           /\ faults' = faults + 1 => MaySend(c)'
<1> DEFINE s == Cardinality(Sent(c))
           t == Cardinality(Sent(c)')
<1>1. s \in Nat /\ faults \in Nat /\ t = s + 1
  BY SentIsFinite, SendingCounts
<1>2. Blocked(c) \/ s <= faults
  BY DEF MaySend
<1>3. Blocked(c) => Blocked(c)'
  BY DEF FailuresLast
<1>4. Blocked(c)' \/ t <= faults' => MaySend(c)'
  BY DEF MaySend
<1> HIDE DEF s, t
<1>5. \A x, f, g \in Nat : g \in {f, f + 1} /\ x <= f =>
         x + 1 <= 1 + g /\ (g = f + 1 => x + 1 <= g)
  OBVIOUS
<1>6. s <= faults => t <= 1 + faults' /\ (faults' = faults + 1 => t <= faults')
  BY <1>1, <1>5, faults' \in Nat
<1>7. Blocked(c)' \/ t <= 1 + faults'
  BY <1>2, <1>3, <1>6
<1>8. QED
  BY <1>2, <1>3, <1>4, <1>6, <1>7 DEF t

\* ... and a call for a child that goes on keeps what is spent.
LEMMA AdvancesSpent ==
    ASSUME MatchTypeInv, MatchTypeInv', MatchRunsInv, NEW m \in MatchMessages, MatchMoves(m),
           NEW c \in Children, ChildMoves(m, c), Advances(m, c), NEW d \in Children, Spent(d)
    PROVE  Spent(d)'
<1>1. PICK n \in MatchMessages : Spends(n, d)
  BY DEF Spent
<1>2. /\ UNCHANGED run /\ job'[Match] = job[Match]
      /\ n # m => dispatch'[n] = dispatch[n]
      /\ d # c => dispatch'[m][d] = dispatch[m][d]
      /\ dispatch[m][c].step # "done"
  BY MatchFacts DEF MatchMoves, ChildMoves, ChildRow, Advances
<1>3. IsDispatching(n) => Dispatched(n, d)
  BY <1>1 DEF Spends, IsDispatching, IsGivingUp
<1>4. Dispatched(m, c) => Dispatched(m, c)'
  BY <1>2 DEF Dispatched, Advances
<1>5. Dispatched(n, d) => Dispatched(n, d)'
  BY <1>2, <1>4 DEF Dispatched
<1>6. QED
  BY <1>1, <1>2, <1>3, <1>5, SpendingStays

LEMMA AdvanceKeepsOnce ==
    ASSUME MatchTypeInv, MatchTypeInv', MatchRunsInv, OnceInv, FailuresLast,
           NEW m \in MatchMessages, MatchMoves(m),
           NEW c \in Children, ChildMoves(m, c), Advances(m, c)
    PROVE  OnceInv'
<1>1. /\ faults' = faults /\ IsDispatching(m) /\ run' = run /\ run[m].phase = "working"
      /\ \A d \in Children : d # c => dispatch'[m][d] = dispatch[m][d]
  BY DEF Advances, MatchMoves, ChildMoves, IsDispatching
<1>2. ASSUME NEW n \in MatchMessages, NEW d \in Children, IsDispatching(n)', d # c
      PROVE  Dispatched(n, d)' \/ MaySend(d)
  <2>1. n = m
    BY <1>2, OneDispatches DEF IsDispatching
  <2>2. QED
    BY <1>1, <1>2, <2>1 DEF OnceInv, DispatchesMaySend, Dispatched
<1>3. ASSUME NEW d \in Children, Open' PROVE Spent(d)' \/ MaySend(d)
  BY <1>3, AdvancesSpent DEF FailuresLast, OnceInv, OpenMaySend
<1>4. CASE UNCHANGED msg
  <2>1. ASSUME NEW n \in MatchMessages, IsDispatching(n)'
        PROVE  Dispatched(n, c)' \/ MaySend(c)
    <3>1. n = m
      BY <2>1, OneDispatches DEF IsDispatching
    <3>2. Dispatched(m, c)' \/ ~Dispatched(m, c)
      BY DEF Advances, ChildMoves, Dispatched
    <3>3. QED
      BY <1>1, <3>1, <3>2 DEF OnceInv, DispatchesMaySend
  <2>2. QED
    BY <1>1, <1>2, <1>3, <1>4, <2>1, StillSent, OnceStays
<1>5. CASE Sending(c) /\ dispatch[m][c].step = "send" /\ dispatch'[m][c].step = "mark"
  <2>1. MaySend(c)
    BY <1>1, <1>5 DEF OnceInv, DispatchesMaySend, Dispatched
  <2>2. Blocked(c)' \/ Cardinality(Sent(c)') <= 1 + faults'
    BY <1>1, <1>5, <2>1, SendingFits
  <2>3. ASSUME NEW d \in Children, d # c
        PROVE  /\ MaySend(d) => MaySend(d)'
               /\ Blocked(d)' \/ Cardinality(Sent(d)') <= 1 + faults'
    <3>1. Sent(d)' = Sent(d)
      BY <1>5, <2>3, SendingCounts
    <3>2. QED
      BY <1>1, <3>1, MaySendLater DEF OnceInv
  <2>4. ChildSentOnce'
    BY <2>2, <2>3 DEF ChildSentOnce, Blocked
  <2>5. \A n \in MatchMessages : IsDispatching(n)' => Dispatched(n, c)'
    <3>1. Dispatched(m, c)' /\ \A n \in MatchMessages : IsDispatching(n)' => n = m
      BY <1>5, OneDispatches DEF IsDispatching, Dispatched
    <3>2. QED
      BY <3>1
  <2>6. DispatchesMaySend'
    BY <1>2, <2>3, <2>5 DEF DispatchesMaySend
  <2>7. Spent(c)'
    <3>1. IsDispatching(m)'
      BY <1>1 DEF IsDispatching
    <3>2. QED
      BY <2>5, <3>1 DEF Spent, Spends
  <2>8. OpenMaySend'
    BY <1>3, <2>3, <2>7 DEF OpenMaySend
  <2>9. QED
    BY <2>4, <2>6, <2>8 DEF OnceInv
<1>6. QED
  BY <1>4, <1>5 DEF Advances

LEMMA StopKeepsOnce ==
    ASSUME MatchTypeInv, MatchTypeInv', MatchRunsInv, OnceInv, FailuresLast,
           NEW m \in MatchMessages, MatchMoves(m),
           NEW c \in Children, ChildMoves(m, c), Stops(m, c)
    PROVE  OnceInv'
<1>1. /\ faults' \in {faults, faults + 1} /\ IsDispatching(m) /\ run[m].phase = "working"
      /\ run'[m].phase = "failing" /\ run'[m].attempt = run[m].attempt
      /\ job'[Match] = job[Match]
  BY MatchFacts DEF Stops, Fallen, MatchMoves, ChildMoves, ChildRow, IsDispatching
<1>2. \A n \in MatchMessages : ~IsDispatching(n)'
  BY <1>1, OneDispatches DEF IsDispatching
<1>3. CASE UNCHANGED msg /\ faults' = faults + 1
  BY <1>1, <1>2, <1>3, StillSent, OnceStays
<1>4. CASE Sending(c) /\ dispatch[m][c].step = "send" /\ faults' = faults + 1
  <2>1. MaySend(c)
    BY <1>1, <1>4 DEF OnceInv, DispatchesMaySend, Dispatched
  <2>2. MaySend(c)' /\ (Blocked(c)' \/ Cardinality(Sent(c)') <= 1 + faults')
    BY <1>1, <1>4, <2>1, SendingFits
  <2>3. ASSUME NEW d \in Children, d # c
        PROVE  MaySend(d)' /\ (Blocked(d)' \/ Cardinality(Sent(d)') <= 1 + faults')
    <3>1. Sent(d)' = Sent(d)
      BY <1>4, <2>3, SendingCounts
    <3>2. QED
      BY <1>1, <1>4, <3>1, MaySendLater DEF OnceInv
  <2>4. ChildSentOnce'
    BY <2>2, <2>3 DEF ChildSentOnce, Blocked
  <2>5. DispatchesMaySend' /\ OpenMaySend'
    BY <2>2, <2>3 DEF DispatchesMaySend, OpenMaySend
  <2>6. QED
    BY <2>4, <2>5 DEF OnceInv
<1>5. CASE /\ faults' = faults /\ UNCHANGED <<job, msg>>
           /\ \/ ~retryable(run'[m].error)
              \/ dispatch[m][c].step = "read" /\ job[c].status \in FailedStatus
  <2>1. ASSUME NEW d \in Children, Open' PROVE Spent(d)' \/ MaySend(d)
    <3>1. CASE ~retryable(run'[m].error)
      <4>1. OwnsAttempt(m)
        BY <1>1, <2>1 DEF MatchRunsInv, WorkingRunsOwn, FailuresLast, Open
      <4>2. OwnsAttempt(m)'
        BY <1>1, <4>1, MatchRowTyped, PrimedOwner
      <4>3. QED
        BY <1>1, <3>1, <4>2 DEF Spent, Spends, IsGivingUp
    <3>2. CASE dispatch[m][c].step = "read" /\ job[c].status \in FailedStatus
      <4>1. CASE d = c
        BY <1>1, <3>2, <4>1 DEF OnceInv, DispatchesMaySend, Dispatched
      <4>2. CASE d # c
        BY <3>2, <4>2 DEF MaySend, Blocked
      <4>3. QED
        BY <4>1, <4>2
    <3>3. QED
      BY <1>5, <3>1, <3>2
  <2>2. QED
    BY <1>1, <1>2, <1>5, <2>1, StillSent, OnceStays
<1>6. QED
  BY <1>3, <1>4, <1>5 DEF Stops

LEMMA MatchKeepsOnce ==
    ASSUME MatchTypeInv, MatchTypeInv', MatchRunsInv, OnceInv, FailuresLast,
           NEW m \in MatchMessages, MatchMoves(m)
    PROVE  OnceInv'
<1>1. /\ run[m].phase = "working" /\ faults' \in {faults, faults + 1} /\ Working(m)
      /\ Open => OwnsAttempt(m)
  BY DEF MatchMoves, MatchRunsInv, WorkingRunsOwn, Open, Working
<1>2. ASSUME NEW c \in Children, Open, NEW n \in MatchMessages, Spends(n, c)
      PROVE  run[m].seen = "RESULT_READY"
  <2>1. n = m
    BY <1>1, <1>2, OwnerSpendsAlone
  <2>2. QED
    BY <1>1, <1>2, <2>1 DEF Spends, IsDispatching, IsGivingUp
<1>3. CASE StoreMoves(m)
  <2>1. \A n \in MatchMessages : ~IsDispatching(n)'
    BY <1>3, OneDispatches DEF StoreMoves, Fallen, IsDispatching
  <2>2. \A c \in Children : Open' => MaySend(c)
    BY <1>2, <1>3 DEF StoreMoves, FailuresLast, OnceInv, OpenMaySend, Spent
  <2>3. UNCHANGED msg
    BY <1>3 DEF StoreMoves
  <2>4. QED
    BY <1>1, <2>1, <2>2, <2>3, StillSent, OnceStays
<1>4. CASE CompletionMoves(m)
  <2>1. \A n \in MatchMessages : ~IsDispatching(n)'
    BY <1>4, OneDispatches DEF CompletionMoves, Fallen, IsDispatching
  <2>2. ~Open' \/ faults' = faults + 1
    <3>1. CASE OwnsAttempt(m) /\ faults' # faults + 1
      <4>1. job'[Match] = ClosedRow(m, "completed") /\ RowOf(m) \in Row
        BY <1>4, <3>1, MatchFacts, MatchRowTyped DEF CompletionMoves
      <4>2. job'[Match].status = "completed"
        BY <4>1 DEF ClosedRow, Row
      <4>3. QED
        BY <4>2 DEF Open, TERMINAL_STATUSES
    <3>2. CASE ~OwnsAttempt(m)
      BY <1>1, <3>2 DEF FailuresLast
    <3>3. QED
      BY <3>1, <3>2
  <2>3. UNCHANGED msg
    BY <1>4 DEF CompletionMoves
  <2>4. QED
    BY <1>1, <2>1, <2>2, <2>3, StillSent, OnceStays
<1>5. CASE \E c \in Children : ChildMoves(m, c)
  <2>1. PICK c \in Children : ChildMoves(m, c)
    BY <1>5
  <2>2. CASE Advances(m, c)
    BY <2>1, <2>2, AdvanceKeepsOnce
  <2>3. CASE Stops(m, c)
    BY <2>1, <2>3, StopKeepsOnce
  <2>4. QED
    BY <2>1, <2>2, <2>3 DEF ChildMoves
<1>6. QED
  BY <1>3, <1>4, <1>5 DEF MatchMoves

LEMMA OnceIsKept ==
    ASSUME RunTimeout < Lease
    PROVE  MatchSpec => []OnceInv
<1>1. MatchInit => OnceInv
  <2> SUFFICES ASSUME MatchInit PROVE OnceInv
    OBVIOUS
  <2>1. faults = 0 /\ \A m \in MatchMessages : run[m].phase = "idle"
    BY MatchFacts DEF MatchInit, Init, Idle
  <2>2. \A c \in Children : Sent(c) = {}
    BY DEF MatchInit, Init, Sent, MessagesOf
  <2>3. \A c \in Children : Cardinality(Sent(c)) = 0
    BY <2>2, FS_EmptySet
  <2>4. \A c \in Children : MaySend(c) /\ Cardinality(Sent(c)) <= 1 + faults
    BY <2>1, <2>3 DEF MaySend
  <2>5. QED
    BY <2>4 DEF OnceInv, ChildSentOnce, DispatchesMaySend, OpenMaySend
<1>2. MatchTypeInv /\ MatchTypeInv' /\ ReadInv /\ MatchRunsInv /\ OnceInv
      /\ [MatchNext]_matchVars => OnceInv'
  <2> SUFFICES ASSUME MatchTypeInv, MatchTypeInv', ReadInv, MatchRunsInv, OnceInv,
                      [MatchNext]_matchVars
               PROVE  OnceInv'
    OBVIOUS
  <2>1. FailuresLast
    BY TerminalLasts
  <2>2. ASSUME \A n \in Messages : run'[n] = run[n] /\ msg'[n].state = msg[n].state,
               UNCHANGED <<dispatch, faults>>,
               \/ /\ job'[Match].status = job[Match].status
                  /\ job'[Match].attempt = job[Match].attempt
               \/ job'[Match].status = "deleted"
        PROVE  OnceInv'
    <3>1. \A c \in Children : Sent(c)' = Sent(c)
      BY <2>2 DEF Sent, MessagesOf
    <3>2. \A n \in MatchMessages, c \in Children :
             IsDispatching(n)' => Dispatched(n, c)' \/ MaySend(c)
      BY <2>2, MatchFacts DEF OnceInv, DispatchesMaySend, IsDispatching, Dispatched
    <3>3. ASSUME NEW c \in Children, Open' PROVE Spent(c)' \/ MaySend(c)
      <4>1. /\ job'[Match].status = job[Match].status
            /\ job'[Match].attempt = job[Match].attempt
        BY <2>2, <3>3 DEF Open
      <4>2. ASSUME NEW n \in MatchMessages, Spends(n, c) PROVE Spent(c)'
        <5>1. run'[n] = run[n] /\ (IsDispatching(n) => Dispatched(n, c)')
          BY <2>2, <4>2, MatchFacts DEF Spends, IsDispatching, IsGivingUp, Dispatched
        <5>2. QED
          BY <4>1, <4>2, <5>1, SpendingStays
      <4>3. QED
        BY <2>1, <3>3, <4>2 DEF FailuresLast, OnceInv, OpenMaySend, Spent
    <3>4. QED
      BY <2>1, <2>2, <3>1, <3>2, <3>3, OnceStays
  <2>3. ASSUME NEW j \in Jobs, DeleteMoves(j) PROVE OnceInv'
    BY <2>2, <2>3, MatchFacts DEF DeleteMoves, RowMoves
  <2>4. ASSUME TickMoves, UNCHANGED dispatch PROVE OnceInv'
    BY <2>2, <2>4, MatchFacts DEF TickMoves
  <2>5. ASSUME UNCHANGED matchVars PROVE OnceInv'
    BY <2>2, <2>5 DEF matchVars
  <2>6. QED
    BY <2>1, <2>3, <2>4, <2>5, EveryMatchStepMoves, MessageKeepsOnce, MatchKeepsOnce,
       MatchFacts
<1>3. QED
  BY <1>1, <1>2, TypesAreKept, MatchRunsAreKept, PTL DEF MatchSpec

\* Every message of a child after its first one takes a fault, unless a sibling
\* has failed for good, while no run outlives the lease of its claim: two runs
\* that dispatch at once send twice.
THEOREM ChildrenAreSentOnce ==
    ASSUME RunTimeout < Lease
    PROVE  MatchSpec => []ChildSentOnce
<1>1. OnceInv => ChildSentOnce
  BY DEF OnceInv
<1>2. QED
  BY <1>1, OnceIsKept, PTL
=============================================================================
