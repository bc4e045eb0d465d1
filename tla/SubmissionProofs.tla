--------------------------- MODULE SubmissionProofs ---------------------------
(***************************************************************************)
(* TLAPS proofs about Submission, for any number of requests that share an   *)
(* idempotency key, whatever their bodies and however many calls fail.       *)
(***************************************************************************)
EXTENDS Submission, TLAPS

LEMMA ItemsAre ==
    /\ Items[1] = "match" /\ Items[2] = "tailoring" /\ Items[3] = "interview"
    /\ Len(Items) = 3
  BY DEF Items

LEMMA NextItemIsItem ==
    ASSUME TypeOK, NEW r \in Requests PROVE Items[req[r].next] \in Item
<1>1. req[r].next \in {1, 2, 3}
  BY DEF TypeOK, Run
<1>2. QED
  BY <1>1, ItemsAre DEF Item

-----------------------------------------------------------------------------
(* What the parts of an action do to the run of the request.                 *)

\* q is the only request whose run or reply changes.
Only(r) == \A q \in Requests \ {r} : req'[q] = req[q] /\ reply'[q] = reply[q]

RunsTyped == req' \in [Requests -> Run] /\ reply' \in [Requests -> Reply]

Phases == Submitting \cup
    {"new", "reserving", "reading", "reacquiring", "rereading", "done"}

LEMMA RunUpdate ==
    ASSUME TypeOK, NEW r \in Requests, NEW t \in Run, req' = [req EXCEPT ![r] = t]
    PROVE  /\ req' \in [Requests -> Run]
           /\ req'[r] = t
           /\ \A q \in Requests \ {r} : req'[q] = req[q]
  BY DEF TypeOK

\* The run of r with another phase and another position in the list of records.
At(r, phase, n) ==
    [phase |-> phase, resource |-> req[r].resource, next |-> n,
     stale |-> req[r].stale]

Moved(r, phase, n) ==
    /\ req'[r].phase = phase
    /\ req'[r].resource = req[r].resource
    /\ req'[r].next = n

LEMMA AtMoves ==
    \A r, phase, n : req'[r] = At(r, phase, n) => Moved(r, phase, n)
  BY DEF At, Moved

LEMMA AtIsRun ==
    ASSUME TypeOK, NEW r \in Requests, NEW phase \in Phases, NEW n \in 1..3
    PROVE  /\ At(r, phase, n) \in Run
           /\ At(r, phase, req[r].next) = [req[r] EXCEPT !.phase = phase]
           /\ At(r, req[r].phase, n) = [req[r] EXCEPT !.next = n]
<1>1. req[r] \in Run
  BY DEF TypeOK
<1>2. QED
  BY <1>1 DEF At, Run, Phases

LEMMA PhaseIsPhase ==
    ASSUME TypeOK, NEW r \in Requests
    PROVE  req[r].phase \in Phases /\ req[r].next \in 1..3
  BY DEF TypeOK, Run, Phases

LEMMA GotoEffect ==
    ASSUME TypeOK, NEW r \in Requests, NEW phase \in Phases, Goto(r, phase)
    PROVE  /\ RunsTyped /\ Only(r)
           /\ Moved(r, phase, req[r].next)
           /\ reply' = reply
<1>1. req' = [req EXCEPT ![r] = At(r, phase, req[r].next)]
  BY AtIsRun, PhaseIsPhase DEF Goto
<1>2. At(r, phase, req[r].next) \in Run
  BY AtIsRun, PhaseIsPhase
<1>3. reply' = reply
  BY DEF Goto
<1>4. QED
  BY <1>1, <1>2, <1>3, RunUpdate, AtMoves DEF RunsTyped, Only, TypeOK

LEMMA AnswerEffect ==
    ASSUME TypeOK, NEW r \in Requests,
           NEW kind \in {"accepted", "processing", "conflict", "error"},
           Answer(r, kind)
    PROVE  /\ RunsTyped /\ Only(r)
           /\ Moved(r, "done", req[r].next)
           /\ reply'[r] = [kind |-> kind, resource |-> idem.resource]
<1>1. "done" \in Phases
  BY DEF Phases
<1>2. req' = [req EXCEPT ![r] = At(r, "done", req[r].next)]
  BY <1>1, AtIsRun, PhaseIsPhase DEF Answer
<1>3. At(r, "done", req[r].next) \in Run
  BY <1>1, AtIsRun, PhaseIsPhase
<1>4. [kind |-> kind, resource |-> idem.resource] \in Reply
  BY DEF TypeOK, Reply
<1>5. QED
  BY <1>2, <1>3, <1>4, RunUpdate, AtMoves DEF Answer, TypeOK, RunsTyped, Only

LEMMA RaiseEffect ==
    ASSUME TypeOK, NEW r \in Requests, Raise(r)
    PROVE  /\ RunsTyped /\ Only(r)
           /\ \/ /\ req[r].phase \in Submitting
                 /\ Moved(r, "retrying", req[r].next)
                 /\ reply' = reply
              \/ /\ Moved(r, "done", req[r].next)
                 /\ reply'[r] = [kind |-> "error", resource |-> idem.resource]
<1>1. "retrying" \in Phases
  BY DEF Phases, Submitting
<1>2. CASE Goto(r, "retrying") /\ req[r].phase \in Submitting
  BY <1>1, <1>2, GotoEffect
<1>3. CASE Answer(r, "error")
  BY <1>3, AnswerEffect
<1>4. QED
  BY <1>2, <1>3 DEF Raise

LEMMA EnsureChildrenEffect ==
    ASSUME TypeOK, NEW r \in Requests, EnsureChildren(r)
    PROVE  /\ RunsTyped /\ Only(r)
           /\ req'[r].phase = "ensuring" /\ req'[r].next = 2
           /\ req'[r].resource = req[r].resource
           /\ reply' = reply
<1> DEFINE t == [phase |-> "ensuring", resource |-> req[r].resource, next |-> 2,
                 stale |-> req[r].resource \in failed]
<1>1. req[r] \in Run
  BY DEF TypeOK
<1>2. req' = [req EXCEPT ![r] = t]
  BY DEF EnsureChildren
<1>3. t \in Run
  BY <1>1 DEF Run, Submitting
<1>4. reply' = reply
  BY DEF EnsureChildren
<1> HIDE DEF t
<1>5. RunsTyped /\ Only(r) /\ req'[r] = t
  BY <1>2, <1>3, <1>4, RunUpdate DEF RunsTyped, Only, TypeOK
<1>6. QED
  BY <1>4, <1>5 DEF t

LEMMA ReacquireEffect ==
    ASSUME TypeOK, NEW r \in Requests, UNCHANGED reply,
           req' = [req EXCEPT ![r] = [phase |-> "lookup", resource |-> idem.resource,
                                      next |-> @.next, stale |-> @.stale]]
    PROVE  /\ RunsTyped /\ Only(r)
           /\ req'[r] = [phase |-> "lookup", resource |-> idem.resource,
                         next |-> req[r].next, stale |-> req[r].stale]
<1> DEFINE t == [phase |-> "lookup", resource |-> idem.resource,
                 next |-> req[r].next, stale |-> req[r].stale]
<1>1. req[r] \in Run /\ idem.resource \in Requests
  BY DEF TypeOK
<1>2. t \in Run
  BY <1>1 DEF Run, Submitting
<1>3. req' = [req EXCEPT ![r] = t]
  OBVIOUS
<1> HIDE DEF t
<1>4. RunsTyped /\ Only(r) /\ req'[r] = t
  BY <1>2, <1>3, RunUpdate DEF RunsTyped, Only, TypeOK
<1>5. QED
  BY <1>4 DEF t

LEMMA NextItemEffect ==
    ASSUME TypeOK, NEW r \in Requests, NEW phase \in Phases, NextItem(r, phase)
    PROVE  /\ RunsTyped /\ Only(r)
           /\ IF req[r].next = 3 THEN Moved(r, phase, 3)
              ELSE Moved(r, req[r].phase, req[r].next + 1)
           /\ reply' = reply
<1> DEFINE t == IF req[r].next = 3 THEN At(r, phase, 3)
                ELSE At(r, req[r].phase, req[r].next + 1)
<1>1. req[r].next \in 1..3 /\ req[r].phase \in Phases
  BY PhaseIsPhase
<1>2. req[r].next # 3 => req[r].next + 1 \in 1..3
  BY <1>1
<1>3. t \in Run /\ req' = [req EXCEPT ![r] = t]
  <2>1. CASE req[r].next = 3
    <3>1. req' = [req EXCEPT ![r] = [req[r] EXCEPT !.phase = phase]]
      BY <2>1, ItemsAre DEF NextItem
    <3>2. At(r, phase, 3) \in Run /\ At(r, phase, 3) = [req[r] EXCEPT !.phase = phase]
      BY <1>1, <2>1, AtIsRun
    <3>3. QED
      BY <2>1, <3>1, <3>2
  <2>2. CASE req[r].next # 3
    <3>1. req' = [req EXCEPT ![r] = [req[r] EXCEPT !.next = req[r].next + 1]]
      BY <2>2, ItemsAre DEF NextItem
    <3>2. /\ At(r, req[r].phase, req[r].next + 1) \in Run
          /\ At(r, req[r].phase, req[r].next + 1) = [req[r] EXCEPT !.next = req[r].next + 1]
      BY <1>1, <1>2, <2>2, AtIsRun
    <3>3. QED
      BY <2>2, <3>1, <3>2
  <2>3. QED
    BY <2>1, <2>2
<1>4. reply' = reply
  BY DEF NextItem
<1> HIDE DEF t
<1>5. RunsTyped /\ Only(r) /\ req'[r] = t
  BY <1>3, <1>4, RunUpdate DEF RunsTyped, Only, TypeOK
<1>6. QED
  BY <1>4, <1>5, AtMoves DEF t

-----------------------------------------------------------------------------
(* What a step does to the records.                                          *)

RecordsTyped ==
    /\ idem' \in [status : {"none", "IN_PROGRESS", "COMPLETED", "FAILED_RETRYABLE"},
                  hash : Bodies, resource : Requests]
    /\ outbox' \in [Requests -> [status : {"absent", "PREPARING", "PENDING"},
                                 by : Requests]]
    /\ rows' \in [Requests -> [Item -> Bodies \cup {Absent}]]
    /\ failed' \subseteq Requests

\* r writes what its phase lets it write, or nothing.
Writes(r) ==
    \/ UNCHANGED records
    \/ req[r].phase = "reserving" /\ PutReservation(r)
    \/ req[r].phase = "reacquiring" /\ SetReacquired(r)
    \/ req[r].phase = "preparing" /\ PutPreparing(r)
    \/ req[r].phase \in {"creating", "ensuring"} /\ PutItem(r)
    \/ req[r].phase = "activating" /\ SetPending(r)
    \/ req[r].phase = "completing" /\ SetCompleted(r)
    \/ req[r].phase = "retrying" /\ SetRetryable(r)

LEMMA WriteIsWrites == \A r : Write(r) => Writes(r)
  BY DEF Write, Writes

LEMMA WritesAreTyped ==
    ASSUME TypeOK, NEW r \in Requests, Writes(r) PROVE RecordsTyped
<1>1. CASE UNCHANGED records
  BY <1>1 DEF records, TypeOK, RecordsTyped
<1>2. CASE PutReservation(r)
  BY <1>2, SubmissionAssumption DEF PutReservation, TypeOK, RecordsTyped
<1>3. CASE SetReacquired(r) \/ SetCompleted(r) \/ SetRetryable(r)
  BY <1>3 DEF SetReacquired, SetCompleted, SetRetryable, TypeOK, RecordsTyped
<1>4. CASE PutPreparing(r)
  <2>1. req[r].resource \in Requests
    BY DEF TypeOK, Run
  <2>2. QED
    BY <1>4, <2>1 DEF PutPreparing, TypeOK, RecordsTyped
<1>5. CASE SetPending(r)
  <2>1. outbox[req[r].resource] \in [status : {"absent", "PREPARING", "PENDING"},
                                    by : Requests]
    BY DEF TypeOK, Run
  <2>2. [outbox[req[r].resource] EXCEPT !.status = "PENDING"]
            = [status |-> "PENDING", by |-> outbox[req[r].resource].by]
    BY <2>1
  <2>3. outbox' = [outbox EXCEPT ![req[r].resource] =
                      [status |-> "PENDING", by |-> outbox[req[r].resource].by]]
    BY <1>5, <2>2 DEF SetPending
  <2>4. [status |-> "PENDING", by |-> outbox[req[r].resource].by]
            \in [status : {"absent", "PREPARING", "PENDING"}, by : Requests]
    BY <2>1
  <2>5. outbox' \in [Requests -> [status : {"absent", "PREPARING", "PENDING"},
                                 by : Requests]]
    BY <2>3, <2>4 DEF TypeOK
  <2>6. QED
    BY <1>5, <2>5 DEF SetPending, TypeOK, RecordsTyped
<1>6. CASE PutItem(r)
  <2>1. req[r].resource \in Requests /\ Items[req[r].next] \in Item
    BY NextItemIsItem DEF TypeOK, Run
  <2>2. Body[r] \in Bodies
    BY SubmissionAssumption
  <2>3. rows' \in [Requests -> [Item -> Bodies \cup {Absent}]]
    BY <1>6, <2>1, <2>2 DEF PutItem, TypeOK
  <2>4. QED
    BY <1>6, <2>3 DEF PutItem, TypeOK, RecordsTyped
<1>7. QED
  BY <1>1, <1>2, <1>3, <1>4, <1>5, <1>6 DEF Writes

\* The actions of a request.
Acts(r) == Arrive(r) \/ RequestStep(r) \/ CallFails(r) \/ Resend(r) \/ Crash(r)

LEMMA FaultsTyped ==
    TypeOK /\ (Fault \/ UNCHANGED faults) => faults' \in 0..MaxFaults
  BY SubmissionAssumption DEF TypeOK, Fault

\* A request writes what its phase lets it write, and moves only itself.
LEMMA ActShape ==
    ASSUME TypeOK, NEW r \in Requests, Acts(r)
    PROVE  Writes(r) /\ Only(r) /\ RunsTyped /\ faults' \in 0..MaxFaults
<1> USE DEF Phases, Submitting
<1>1. CASE Arrive(r) \/ Crash(r)
  BY <1>1, GotoEffect, FaultsTyped DEF Arrive, Crash, Writes
<1>2. CASE Reserve(r)
  BY <1>2, GotoEffect, FaultsTyped DEF Reserve, Writes
<1>3. CASE ReadExisting(r)
  <2>1. \/ Answer(r, "conflict") \/ Answer(r, "accepted") \/ Answer(r, "processing")
        \/ Goto(r, "reacquiring")
    BY <1>3 DEF ReadExisting
  <2>2. QED
    BY <1>3, <2>1, GotoEffect, AnswerEffect, FaultsTyped DEF ReadExisting, Writes
<1>4. CASE TryReacquire(r)
  BY <1>4, GotoEffect, ReacquireEffect, FaultsTyped DEF TryReacquire, Writes
<1>5. CASE ReadAgain(r)
  BY <1>5, AnswerEffect, FaultsTyped DEF ReadAgain, Writes
<1>6. CASE Lookup(r)
  BY <1>6, GotoEffect, EnsureChildrenEffect, RaiseEffect, FaultsTyped DEF Lookup, Writes
<1>7. CASE EnsurePrepared(r)
  BY <1>7, GotoEffect, FaultsTyped DEF EnsurePrepared, Writes
<1>8. CASE EnsureItem(r)
  BY <1>8, GotoEffect, NextItemEffect, FaultsTyped DEF EnsureItem, Writes
<1>9. CASE Activate(r)
  BY <1>9, GotoEffect, FaultsTyped DEF Activate, Writes
<1>10. CASE Inspect(r)
  BY <1>10, EnsureChildrenEffect, RaiseEffect, FaultsTyped DEF Inspect, Writes
<1>11. CASE EnsureChild(r)
  BY <1>11, NextItemEffect, RaiseEffect, FaultsTyped DEF EnsureChild, Writes
<1>12. CASE Complete(r)
  BY <1>12, AnswerEffect, RaiseEffect, FaultsTyped DEF Complete, Writes
<1>13. CASE MarkRetryable(r)
  BY <1>13, AnswerEffect, FaultsTyped DEF MarkRetryable, Writes
<1>14. CASE CallFails(r)
  BY <1>14, WriteIsWrites, RaiseEffect, FaultsTyped DEF CallFails, Writes
<1>15. CASE Resend(r)
  BY <1>15, WriteIsWrites, FaultsTyped DEF Resend, RunsTyped, Only, TypeOK
<1>16. QED
  BY <1>1, <1>2, <1>3, <1>4, <1>5, <1>6, <1>7, <1>8, <1>9, <1>10, <1>11, <1>12,
     <1>13, <1>14, <1>15
  DEF Acts, RequestStep

LEMMA InitTyped == Init => TypeOK
<1> SUFFICES ASSUME Init PROVE TypeOK
  OBVIOUS
<1>1. idem \in [status : {"none", "IN_PROGRESS", "COMPLETED", "FAILED_RETRYABLE"},
                hash : Bodies, resource : Requests]
  BY DEF Init
<1>2. req \in [Requests -> Run] /\ reply \in [Requests -> Reply]
  BY DEF Init, Run, Reply
<1>3. rows \in [Requests -> [Item -> Bodies \cup {Absent}]]
  BY DEF Init
<1>4. QED
  BY <1>1, <1>2, <1>3, SubmissionAssumption DEF Init, TypeOK

\* The steps of the system: a request acts, or a worker fails its match.
LEMMA Steps ==
    ASSUME [Next \/ Terminated]_vars
    PROVE  \/ \E r \in Requests : Acts(r)
           \/ \E x \in Requests : WorkerFails(x)
           \/ UNCHANGED vars
  BY DEF Next, Acts, Terminated

LEMMA StepTyped == TypeOK /\ [Next \/ Terminated]_vars => TypeOK'
<1> SUFFICES ASSUME TypeOK, [Next \/ Terminated]_vars PROVE TypeOK'
  OBVIOUS
<1>1. ASSUME NEW r \in Requests, Acts(r) PROVE TypeOK'
  BY <1>1, ActShape, WritesAreTyped DEF RunsTyped, RecordsTyped, TypeOK
<1>2. ASSUME NEW x \in Requests, WorkerFails(x) PROVE TypeOK'
  BY <1>2 DEF WorkerFails, TypeOK
<1>3. CASE UNCHANGED vars
  BY <1>3 DEF vars, TypeOK
<1>4. QED
  BY <1>1, <1>2, <1>3, Steps

\* The records, the runs and the replies have their types, whatever the requests
\* of one key do and however many calls fail.
THEOREM TypeCorrect == Spec => []TypeOK
<1>1. QED
  BY InitTyped, StepTyped, PTL DEF Spec

-----------------------------------------------------------------------------
(* One key, one match.                                                       *)

\* A run that is past the reservation works for the match and the body of the
\* key; what was answered agrees with the key.
KeyAt(r) ==
    /\ req[r].phase \in {"new", "reserving"} => req[r].resource = r
    /\ req[r].phase \in {"reading", "reacquiring", "rereading"} => idem.status # "none"
    /\ req[r].phase \in Submitting =>
          /\ idem.status # "none"
          /\ req[r].resource = idem.resource
          /\ Body[r] = idem.hash
    /\ reply[r].kind \in {"accepted", "processing"} =>
          idem.status # "none" /\ reply[r].resource = idem.resource
    /\ reply[r].kind = "accepted" => idem.status = "COMPLETED"

RecordsOfKey ==
    \A x \in Requests :
        outbox[x].status # "absent" \/ (\E i \in Item : rows[x][i] # Absent)
            => idem.status # "none" /\ x = idem.resource

KeyInv ==
    /\ TypeOK
    /\ \A r \in Requests : KeyAt(r)
    /\ RecordsOfKey

\* A reservation keeps its match and body, and completion is final.
KeyStays ==
    /\ idem.status # "none" => /\ idem'.status # "none"
                              /\ idem'.resource = idem.resource
                              /\ idem'.hash = idem.hash
    /\ idem.status = "COMPLETED" => idem' = idem

LEMMA KeyKept ==
    ASSUME TypeOK, NEW r \in Requests, Writes(r) PROVE KeyStays
<1> USE DEF KeyStays
<1>1. idem.status \in {"none", "IN_PROGRESS", "COMPLETED", "FAILED_RETRYABLE"}
  BY DEF TypeOK
<1>2. CASE UNCHANGED idem
  BY <1>2
<1>3. CASE PutReservation(r)
  BY <1>3 DEF PutReservation
<1>4. CASE SetReacquired(r) \/ SetCompleted(r) \/ SetRetryable(r)
  BY <1>1, <1>4 DEF SetReacquired, SetCompleted, SetRetryable, HoldsKey, TypeOK
<1>5. QED
  BY <1>2, <1>3, <1>4
  DEF Writes, records, PutPreparing, PutItem, SetPending

\* A run goes on with its match, or ends.
LEMMA KeyAtMoves ==
    ASSUME NEW r \in Requests, KeyAt(r), KeyStays,
           req'[r].resource = req[r].resource, reply'[r] = reply[r],
           \/ req'[r].phase = "done"
           \/ req'[r].phase = "reserving" /\ req[r].phase = "new"
           \/ req'[r].phase \in Submitting /\ req[r].phase \in Submitting
           \/ /\ req'[r].phase \in {"reading", "reacquiring", "rereading"}
              /\ idem.status # "none"
    PROVE  KeyAt(r)'
  BY DEF KeyAt, KeyStays, Submitting

\* A run ends with an answer.
LEMMA KeyAtAnswers ==
    ASSUME NEW r \in Requests, KeyStays, req'[r].phase = "done",
           NEW kind, reply'[r] = [kind |-> kind, resource |-> idem.resource],
           kind \in {"accepted", "processing"} => idem.status # "none",
           kind = "accepted" => idem'.status = "COMPLETED"
    PROVE  KeyAt(r)'
<1>1. reply'[r].kind = kind /\ reply'[r].resource = idem.resource
  OBVIOUS
<1>2. QED
  BY <1>1 DEF KeyAt, KeyStays, Submitting

LEMMA KeyAtRaise ==
    ASSUME TypeOK, NEW r \in Requests, KeyAt(r), KeyStays, Raise(r) PROVE KeyAt(r)'
<1>1. CASE /\ req[r].phase \in Submitting
           /\ Moved(r, "retrying", req[r].next)
           /\ reply' = reply
  BY <1>1, KeyAtMoves DEF Moved, Submitting
<1>2. CASE /\ Moved(r, "done", req[r].next)
           /\ reply'[r] = [kind |-> "error", resource |-> idem.resource]
  BY <1>2, KeyAtAnswers DEF Moved
<1>3. QED
  BY <1>1, <1>2, RaiseEffect

LEMMA KeyAtGoto ==
    ASSUME TypeOK, NEW r \in Requests, KeyAt(r), KeyStays, NEW phase, Goto(r, phase),
           \/ phase = "done"
           \/ phase = "reserving" /\ req[r].phase = "new"
           \/ phase \in Submitting /\ req[r].phase \in Submitting
           \/ /\ phase \in {"reading", "reacquiring", "rereading"}
              /\ idem.status # "none"
    PROVE  KeyAt(r)'
<1>1. phase \in Phases
  BY DEF Phases
<1>2. Moved(r, phase, req[r].next) /\ reply' = reply
  BY <1>1, GotoEffect
<1>3. QED
  BY <1>2, KeyAtMoves DEF Moved

LEMMA KeyAtAnswer ==
    ASSUME TypeOK, NEW r \in Requests, KeyStays,
           NEW kind \in {"accepted", "processing", "conflict", "error"},
           Answer(r, kind),
           kind \in {"accepted", "processing"} => idem.status # "none",
           kind = "accepted" => idem'.status = "COMPLETED"
    PROVE  KeyAt(r)'
<1>1. /\ Moved(r, "done", req[r].next)
      /\ reply'[r] = [kind |-> kind, resource |-> idem.resource]
  BY AnswerEffect
<1>2. QED
  BY <1>1, KeyAtAnswers DEF Moved

\* The run of r itself, action by action.
LEMMA KeyStepSelf ==
    ASSUME KeyInv, NEW r \in Requests, Acts(r), Writes(r)
    PROVE  KeyAt(r)'
<1>1. TypeOK /\ KeyAt(r)
  BY DEF KeyInv
<1>2. KeyStays
  BY <1>1, KeyKept
<1>3. CASE Arrive(r) \/ Crash(r)
  BY <1>1, <1>2, <1>3, KeyAtGoto DEF Arrive, Crash
<1>4. CASE Reserve(r)
  <2>1. CASE PutReservation(r) /\ Goto(r, "lookup")
    <3>1. "lookup" \in Phases
      BY DEF Phases, Submitting
    <3>2. Moved(r, "lookup", req[r].next) /\ reply' = reply
      BY <1>1, <2>1, <3>1, GotoEffect
    <3>3. req[r].resource = r
      BY <1>1, <1>4 DEF Reserve, KeyAt
    <3>4. idem'.status = "IN_PROGRESS" /\ idem'.resource = r /\ idem'.hash = Body[r]
      BY <2>1 DEF PutReservation
    <3>5. reply[r].kind \notin {"accepted", "processing"}
      BY <1>1, <2>1 DEF PutReservation, KeyAt
    <3>6. QED
      BY <3>2, <3>3, <3>4, <3>5 DEF Moved, KeyAt
  <2>2. CASE idem.status # "none" /\ Goto(r, "reading")
    BY <1>1, <1>2, <2>2, KeyAtGoto
  <2>3. QED
    BY <1>4, <2>1, <2>2 DEF Reserve
<1>5. CASE ReadExisting(r)
  <2>1. idem' = idem /\ idem.status # "none"
    BY <1>1, <1>5 DEF ReadExisting, records, KeyAt
  <2>2. CASE Answer(r, "conflict")
    BY <1>1, <1>2, <2>2, KeyAtAnswer
  <2>3. CASE Answer(r, "accepted") /\ idem.status = "COMPLETED"
    BY <1>1, <1>2, <2>1, <2>3, KeyAtAnswer
  <2>4. CASE Answer(r, "processing")
    BY <1>1, <1>2, <2>1, <2>4, KeyAtAnswer
  <2>5. CASE Goto(r, "reacquiring")
    BY <1>1, <1>2, <2>1, <2>5, KeyAtGoto
  <2>6. QED
    BY <1>5, <2>2, <2>3, <2>4, <2>5 DEF ReadExisting
<1>6. CASE TryReacquire(r)
  <2>1. idem.status # "none"
    BY <1>1, <1>6 DEF TryReacquire, KeyAt
  <2>2. CASE SetReacquired(r) /\ ~Goto(r, "rereading")
    <3>1. /\ req'[r] = [phase |-> "lookup", resource |-> idem.resource,
                        next |-> req[r].next, stale |-> req[r].stale]
          /\ reply' = reply
      BY <1>1, <1>6, <2>2, ReacquireEffect DEF TryReacquire
    <3>2. req'[r].phase = "lookup" /\ req'[r].resource = idem.resource
      BY <3>1
    <3>3. idem.hash = Body[r] /\ idem.status # "COMPLETED"
      BY <2>2 DEF SetReacquired
    <3>4. QED
      BY <1>1, <1>2, <2>1, <3>1, <3>2, <3>3 DEF KeyAt, KeyStays
  <2>3. CASE Goto(r, "rereading")
    BY <1>1, <1>2, <2>1, <2>3, KeyAtGoto
  <2>4. QED
    BY <1>6, <2>2, <2>3 DEF TryReacquire
<1>7. CASE ReadAgain(r)
  <2>1. idem' = idem /\ idem.status # "none"
    BY <1>1, <1>7 DEF ReadAgain, records, KeyAt
  <2>2. CASE Answer(r, "accepted") /\ idem.status = "COMPLETED"
    BY <1>1, <1>2, <2>1, <2>2, KeyAtAnswer
  <2>3. CASE Answer(r, "processing")
    BY <1>1, <1>2, <2>1, <2>3, KeyAtAnswer
  <2>4. QED
    BY <1>7, <2>2, <2>3 DEF ReadAgain
<1>8. ASSUME NEW phase \in Submitting, Goto(r, phase), req[r].phase \in Submitting
      PROVE  KeyAt(r)'
  BY <1>1, <1>2, <1>8, KeyAtGoto
<1>9. ASSUME EnsureChildren(r), req[r].phase \in Submitting PROVE KeyAt(r)'
  <2>1. /\ req'[r].phase = "ensuring" /\ req'[r].resource = req[r].resource
        /\ reply' = reply
    BY <1>1, <1>9, EnsureChildrenEffect
  <2>2. QED
    BY <1>1, <1>2, <1>9, <2>1, KeyAtMoves DEF Submitting
<1>10. ASSUME NEW phase \in Submitting, NextItem(r, phase), req[r].phase \in Submitting
       PROVE  KeyAt(r)'
  <2>1. phase \in Phases
    BY DEF Phases
  <2>2. /\ req'[r].phase \in Submitting /\ req'[r].resource = req[r].resource
        /\ reply' = reply
    BY <1>1, <1>10, <2>1, NextItemEffect DEF Moved
  <2>3. QED
    BY <1>1, <1>2, <1>10, <2>2, KeyAtMoves
<1>11. ASSUME Raise(r) PROVE KeyAt(r)'
  BY <1>1, <1>2, <1>11, KeyAtRaise
<1> USE DEF Submitting
<1>12. CASE Lookup(r)
  BY <1>8, <1>9, <1>11, <1>12 DEF Lookup
<1>13. CASE EnsurePrepared(r)
  BY <1>8, <1>13 DEF EnsurePrepared
<1>14. CASE EnsureItem(r)
  BY <1>8, <1>10, <1>14 DEF EnsureItem
<1>15. CASE Activate(r)
  BY <1>8, <1>15 DEF Activate
<1>16. CASE Inspect(r)
  BY <1>9, <1>11, <1>16 DEF Inspect
<1>17. CASE EnsureChild(r)
  BY <1>10, <1>11, <1>17 DEF EnsureChild
<1>18. CASE Complete(r)
  <2>1. idem.status # "none"
    BY <1>1, <1>18 DEF Complete, KeyAt
  <2>2. CASE SetCompleted(r) /\ Answer(r, "accepted")
    <3>1. idem' = [idem EXCEPT !.status = "COMPLETED"]
      BY <2>2 DEF SetCompleted
    <3>2. idem'.status = "COMPLETED"
      BY <1>1, <3>1 DEF TypeOK
    <3>3. QED
      BY <1>1, <1>2, <2>1, <2>2, <3>2, KeyAtAnswer
  <2>3. CASE Answer(r, "accepted") /\ idem.status = "COMPLETED" /\ UNCHANGED records
    BY <1>1, <1>2, <2>1, <2>3, KeyAtAnswer DEF records
  <2>4. QED
    BY <1>11, <1>18, <2>2, <2>3 DEF Complete
<1>19. CASE MarkRetryable(r)
  BY <1>1, <1>2, <1>19, KeyAtAnswer DEF MarkRetryable
<1>20. CASE CallFails(r)
  BY <1>11, <1>20 DEF CallFails
<1>21. CASE Resend(r)
  <2>1. req' = req /\ reply' = reply /\ Write(r)
    BY <1>21 DEF Resend
  <2>2. CASE idem.status # "none"
    BY <1>1, <1>2, <2>1, <2>2 DEF KeyAt, KeyStays
  <2>3. CASE idem.status = "none"
    BY <1>1, <2>1, <2>3 DEF KeyAt
  <2>4. QED
    BY <2>2, <2>3
<1>22. QED
  BY <1>3, <1>4, <1>5, <1>6, <1>7, <1>12, <1>13, <1>14, <1>15, <1>16, <1>17, <1>18,
     <1>19, <1>20, <1>21
  DEF Acts, RequestStep

\* Records are written for the match of the key only.
LEMMA RecordsOfKeyStep ==
    ASSUME KeyInv, NEW r \in Requests, Writes(r) PROVE RecordsOfKey'
<1> USE DEF Submitting
<1>1. TypeOK /\ KeyAt(r) /\ RecordsOfKey
  BY DEF KeyInv
<1>2. idem.status # "none" => idem'.status # "none" /\ idem'.resource = idem.resource
  BY <1>1, KeyKept DEF KeyStays
<1>3. CASE UNCHANGED <<outbox, rows>>
  BY <1>1, <1>2, <1>3 DEF RecordsOfKey
<1>4. CASE \/ req[r].phase = "preparing" /\ PutPreparing(r)
           \/ req[r].phase = "activating" /\ SetPending(r)
  <2>1. req[r].resource = idem.resource /\ idem.status # "none" /\ rows' = rows
    BY <1>1, <1>4 DEF KeyAt, PutPreparing, SetPending
  <2>2. \A x \in Requests \ {req[r].resource} : outbox'[x] = outbox[x]
    BY <1>1, <1>4 DEF PutPreparing, SetPending, TypeOK
  <2>3. QED
    BY <1>1, <1>2, <2>1, <2>2 DEF RecordsOfKey
<1>5. CASE req[r].phase \in {"creating", "ensuring"} /\ PutItem(r)
  <2>1. req[r].resource = idem.resource /\ idem.status # "none" /\ outbox' = outbox
    BY <1>1, <1>5 DEF KeyAt, PutItem
  <2>2. \A x \in Requests \ {req[r].resource} : rows'[x] = rows[x]
    BY <1>1, <1>5 DEF PutItem, TypeOK
  <2>3. QED
    BY <1>1, <1>2, <2>1, <2>2 DEF RecordsOfKey
<1>6. QED
  BY <1>3, <1>4, <1>5
  DEF Writes, records, PutReservation, SetReacquired, SetCompleted, SetRetryable

LEMMA KeyStep == KeyInv /\ [Next \/ Terminated]_vars => KeyInv'
<1> SUFFICES ASSUME KeyInv, [Next \/ Terminated]_vars PROVE KeyInv'
  OBVIOUS
<1>1. TypeOK'
  BY StepTyped DEF KeyInv
<1>2. ASSUME NEW r \in Requests, Acts(r)
      PROVE  (\A q \in Requests : KeyAt(q)') /\ RecordsOfKey'
  <2>1. Writes(r) /\ Only(r)
    BY <1>2, ActShape DEF KeyInv
  <2>2. KeyAt(r)' /\ RecordsOfKey'
    BY <1>2, <2>1, KeyStepSelf, RecordsOfKeyStep
  <2>3. ASSUME NEW q \in Requests \ {r} PROVE KeyAt(q)'
    <3>1. req'[q] = req[q] /\ reply'[q] = reply[q] /\ KeyAt(q)
      BY <2>1, <2>3 DEF Only, KeyInv
    <3>2. KeyStays
      BY <2>1, KeyKept DEF KeyInv
    <3>3. QED
      BY <3>1, <3>2 DEF KeyAt, KeyStays
  <2>4. QED
    BY <2>2, <2>3
<1>3. ASSUME NEW x \in Requests, WorkerFails(x)
      PROVE  (\A q \in Requests : KeyAt(q)') /\ RecordsOfKey'
  BY <1>3 DEF KeyInv, WorkerFails, KeyAt, RecordsOfKey
<1>4. CASE UNCHANGED vars
  BY <1>4 DEF vars, KeyInv, KeyAt, RecordsOfKey, TypeOK
<1>5. QED
  BY <1>1, <1>2, <1>3, <1>4, Steps DEF KeyInv

LEMMA InitKey == Init => KeyInv
<1> SUFFICES ASSUME Init PROVE KeyInv
  OBVIOUS
<1>1. \A r \in Requests : KeyAt(r)
  BY DEF Init, KeyAt, Submitting
<1>2. RecordsOfKey
  BY DEF Init, RecordsOfKey, Absent
<1>3. QED
  BY <1>1, <1>2, InitTyped DEF KeyInv

LEMMA KeyInvariant == Spec => []KeyInv
<1>1. QED
  BY InitKey, KeyStep, PTL DEF Spec

\* However retries overlap, resume or race for the reservation, records and
\* answers are of one match (reserve_request).
THEOREM KeyNamesOneMatch == Spec => []OneMatchPerKey
<1>1. KeyInv => OneMatchPerKey
  BY DEF KeyInv, KeyAt, RecordsOfKey, OneMatchPerKey
<1>2. QED
  BY <1>1, KeyInvariant, PTL

\* No step, of a late or of a failing request, changes the record of a completed
\* key (complete_request, mark_request_retryable).
THEOREM CompletionIsFinal == Spec => CompletedIsFinal
<1> DEFINE Final == idem.status = "COMPLETED" => idem' = idem
<1>1. TypeOK /\ [Next \/ Terminated]_vars => [Final]_vars
  <2> SUFFICES ASSUME TypeOK, [Next \/ Terminated]_vars PROVE [Final]_vars
    OBVIOUS
  <2>1. ASSUME NEW r \in Requests, Acts(r) PROVE Final
    BY <2>1, ActShape, KeyKept DEF KeyStays
  <2>2. ASSUME NEW x \in Requests, WorkerFails(x) PROVE Final
    BY <2>2 DEF WorkerFails
  <2>3. QED
    BY <2>1, <2>2, Steps
<1>2. QED
  BY <1>1, TypeCorrect, PTL DEF Spec, CompletedIsFinal

-----------------------------------------------------------------------------
(* No dispatch and no completion before the records.                         *)

\* The records before the one at position n exist, created for the body of r.
Made(r, n) ==
    \A i \in 1..3 : i < n => rows[req[r].resource][Items[i]] = Body[r]

RowsAt(r) ==
    /\ req[r].phase \in {"new", "reserving", "reading", "reacquiring", "lookup",
                         "preparing"} => req[r].next = 1
    /\ req[r].phase \in {"creating", "ensuring"} => Made(r, req[r].next)
    /\ req[r].phase \in {"activating", "completing"} => Made(r, 4)

RowsInv ==
    /\ \A r \in Requests : RowsAt(r)
    /\ DispatchAfterRecords
    /\ idem.status = "COMPLETED" => \A i \in Item : rows[idem.resource][i] = idem.hash

\* No record is written twice.
RowsStay ==
    \A x \in Requests, i \in Item : rows[x][i] # Absent => rows'[x][i] = rows[x][i]

LEMMA BodyIsPresent == \A r \in Requests : Body[r] # Absent
  BY SubmissionAssumption DEF Absent

LEMMA ItemPositions ==
    /\ \A i \in 1..3 : Items[i] \in Item
    /\ \A j \in Item : \E i \in 1..3 : j = Items[i]
<1>1. \A i \in 1..3 : i = 1 \/ i = 2 \/ i = 3
  OBVIOUS
<1>2. \A i \in 1..3 : Items[i] \in Item
  BY <1>1, ItemsAre DEF Item
<1>3. \A j \in Item : \E i \in 1..3 : j = Items[i]
  BY ItemsAre DEF Item
<1>4. QED
  BY <1>2, <1>3

LEMMA RowsKept ==
    ASSUME TypeOK, NEW r \in Requests, Writes(r) PROVE RowsStay
<1>1. CASE UNCHANGED rows
  BY <1>1 DEF RowsStay
<1>2. CASE PutItem(r)
  <2>1. req[r].resource \in Requests /\ Items[req[r].next] \in Item
    BY NextItemIsItem DEF TypeOK, Run
  <2>2. rows[req[r].resource][Items[req[r].next]] = Absent
    BY <1>2 DEF PutItem, Record
  <2>3. \A x \in Requests, i \in Item :
            x # req[r].resource \/ i # Items[req[r].next] => rows'[x][i] = rows[x][i]
    BY <1>2, <2>1 DEF PutItem, TypeOK
  <2>4. QED
    BY <2>2, <2>3 DEF RowsStay
<1>3. QED
  BY <1>1, <1>2
  DEF Writes, records, PutReservation, SetReacquired, PutPreparing, SetPending,
      SetCompleted, SetRetryable

LEMMA MadeStays ==
    ASSUME TypeOK, NEW r \in Requests, RowsStay, NEW n, Made(r, n),
           req'[r].resource = req[r].resource
    PROVE  \A i \in 1..3 : i < n => rows'[req'[r].resource][Items[i]] = Body[r]
<1>1. req[r].resource \in Requests
  BY DEF TypeOK, Run
<1>2. QED
  BY <1>1, BodyIsPresent, ItemPositions DEF Made, RowsStay

\* After the record at position next, there is one more.
LEMMA MadeNext ==
    ASSUME TypeOK, NEW r \in Requests, RowsStay, Made(r, req[r].next),
           req'[r].resource = req[r].resource,
           PutItem(r) \/ (SameCreation(r) /\ UNCHANGED records)
    PROVE  \A i \in 1..3 : i < req[r].next + 1 =>
              rows'[req'[r].resource][Items[i]] = Body[r]
<1>1. req[r].resource \in Requests /\ req[r].next \in 1..3
  BY DEF TypeOK, Run
<1>2. rows'[req[r].resource][Items[req[r].next]] = Body[r]
  <2>1. CASE PutItem(r)
    <3>1. Items[req[r].next] \in Item
      BY NextItemIsItem
    <3>2. QED
      BY <1>1, <2>1, <3>1 DEF PutItem, TypeOK
  <2>2. CASE SameCreation(r) /\ UNCHANGED records
    BY <2>2 DEF SameCreation, Record, records
  <2>3. QED
    BY <2>1, <2>2
<1>3. \A i \in 1..3 : i < req[r].next =>
          rows'[req'[r].resource][Items[i]] = Body[r]
  BY MadeStays
<1>4. \A i \in 1..3 : i < req[r].next + 1 => i < req[r].next \/ i = req[r].next
  BY <1>1
<1>5. QED
  BY <1>2, <1>3, <1>4

\* The run ends, or comes to a phase that promises nothing of the records.
LEMMA RowsAtElsewhere ==
    ASSUME NEW r \in Requests,
           req'[r].phase \in {"rereading", "inspecting", "retrying", "done"}
    PROVE  RowsAt(r)'
  BY DEF RowsAt

\* The run goes on, before the first record.
LEMMA RowsAtStart ==
    ASSUME NEW r \in Requests, req'[r].next = 1,
           req'[r].phase \in {"reserving", "reading", "reacquiring", "lookup",
                              "preparing", "creating"}
    PROVE  RowsAt(r)'
<1>1. ASSUME NEW i \in 1..3 PROVE ~(i < 1)
  BY <1>1
<1>2. Made(r, req[r].next)'
  BY <1>1 DEF Made
<1>3. QED
  BY <1>2 DEF RowsAt

LEMMA RowsAtRaise ==
    ASSUME TypeOK, NEW r \in Requests, Raise(r) PROVE RowsAt(r)'
<1>1. req'[r].phase \in {"retrying", "done"}
  BY RaiseEffect DEF Moved
<1>2. QED
  BY <1>1, RowsAtElsewhere

LEMMA RowsAtAnswer ==
    ASSUME TypeOK, NEW r \in Requests,
           NEW kind \in {"accepted", "processing", "conflict", "error"},
           Answer(r, kind)
    PROVE  RowsAt(r)'
<1>1. req'[r].phase = "done"
  BY AnswerEffect DEF Moved
<1>2. QED
  BY <1>1, RowsAtElsewhere

LEMMA RowsAtGotoElsewhere ==
    ASSUME TypeOK, NEW r \in Requests,
           NEW phase \in {"rereading", "inspecting", "retrying", "done"},
           Goto(r, phase)
    PROVE  RowsAt(r)'
<1>1. phase \in Phases
  BY DEF Phases, Submitting
<1>2. req'[r].phase = phase
  BY <1>1, GotoEffect DEF Moved
<1>3. QED
  BY <1>2, RowsAtElsewhere

LEMMA RowsAtGotoStart ==
    ASSUME TypeOK, NEW r \in Requests, RowsAt(r),
           req[r].phase \in {"new", "reserving", "reading", "reacquiring", "lookup",
                             "preparing"},
           NEW phase \in {"reserving", "reading", "reacquiring", "lookup",
                          "preparing", "creating"},
           Goto(r, phase)
    PROVE  RowsAt(r)'
<1>1. phase \in Phases
  BY DEF Phases, Submitting
<1>2. req'[r].phase = phase /\ req'[r].next = 1
  BY <1>1, GotoEffect DEF Moved, RowsAt
<1>3. QED
  BY <1>2, RowsAtStart

LEMMA RowsAtChildren ==
    ASSUME TypeOK, NEW r \in Requests, RowsStay, MatchRow(r) = Body[r],
           EnsureChildren(r)
    PROVE  RowsAt(r)'
<1>1. /\ req'[r].phase = "ensuring" /\ req'[r].next = 2
      /\ req'[r].resource = req[r].resource
  BY EnsureChildrenEffect
<1>2. \A i \in 1..3 : i < 2 => i = 1
  OBVIOUS
<1>3. Made(r, 2)
  BY <1>2, ItemsAre DEF Made, MatchRow
<1>4. Made(r, req[r].next)'
  BY <1>1, <1>3, MadeStays DEF Made
<1>5. QED
  BY <1>1, <1>4 DEF RowsAt

LEMMA RowsAtNextItem ==
    ASSUME TypeOK, NEW r \in Requests, RowsAt(r), RowsStay,
           req[r].phase \in {"creating", "ensuring"},
           PutItem(r) \/ (SameCreation(r) /\ UNCHANGED records),
           NEW phase \in {"activating", "completing", "retrying"}, NextItem(r, phase)
    PROVE  RowsAt(r)'
<1>1. phase \in Phases
  BY DEF Phases, Submitting
<1>2. /\ IF req[r].next = 3 THEN Moved(r, phase, 3)
         ELSE Moved(r, req[r].phase, req[r].next + 1)
  BY <1>1, NextItemEffect
<1>3. req'[r].resource = req[r].resource
  BY <1>2 DEF Moved
<1>4. \A i \in 1..3 : i < req[r].next + 1 =>
          rows'[req'[r].resource][Items[i]] = Body[r]
  BY <1>3, MadeNext DEF RowsAt
<1>5. CASE req[r].next = 3
  <2>1. req'[r].phase = phase
    BY <1>2, <1>5 DEF Moved
  <2>2. Made(r, 4)'
    BY <1>4, <1>5 DEF Made
  <2>3. QED
    BY <2>1, <2>2 DEF RowsAt
<1>6. CASE req[r].next # 3
  <2>1. req'[r].phase = req[r].phase /\ req'[r].next = req[r].next + 1
    BY <1>2, <1>6 DEF Moved
  <2>2. Made(r, req[r].next)'
    BY <1>4, <2>1 DEF Made
  <2>3. QED
    BY <2>1, <2>2 DEF RowsAt
<1>7. QED
  BY <1>5, <1>6

\* The run of r itself, action by action.
LEMMA RowsStepSelf ==
    ASSUME KeyInv, NEW r \in Requests, RowsAt(r), Acts(r), Writes(r)
    PROVE  RowsAt(r)'
<1>1. TypeOK
  BY DEF KeyInv
<1>2. RowsStay
  BY <1>1, RowsKept
<1>3. CASE Arrive(r) \/ Crash(r)
  BY <1>1, <1>3, RowsAtGotoStart, RowsAtGotoElsewhere DEF Arrive, Crash
<1>4. CASE Reserve(r)
  BY <1>1, <1>4, RowsAtGotoStart DEF Reserve
<1>5. CASE ReadExisting(r)
  <2>1. \/ Answer(r, "conflict") \/ Answer(r, "accepted") \/ Answer(r, "processing")
        \/ Goto(r, "reacquiring")
    BY <1>5 DEF ReadExisting
  <2>2. QED
    BY <1>1, <1>5, <2>1, RowsAtAnswer, RowsAtGotoStart DEF ReadExisting
<1>6. CASE TryReacquire(r)
  <2>1. CASE Goto(r, "rereading")
    BY <1>1, <2>1, RowsAtGotoElsewhere
  <2>2. CASE ~Goto(r, "rereading")
    <3>1. req'[r] = [phase |-> "lookup", resource |-> idem.resource,
                     next |-> req[r].next, stale |-> req[r].stale]
      BY <1>1, <1>6, <2>2, ReacquireEffect DEF TryReacquire
    <3>2. req[r].next = 1
      BY <1>6 DEF TryReacquire, RowsAt
    <3>3. req'[r].phase = "lookup" /\ req'[r].next = 1
      BY <3>1, <3>2
    <3>4. QED
      BY <3>3, RowsAtStart
  <2>3. QED
    BY <2>1, <2>2
<1>7. CASE ReadAgain(r)
  BY <1>1, <1>7, RowsAtAnswer DEF ReadAgain
<1>8. CASE Lookup(r)
  BY <1>1, <1>2, <1>8, RowsAtGotoStart, RowsAtChildren, RowsAtRaise DEF Lookup
<1>9. CASE EnsurePrepared(r)
  BY <1>1, <1>9, RowsAtGotoStart, RowsAtGotoElsewhere DEF EnsurePrepared
<1>10. CASE EnsureItem(r)
  BY <1>1, <1>2, <1>10, RowsAtNextItem, RowsAtGotoElsewhere DEF EnsureItem
<1>11. CASE Activate(r)
  <2>1. CASE Goto(r, "inspecting")
    BY <1>1, <2>1, RowsAtGotoElsewhere
  <2>2. CASE Goto(r, "completing")
    <3>1. "completing" \in Phases
      BY DEF Phases, Submitting
    <3>2. Moved(r, "completing", req[r].next)
      BY <1>1, <2>2, <3>1, GotoEffect
    <3>3. Made(r, 4)
      BY <1>11 DEF Activate, RowsAt
    <3>4. Made(r, 4)'
      BY <1>1, <1>2, <3>2, <3>3, MadeStays DEF Moved, Made
    <3>5. QED
      BY <3>2, <3>4 DEF Moved, RowsAt
  <2>3. QED
    BY <1>11, <2>1, <2>2 DEF Activate
<1>12. CASE Inspect(r)
  BY <1>1, <1>2, <1>12, RowsAtChildren, RowsAtRaise DEF Inspect
<1>13. CASE EnsureChild(r)
  BY <1>1, <1>2, <1>13, RowsAtNextItem, RowsAtRaise DEF EnsureChild
<1>14. CASE Complete(r)
  BY <1>1, <1>14, RowsAtAnswer, RowsAtRaise DEF Complete
<1>15. CASE MarkRetryable(r)
  BY <1>1, <1>15, RowsAtAnswer DEF MarkRetryable
<1>16. CASE CallFails(r)
  BY <1>1, <1>16, RowsAtRaise DEF CallFails
<1>17. CASE Resend(r)
  <2>1. req' = req
    BY <1>17 DEF Resend
  <2>2. \A n : Made(r, n) => Made(r, n)'
    BY <1>1, <1>2, <2>1, MadeStays DEF Made
  <2>3. QED
    BY <2>1, <2>2 DEF RowsAt
<1>18. QED
  BY <1>3, <1>4, <1>5, <1>6, <1>7, <1>8, <1>9, <1>10, <1>11, <1>12, <1>13, <1>14,
     <1>15, <1>16, <1>17
  DEF Acts, RequestStep

\* Only a run that has made all the records activates the event.
LEMMA DispatchStep ==
    ASSUME KeyInv, RowsInv, NEW r \in Requests, Writes(r)
    PROVE  DispatchAfterRecords'
<1>1. TypeOK /\ RowsAt(r) /\ DispatchAfterRecords
  BY DEF KeyInv, RowsInv
<1>2. RowsStay
  BY <1>1, RowsKept
<1>3. ASSUME NEW x \in Requests, outbox'[x].status = "PENDING", NEW i \in Item
      PROVE  rows'[x][i] # Absent
  <2>1. CASE outbox[x].status = "PENDING"
    BY <1>1, <1>2, <2>1 DEF DispatchAfterRecords, RowsStay
  <2>2. CASE outbox[x].status # "PENDING"
    <3>1. outbox'[x] # outbox[x]
      BY <1>3, <2>2
    <3>2. CASE req[r].phase = "activating" /\ SetPending(r)
      <4>1. x = req[r].resource
        BY <1>1, <3>1, <3>2 DEF SetPending, TypeOK
      <4>2. Made(r, 4)
        BY <1>1, <3>2 DEF RowsAt
      <4>3. \E n \in 1..3 : i = Items[n] /\ n < 4
        BY ItemPositions
      <4>4. rows[x][i] = Body[r]
        BY <4>1, <4>2, <4>3 DEF Made
      <4>5. rows' = rows
        BY <3>2 DEF SetPending
      <4>6. QED
        BY <4>4, <4>5, BodyIsPresent
    <3>3. CASE PutPreparing(r)
      <4>1. outbox' = [outbox EXCEPT ![req[r].resource] =
                          [status |-> "PREPARING", by |-> r]]
        BY <3>3 DEF PutPreparing
      <4>2. outbox'[x] = outbox[x] \/ outbox'[x] = [status |-> "PREPARING", by |-> r]
        BY <1>1, <4>1 DEF TypeOK
      <4>3. QED
        BY <1>3, <3>1, <4>2
    <3>4. CASE UNCHANGED outbox
      BY <3>1, <3>4
    <3>5. QED
      BY <3>2, <3>3, <3>4
      DEF Writes, records, PutReservation, SetReacquired, PutItem, SetCompleted,
          SetRetryable
  <2>3. QED
    BY <2>1, <2>2
<1>4. QED
  BY <1>3 DEF DispatchAfterRecords

\* Only a run that has made all the records completes the key.
LEMMA CompletionStep ==
    ASSUME KeyInv, RowsInv, NEW r \in Requests, Writes(r), idem'.status = "COMPLETED"
    PROVE  \A i \in Item : rows'[idem'.resource][i] = idem'.hash
<1>1. TypeOK /\ RowsAt(r) /\ KeyAt(r)
  BY DEF KeyInv, RowsInv
<1>2. RowsStay
  BY <1>1, RowsKept
<1>3. CASE idem.status = "COMPLETED"
  <2>1. idem' = idem /\ idem.resource \in Requests /\ idem.hash # Absent
    BY <1>1, <1>3, KeyKept, SubmissionAssumption DEF KeyStays, TypeOK, Absent
  <2>2. \A i \in Item : rows[idem.resource][i] = idem.hash
    BY <1>3 DEF RowsInv
  <2>3. QED
    BY <1>2, <2>1, <2>2 DEF RowsStay
<1>4. CASE idem.status # "COMPLETED"
  <2>1. CASE req[r].phase = "completing" /\ SetCompleted(r)
    <3>1. idem' = [idem EXCEPT !.status = "COMPLETED"] /\ rows' = rows
      BY <2>1 DEF SetCompleted
    <3>2. idem'.resource = idem.resource /\ idem'.hash = idem.hash
      BY <1>1, <3>1 DEF TypeOK
    <3>3. Made(r, 4) /\ req[r].resource = idem.resource /\ Body[r] = idem.hash
      BY <1>1, <2>1 DEF RowsAt, KeyAt, Submitting
    <3>4. \A i \in Item : \E n \in 1..3 : i = Items[n] /\ n < 4
      BY ItemPositions
    <3>5. QED
      BY <3>1, <3>2, <3>3, <3>4 DEF Made
  <2>2. CASE PutReservation(r)
    BY <2>2 DEF PutReservation
  <2>3. CASE SetReacquired(r) \/ SetRetryable(r)
    BY <1>1, <2>3 DEF SetReacquired, SetRetryable, TypeOK
  <2>4. CASE UNCHANGED idem
    BY <1>4, <2>4
  <2>5. QED
    BY <2>1, <2>2, <2>3, <2>4
    DEF Writes, records, PutPreparing, PutItem, SetPending
<1>5. QED
  BY <1>3, <1>4

LEMMA RowsStep == KeyInv /\ RowsInv /\ [Next \/ Terminated]_vars => RowsInv'
<1> SUFFICES ASSUME KeyInv, RowsInv, [Next \/ Terminated]_vars PROVE RowsInv'
  OBVIOUS
<1>1. TypeOK
  BY DEF KeyInv
<1>2. ASSUME NEW r \in Requests, Acts(r) PROVE RowsInv'
  <2>1. Writes(r) /\ Only(r)
    BY <1>1, <1>2, ActShape
  <2>2. RowsAt(r)'
    BY <1>2, <2>1, RowsStepSelf DEF RowsInv
  <2>3. ASSUME NEW q \in Requests \ {r} PROVE RowsAt(q)'
    <3>1. req'[q] = req[q] /\ RowsAt(q)
      BY <2>1, <2>3 DEF Only, RowsInv
    <3>2. RowsStay
      BY <1>1, <2>1, RowsKept
    <3>3. \A n : Made(q, n) => Made(q, n)'
      BY <1>1, <3>1, <3>2, MadeStays DEF Made
    <3>4. QED
      BY <3>1, <3>3 DEF RowsAt
  <2>4. DispatchAfterRecords'
    BY <2>1, DispatchStep
  <2>5. idem'.status = "COMPLETED" =>
            \A i \in Item : rows'[idem'.resource][i] = idem'.hash
    BY <2>1, CompletionStep
  <2>6. QED
    BY <2>2, <2>3, <2>4, <2>5 DEF RowsInv
<1>3. CASE UNCHANGED <<idem, outbox, rows, req>>
  BY <1>3 DEF RowsInv, RowsAt, Made, DispatchAfterRecords
<1>4. QED
  BY <1>2, <1>3, Steps DEF WorkerFails, vars

LEMMA InitRows == Init => RowsInv
<1> SUFFICES ASSUME Init PROVE RowsInv
  OBVIOUS
<1>1. \A r \in Requests : RowsAt(r)
  BY DEF Init, RowsAt
<1>2. DispatchAfterRecords
  BY DEF Init, DispatchAfterRecords
<1>3. idem.status # "COMPLETED"
  BY DEF Init
<1>4. QED
  BY <1>1, <1>2, <1>3 DEF RowsInv

LEMMA RowsInvariant == Spec => []RowsInv
<1>1. QED
  BY InitRows, RowsStep, KeyInvariant, PTL DEF Spec

\* The publisher sees an event only when the match and both its children exist,
\* whichever requests have created them (put_items_and_outbox_if_absent).
THEOREM RecordsBeforeDispatch == Spec => []DispatchAfterRecords
<1>1. RowsInv => DispatchAfterRecords
  BY DEF RowsInv
<1>2. QED
  BY <1>1, RowsInvariant, PTL

\* A completed key has its match and both children, created for its body, and so
\* has every client that was told its submission was accepted.
THEOREM CompletionHasRecords == Spec => []CompletedHasRecords
<1>1. KeyInv /\ RowsInv => CompletedHasRecords
  BY DEF KeyInv, KeyAt, RowsInv, CompletedHasRecords
<1>2. QED
  BY <1>1, KeyInvariant, RowsInvariant, PTL

-----------------------------------------------------------------------------
(* Without a fault nothing is lost.                                          *)

\* r holds the reservation: its event and its records are as far as its run.
WorkingAt(r) ==
    \/ /\ req[r].phase \in {"lookup", "preparing"}
       /\ outbox[r].status = "absent"
       /\ \A i \in 1..3 : rows[r][Items[i]] = Absent
    \/ /\ req[r].phase = "creating"
       /\ outbox[r].status = "PREPARING" /\ outbox[r].by = r
       /\ \A i \in 1..3 : i >= req[r].next => rows[r][Items[i]] = Absent
    \/ /\ req[r].phase = "activating"
       /\ outbox[r].status = "PREPARING" /\ outbox[r].by = r
    \/ /\ req[r].phase = "completing"
       /\ outbox[r].status = "PENDING"

Progress ==
    /\ idem.status # "FAILED_RETRYABLE"
    /\ idem.status = "IN_PROGRESS" => WorkingAt(idem.resource)
    /\ idem.status = "COMPLETED" => outbox[idem.resource].status = "PENDING"
    /\ \A r \in Requests :
          /\ req[r].phase \in Submitting =>
                idem.status = "IN_PROGRESS" /\ idem.resource = r
          /\ req[r].phase # "reacquiring"

FaultInv == faults = 0 => Progress

\* A request that does not hold the reservation disturbs nothing.
LEMMA ProgressAside ==
    ASSUME TypeOK, Progress, NEW r \in Requests, Only(r), UNCHANGED records,
           req[r].phase \notin Submitting,
           req'[r].phase \notin Submitting \cup {"reacquiring"}
    PROVE  Progress'
<1>1. idem' = idem /\ outbox' = outbox /\ rows' = rows
  BY DEF records
<1>2. idem.resource \in Requests
  BY DEF TypeOK
<1>3. idem.status = "IN_PROGRESS" => WorkingAt(idem.resource)'
  <2>1. SUFFICES ASSUME idem.status = "IN_PROGRESS" PROVE WorkingAt(idem.resource)'
    OBVIOUS
  <2>2. WorkingAt(idem.resource)
    BY <2>1 DEF Progress
  <2>3. idem.resource # r
    BY <2>2 DEF WorkingAt, Submitting
  <2>4. req'[idem.resource] = req[idem.resource]
    BY <1>2, <2>3 DEF Only
  <2>5. QED
    BY <1>1, <2>2, <2>4 DEF WorkingAt
<1>4. \A q \in Requests : req'[q].phase \in Submitting => req'[q] = req[q]
  BY DEF Only
<1>5. \A q \in Requests : req'[q].phase # "reacquiring"
  BY DEF Only, Progress
<1>6. QED
  BY <1>1, <1>3, <1>4, <1>5 DEF Progress

\* The request that holds the reservation goes on.
LEMMA ProgressOn ==
    ASSUME Progress, NEW r \in Requests, Only(r), req[r].phase \in Submitting,
           idem' = idem, WorkingAt(r)'
    PROVE  Progress'
<1>1. idem.status = "IN_PROGRESS" /\ idem.resource = r
  BY DEF Progress
<1>2. req'[r].phase # "reacquiring"
  BY DEF WorkingAt
<1>3. \A q \in Requests \ {r} : req'[q] = req[q]
  BY DEF Only
<1>4. QED
  BY <1>1, <1>2, <1>3 DEF Progress

\* What holds of the request that holds the reservation.
LEMMA Holder ==
    ASSUME KeyInv, RowsInv, Progress, NEW r \in Requests,
           req[r].phase \in Submitting
    PROVE  /\ idem.status = "IN_PROGRESS" /\ idem.resource = r /\ WorkingAt(r)
           /\ req[r].resource = r /\ idem.hash = Body[r]
           /\ req[r].phase \in {"lookup", "preparing"} => req[r].next = 1
<1>1. idem.status = "IN_PROGRESS" /\ idem.resource = r /\ WorkingAt(r)
  BY DEF Progress
<1>2. req[r].resource = r /\ idem.hash = Body[r]
  BY <1>1 DEF KeyInv, KeyAt
<1>3. req[r].phase \in {"lookup", "preparing"} => req[r].next = 1
  BY DEF RowsInv, RowsAt
<1>4. QED
  BY <1>1, <1>2, <1>3

LEMMA ProgressReserve ==
    ASSUME KeyInv, Progress, NEW r \in Requests, Only(r), Reserve(r)
    PROVE  Progress'
<1>1. TypeOK
  BY DEF KeyInv
<1>2. CASE PutReservation(r) /\ Goto(r, "lookup")
  <2>1. "lookup" \in Phases
    BY DEF Phases, Submitting
  <2>2. req'[r].phase = "lookup"
    BY <1>1, <1>2, <2>1, GotoEffect DEF Moved
  <2>3. idem.status = "none" /\ outbox' = outbox /\ rows' = rows
    BY <1>2 DEF PutReservation
  <2>4. idem'.status = "IN_PROGRESS" /\ idem'.resource = r
    BY <1>2 DEF PutReservation
  <2>5. outbox[r].status = "absent" /\ \A i \in 1..3 : rows[r][Items[i]] = Absent
    BY <2>3, ItemPositions DEF KeyInv, RecordsOfKey
  <2>6. WorkingAt(r)'
    BY <2>2, <2>3, <2>5 DEF WorkingAt
  <2>7. \A q \in Requests \ {r} : /\ req'[q].phase \notin Submitting
                                  /\ req'[q].phase # "reacquiring"
    BY <2>3 DEF Only, Progress
  <2>8. QED
    BY <2>2, <2>4, <2>6, <2>7 DEF Progress
<1>3. CASE Goto(r, "reading") /\ UNCHANGED records
  <2>1. "reading" \in Phases
    BY DEF Phases
  <2>2. req'[r].phase = "reading"
    BY <1>1, <1>3, <2>1, GotoEffect DEF Moved
  <2>3. req[r].phase = "reserving"
    BY DEF Reserve
  <2>4. QED
    BY <1>1, <1>3, <2>2, <2>3, ProgressAside DEF Submitting
<1>4. QED
  BY <1>2, <1>3 DEF Reserve

LEMMA ProgressLookup ==
    ASSUME KeyInv, RowsInv, Progress, NEW r \in Requests, Only(r), Lookup(r)
    PROVE  Progress'
<1>1. req[r].phase = "lookup" /\ req[r].phase \in Submitting /\ "preparing" \in Phases
  BY DEF Lookup, Submitting, Phases
<1>2. /\ outbox[r].status = "absent" /\ \A i \in 1..3 : rows[r][Items[i]] = Absent
      /\ req[r].resource = r
  BY <1>1, Holder DEF WorkingAt
<1>3. MatchRow(r) = Absent /\ MatchRow(r) # Body[r]
  BY <1>2, ItemsAre, BodyIsPresent DEF MatchRow
<1>4. Goto(r, "preparing") /\ UNCHANGED records
  BY <1>3 DEF Lookup
<1>5. req'[r].phase = "preparing"
  BY <1>1, <1>4, GotoEffect DEF Moved, KeyInv
<1>6. WorkingAt(r)' /\ idem' = idem
  BY <1>2, <1>4, <1>5 DEF WorkingAt, records
<1>7. QED
  BY <1>1, <1>6, ProgressOn

LEMMA ProgressPrepare ==
    ASSUME KeyInv, RowsInv, Progress, NEW r \in Requests, Only(r), EnsurePrepared(r)
    PROVE  Progress'
<1>1. req[r].phase = "preparing" /\ req[r].phase \in Submitting /\ "creating" \in Phases
  BY DEF EnsurePrepared, Submitting, Phases
<1>2. /\ outbox[r].status = "absent" /\ \A i \in 1..3 : rows[r][Items[i]] = Absent
      /\ req[r].resource = r
  BY <1>1, Holder DEF WorkingAt
<1>3. PutPreparing(r) /\ Goto(r, "creating")
  BY <1>2 DEF EnsurePrepared, Event
<1>4. req'[r].phase = "creating"
  BY <1>1, <1>3, GotoEffect DEF Moved, KeyInv
<1>5. outbox'[r] = [status |-> "PREPARING", by |-> r] /\ rows' = rows /\ idem' = idem
  BY <1>2, <1>3 DEF PutPreparing, KeyInv, TypeOK
<1>6. outbox'[r].status = "PREPARING" /\ outbox'[r].by = r
  BY <1>5
<1>7. WorkingAt(r)'
  BY <1>2, <1>4, <1>5, <1>6 DEF WorkingAt
<1>8. QED
  BY <1>1, <1>5, <1>7, ProgressOn

LEMMA ProgressItem ==
    ASSUME KeyInv, RowsInv, Progress, NEW r \in Requests, Only(r), EnsureItem(r)
    PROVE  Progress'
<1>1. /\ req[r].phase = "creating" /\ req[r].phase \in Submitting
      /\ "activating" \in Phases /\ TypeOK
  BY DEF EnsureItem, Submitting, Phases, KeyInv
<1>2. /\ outbox[r].status = "PREPARING" /\ outbox[r].by = r
      /\ \A i \in 1..3 : i >= req[r].next => rows[r][Items[i]] = Absent
      /\ req[r].resource = r
  BY <1>1, Holder DEF WorkingAt
<1>3. req[r].next \in 1..3
  BY <1>1, PhaseIsPhase
<1>4. Record(r) = Absent
  BY <1>2, <1>3 DEF Record
<1>5. PutItem(r) /\ NextItem(r, "activating")
  BY <1>4 DEF EnsureItem
<1>6. idem' = idem /\ outbox' = outbox
  BY <1>5 DEF PutItem
<1>7. IF req[r].next = 3 THEN Moved(r, "activating", 3)
      ELSE Moved(r, "creating", req[r].next + 1)
  BY <1>1, <1>5, NextItemEffect
<1>8. CASE req[r].next = 3
  <2>1. WorkingAt(r)'
    BY <1>2, <1>6, <1>7, <1>8 DEF Moved, WorkingAt
  <2>2. QED
    BY <1>1, <1>6, <2>1, ProgressOn
<1>9. CASE req[r].next # 3
  <2>1. req'[r].phase = "creating" /\ req'[r].next = req[r].next + 1
    BY <1>7, <1>9 DEF Moved
  <2>2. ASSUME NEW i \in 1..3, i >= req[r].next + 1 PROVE rows'[r][Items[i]] = Absent
    <3>1. rows[r][Items[i]] = Absent /\ Items[i] \in Item
      BY <1>2, <1>3, <2>2, ItemPositions
    <3>2. Items[i] # Items[req[r].next]
      <4>1. /\ req[r].next = 1 \/ req[r].next = 2 \/ req[r].next = 3
            /\ i = 1 \/ i = 2 \/ i = 3
            /\ i # req[r].next
        BY <1>3, <2>2
      <4>2. QED
        BY <4>1, ItemsAre
    <3>3. QED
      BY <1>1, <1>2, <1>5, <3>1, <3>2 DEF PutItem, TypeOK
  <2>3. WorkingAt(r)'
    BY <1>2, <1>6, <2>1, <2>2 DEF WorkingAt
  <2>4. QED
    BY <1>1, <1>6, <2>3, ProgressOn
<1>10. QED
  BY <1>8, <1>9

LEMMA ProgressActivate ==
    ASSUME KeyInv, RowsInv, Progress, NEW r \in Requests, Only(r), Activate(r)
    PROVE  Progress'
<1>1. /\ req[r].phase = "activating" /\ req[r].phase \in Submitting
      /\ "completing" \in Phases /\ TypeOK
  BY DEF Activate, Submitting, Phases, KeyInv
<1>2. outbox[r].status = "PREPARING" /\ outbox[r].by = r /\ req[r].resource = r
  BY <1>1, Holder DEF WorkingAt
<1>3. SetPending(r) /\ Goto(r, "completing")
  BY <1>2 DEF Activate, Event, SameEvent
<1>4. req'[r].phase = "completing"
  BY <1>1, <1>3, GotoEffect DEF Moved
<1>5. outbox'[r] = [outbox[r] EXCEPT !.status = "PENDING"] /\ idem' = idem
  BY <1>1, <1>2, <1>3 DEF SetPending, TypeOK
<1>6. outbox[r] \in [status : {"absent", "PREPARING", "PENDING"}, by : Requests]
  BY <1>1 DEF TypeOK
<1>7. outbox'[r].status = "PENDING"
  BY <1>5, <1>6
<1>8. WorkingAt(r)'
  BY <1>4, <1>7 DEF WorkingAt
<1>9. QED
  BY <1>1, <1>5, <1>8, ProgressOn

LEMMA ProgressComplete ==
    ASSUME KeyInv, RowsInv, Progress, NEW r \in Requests, Only(r), Complete(r)
    PROVE  Progress'
<1>1. req[r].phase = "completing" /\ req[r].phase \in Submitting /\ TypeOK
  BY DEF Complete, Submitting, KeyInv
<1>2. /\ idem.status = "IN_PROGRESS" /\ idem.resource = r /\ idem.hash = Body[r]
      /\ req[r].resource = r /\ outbox[r].status = "PENDING"
  BY <1>1, Holder DEF WorkingAt
<1>3. SetCompleted(r) /\ Answer(r, "accepted")
  BY <1>2 DEF Complete, HoldsKey
<1>4. req'[r].phase = "done"
  BY <1>1, <1>3, AnswerEffect DEF Moved
<1>5. idem' = [idem EXCEPT !.status = "COMPLETED"] /\ outbox' = outbox
  BY <1>3 DEF SetCompleted
<1>6. idem'.status = "COMPLETED" /\ idem'.resource = r
  BY <1>1, <1>2, <1>5 DEF TypeOK
<1>7. \A q \in Requests : /\ req'[q].phase \notin Submitting
                         /\ req'[q].phase # "reacquiring"
  BY <1>2, <1>4 DEF Only, Progress, Submitting
<1>8. QED
  BY <1>2, <1>5, <1>6, <1>7 DEF Progress

LEMMA ProgressAct ==
    ASSUME KeyInv, RowsInv, Progress, NEW r \in Requests, Acts(r), faults = 0,
           faults' = 0
    PROVE  Progress'
<1>1. Only(r) /\ TypeOK
  BY ActShape DEF KeyInv
<1>2. ~Fault
  BY DEF Fault
<1>3. CASE Arrive(r)
  <2>1. "reserving" \in Phases
    BY DEF Phases
  <2>2. req'[r].phase = "reserving" /\ req[r].phase = "new" /\ UNCHANGED records
    BY <1>1, <1>3, <2>1, GotoEffect DEF Arrive, Moved
  <2>3. QED
    BY <1>1, <2>2, ProgressAside DEF Submitting
<1>4. CASE ReadExisting(r)
  <2>1. \/ Answer(r, "conflict") \/ Answer(r, "accepted") \/ Answer(r, "processing")
    BY <1>4 DEF ReadExisting, Progress
  <2>2. req'[r].phase = "done"
    BY <1>1, <2>1, AnswerEffect DEF Moved
  <2>3. req[r].phase = "reading" /\ UNCHANGED records
    BY <1>4 DEF ReadExisting
  <2>4. QED
    BY <1>1, <2>2, <2>3, ProgressAside DEF Submitting
<1>5. CASE ReadAgain(r)
  <2>1. Answer(r, "accepted") \/ Answer(r, "processing")
    BY <1>5 DEF ReadAgain
  <2>2. req'[r].phase = "done"
    BY <1>1, <2>1, AnswerEffect DEF Moved
  <2>3. req[r].phase = "rereading" /\ UNCHANGED records
    BY <1>5 DEF ReadAgain
  <2>4. QED
    BY <1>1, <2>2, <2>3, ProgressAside DEF Submitting
<1>6. ~TryReacquire(r)
  BY DEF TryReacquire, Progress
<1>7. ~Inspect(r) /\ ~EnsureChild(r) /\ ~MarkRetryable(r)
  <2>1. req[r].phase \in Submitting => WorkingAt(r)
    BY Holder
  <2>2. req[r].phase \notin {"inspecting", "ensuring", "retrying"}
    BY <2>1 DEF WorkingAt, Submitting
  <2>3. QED
    BY <2>2 DEF Inspect, EnsureChild, MarkRetryable
<1>8. QED
  BY <1>1, <1>2, <1>3, <1>4, <1>5, <1>6, <1>7, ProgressReserve, ProgressLookup,
     ProgressPrepare, ProgressItem, ProgressActivate, ProgressComplete
  DEF Acts, RequestStep, CallFails, Resend, Crash

LEMMA FaultStep ==
    KeyInv /\ RowsInv /\ FaultInv /\ [Next \/ Terminated]_vars => FaultInv'
<1> SUFFICES ASSUME KeyInv, RowsInv, FaultInv, [Next \/ Terminated]_vars, faults' = 0
             PROVE Progress'
  BY DEF FaultInv
<1>1. ASSUME NEW r \in Requests, Acts(r) PROVE Progress'
  <2>1. faults \in Nat /\ (faults' = faults \/ faults' = faults + 1)
    BY <1>1, SubmissionAssumption
    DEF KeyInv, TypeOK, Acts, RequestStep, Arrive, Reserve, ReadExisting, TryReacquire,
        ReadAgain, Lookup, EnsurePrepared, EnsureItem, Activate, Inspect, EnsureChild,
        Complete, MarkRetryable, CallFails, Resend, Crash, Fault
  <2>2. faults = 0
    BY <2>1
  <2>3. QED
    BY <1>1, <2>2, ProgressAct DEF FaultInv
<1>2. CASE UNCHANGED <<idem, outbox, rows, req, faults>>
  <2>1. Progress
    BY <1>2 DEF FaultInv
  <2>2. QED
    BY <1>2, <2>1 DEF Progress, WorkingAt
<1>3. QED
  BY <1>1, <1>2, Steps DEF WorkerFails, vars

LEMMA InitFault == Init => FaultInv
  BY DEF Init, FaultInv, Progress, Submitting

\* A key is left in progress with nobody working for it, or completed with its
\* event inactive, only after a crash or a failed or repeated call: overlapping
\* and conflicting requests alone lose nothing.
THEOREM LossesNeedFaults == Spec => []LossNeedsFault
<1>1. KeyInv /\ FaultInv => LossNeedsFault
  <2> SUFFICES ASSUME KeyInv, FaultInv, faults = 0
               PROVE  /\ idem.status = "IN_PROGRESS" =>
                            \E r \in Requests : req[r].phase \in Submitting
                      /\ idem.status = "COMPLETED" =>
                            outbox[idem.resource].status = "PENDING"
    BY DEF LossNeedsFault
  <2>1. Progress /\ idem.resource \in Requests
    BY DEF FaultInv, KeyInv, TypeOK
  <2>2. WorkingAt(idem.resource) => req[idem.resource].phase \in Submitting
    BY DEF WorkingAt, Submitting
  <2>3. QED
    BY <2>1, <2>2 DEF Progress
<1>2. QED
  BY <1>1, InitFault, FaultStep, KeyInvariant, RowsInvariant, PTL DEF Spec
=============================================================================
