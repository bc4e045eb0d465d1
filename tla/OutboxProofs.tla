---------------------------- MODULE OutboxProofs ----------------------------
(***************************************************************************)
(* TLAPS proofs about Outbox: type correctness, the index and delivery      *)
(* invariants, and, when an invocation cannot outlive its lease, exclusive  *)
(* claims and the bound on duplicate messages.                              *)
(***************************************************************************)
EXTENDS Outbox, TLAPS

\* What a step on one task does to every task.
LEMMA SetTaskIsLocal ==
    ASSUME task \in [Publishers -> [Events -> Task]],
           NEW p \in Publishers, NEW e \in Events, NEW t \in Task,
           SetTask(p, e, t)
    PROVE  /\ task' \in [Publishers -> [Events -> Task]]
           /\ task'[p][e] = t
           /\ \A q \in Publishers, f \in Events :
                 q # p \/ f # e => task'[q][f] = task[q][f]
  BY DEF SetTask

\* The abandoned tasks of a run that ended early.
LEMMA DropIsLocal ==
    ASSUME task \in [Publishers -> [Events -> Task]],
           NEW p \in Publishers,
           task' = [task EXCEPT ![p] = [e \in Events |-> NoTask]]
    PROVE  /\ task' \in [Publishers -> [Events -> Task]]
           /\ \A f \in Events : task'[p][f] = NoTask
           /\ \A q \in Publishers, f \in Events :
                 q # p => task'[q][f] = task[q][f]
  BY DEF Task, NoTask, Phase, OutboxStatus

\* The values the steps write are tasks and rows.
LEMMA NoTaskIsTask == NoTask \in Task /\ NoTask.phase = "idle"
  BY DEF NoTask, Task, Phase, OutboxStatus

LEMMA RetryDelayIsNat == \A n \in Nat : retry_delay(n) \in Nat
  BY DelayAssumption DEF retry_delay

LEMMA RowTyped == ASSUME TypeOK, NEW e \in Events PROVE outbox[e] \in Row
  BY DEF TypeOK

LEMMA TaskTyped ==
    ASSUME TypeOK, NEW p \in Publishers, NEW e \in Events
    PROVE  task[p][e] \in Task
  BY DEF TypeOK

LEMMA FaultIsTyped == TypeOK /\ Fault => faults' \in 0..MaxFaults
  BY BoundAssumption DEF TypeOK, Fault

LEMMA LessIsBounded == \A n \in Nat : Less(n) \in 0..n
  BY DEF Less

LEMMA UnclaimedRowIsRow ==
    ASSUME TypeOK, NEW e \in Events, NEW s \in OutboxStatus,
           NEW index \in DispatchableStatus \cup {"NONE"},
           NEW attempts \in Nat, NEW delay \in Nat
    PROVE  UnclaimedRow(e, s, index, attempts, delay) \in Row
  BY DEF TypeOK, Row, UnclaimedRow

LEMMA ClaimedRowIsRow ==
    ASSUME TypeOK, NEW e \in Events PROVE ClaimedRow(e) \in Row
  BY TimingAssumption
  DEF TypeOK, Row, ClaimedRow, OutboxStatus, DispatchableStatus

LEMMA ClaimedTaskIsTask ==
    ASSUME TypeOK, NEW e \in Events PROVE ClaimedTask(e) \in Task
  BY DEF TypeOK, Row, Task, ClaimedTask, Phase, OutboxStatus, DispatchableStatus

LEMMA DeliveredRowIsRow ==
    ASSUME TypeOK, NEW e \in Events PROVE DeliveredRow(e) \in Row
<1>1. outbox[e].deliveryAttempts \in Nat
  BY DEF TypeOK, Row
<1>2. QED
  BY <1>1, UnclaimedRowIsRow DEF DeliveredRow, OutboxStatus

LEMMA FailedRowIsRow ==
    ASSUME TypeOK, NEW e \in Events, NEW n \in Nat PROVE FailedRow(e, n) \in Row
<1>1. retry_delay(n) \in Nat
  BY RetryDelayIsNat
<1>2. outbox[e].deliveryAttempts \in Nat
  BY DEF TypeOK, Row
<1>3. QED
  BY <1>1, <1>2, UnclaimedRowIsRow
  DEF FailedRow, OutboxStatus, DispatchableStatus

-----------------------------------------------------------------------------
\* Type correctness: every row, task and counter keeps its type whatever the
\* interleaving of the publishers, the API and the operator.
THEOREM TypeCorrect == Spec => []TypeOK
<1>1. Init => TypeOK
  BY NoTaskIsTask, BoundAssumption, TimingAssumption
  DEF Init, TypeOK, NoRow, Row, OutboxStatus, DispatchableStatus
<1>2. TypeOK /\ [Next]_vars => TypeOK'
  <2> SUFFICES ASSUME TypeOK, [Next]_vars PROVE TypeOK'
    OBVIOUS
  <2>1. ASSUME NEW e \in Events, Prepare(e) \/ Activate(e) \/ Replay(e)
        PROVE  TypeOK'
    <3>1. outbox' \in [Events -> Row]
      <4>1. [outbox[e] EXCEPT !.status = "PREPARING", !.version = 1] \in Row
        BY RowTyped DEF Row, OutboxStatus
      <4>2. [outbox[e] EXCEPT !.status = "PENDING", !.index = "PENDING"] \in Row
        BY RowTyped DEF Row, OutboxStatus, DispatchableStatus
      <4>3. UnclaimedRow(e, "PENDING", "PENDING", 0, 0) \in Row
        BY UnclaimedRowIsRow DEF OutboxStatus, DispatchableStatus
      <4>4. QED
        BY <2>1, <4>1, <4>2, <4>3 DEF Prepare, Activate, Replay, TypeOK
    <3>2. replays' \in 0..MaxReplays
      BY <2>1, BoundAssumption DEF TypeOK, Prepare, Activate, Replay
    <3>3. QED
      BY <2>1, <3>1, <3>2 DEF TypeOK, Prepare, Activate, Replay
  <2>2. ASSUME NEW p \in Publishers, BeginRun(p)
        PROVE  TypeOK'
    <3>1. PICK batch \in SUBSET Events :
             task' = [task EXCEPT ![p] = [e \in Events |->
                        IF e \in batch
                        THEN ListedTask(e) ELSE NoTask]]
      BY <2>2 DEF BeginRun
    <3>2. task' \in [Publishers -> [Events -> Task]]
      BY <3>1, NoTaskIsTask DEF TypeOK, Task, Row, ListedTask, Phase
    <3>3. runLeft' \in [Publishers -> 0..RunTimeout]
      BY <2>2, TimingAssumption DEF BeginRun, TypeOK
    <3>4. QED
      BY <2>2, <3>2, <3>3 DEF BeginRun, TypeOK
  <2>3. ASSUME NEW p \in Publishers, Crash(p)
        PROVE  TypeOK'
    <3>1. task' \in [Publishers -> [Events -> Task]]
      BY <2>3, DropIsLocal DEF Crash, TypeOK
    <3>2. faults' \in 0..MaxFaults
      BY <2>3, FaultIsTyped DEF Crash
    <3>3. QED
      BY <2>3, <3>1, <3>2 DEF Crash, TypeOK
  <2>4. ASSUME NEW p \in Publishers, NEW e \in Events,
               RunStep(p, e) \/ RunFault(p, e)
        PROVE  TypeOK'
    <3>2. CASE Claim(p, e)
      <4>1. task' \in [Publishers -> [Events -> Task]]
        BY <3>2, ClaimedTaskIsTask, SetTaskIsLocal DEF Claim, TypeOK
      <4>2. QED
        BY <3>2, <4>1, ClaimedRowIsRow DEF Claim, TypeOK
    <3>3. CASE SkipClaim(p, e) \/ MarkFailedStale(p, e)
      BY <3>3, SetTaskIsLocal, NoTaskIsTask
      DEF SkipClaim, MarkFailedStale, TypeOK
    <3>4. CASE ClaimLost(p, e)
      <4>1. task' \in [Publishers -> [Events -> Task]]
        BY <3>4, DropIsLocal DEF ClaimLost, TypeOK
      <4>2. faults' \in 0..MaxFaults
        BY <3>4, FaultIsTyped DEF ClaimLost
      <4>3. QED
        BY <3>4, <4>1, <4>2, ClaimedRowIsRow DEF ClaimLost, TypeOK
    <3>5. ASSUME NEW ph \in {"sent", "failing"},
                 SetTask(p, e, [task[p][e] EXCEPT !.phase = ph])
          PROVE  task' \in [Publishers -> [Events -> Task]]
      <4>1. [task[p][e] EXCEPT !.phase = ph] \in Task
        BY TaskTyped DEF Task, Phase
      <4>2. QED
        BY <3>5, <4>1, SetTaskIsLocal DEF TypeOK
    <3>6. CASE Publish(p, e) \/ PublishRefused(p, e) \/ MarkDeliveredStale(p, e)
      <4>1. task' \in [Publishers -> [Events -> Task]]
        BY <3>6, <3>5 DEF Publish, PublishRefused, MarkDeliveredStale
      <4>2. QED
        <5>1. CASE Publish(p, e)
          BY <5>1, <4>1 DEF Publish, TypeOK
        <5>2. CASE PublishRefused(p, e) \/ MarkDeliveredStale(p, e)
          BY <5>2, <4>1 DEF PublishRefused, MarkDeliveredStale, TypeOK
        <5>3. QED
          BY <3>6, <5>1, <5>2
    <3>7. CASE PublishLost(p, e)
      BY <3>7, <3>5, FaultIsTyped DEF PublishLost, TypeOK
    <3>8. CASE MarkDelivered(p, e)
      BY <3>8, SetTaskIsLocal, NoTaskIsTask, DeliveredRowIsRow
      DEF MarkDelivered, TypeOK
    <3>9. CASE MarkDeliveredLost(p, e)
      <4>1. task' \in [Publishers -> [Events -> Task]]
        BY <3>9, <3>5 DEF MarkDeliveredLost
      <4>2. outbox' \in [Events -> Row]
        BY <3>9, DeliveredRowIsRow DEF MarkDeliveredLost, TypeOK
      <4>3. QED
        BY <3>9, <4>1, <4>2, FaultIsTyped DEF MarkDeliveredLost, TypeOK
    <3>10. CASE MarkFailed(p, e)
      <4>1. task[p][e].tries \in Nat
        BY DEF TypeOK, Task
      <4>2. FailedRow(e, task[p][e].tries) \in Row
        BY <4>1, FailedRowIsRow
      <4>3. task' \in [Publishers -> [Events -> Task]]
        BY <3>10, SetTaskIsLocal, NoTaskIsTask DEF MarkFailed, TypeOK
      <4>4. QED
        BY <3>10, <4>2, <4>3 DEF MarkFailed, TypeOK
    <3>11. CASE MarkFailedLost(p, e)
      BY <3>11, SetTaskIsLocal, NoTaskIsTask, FaultIsTyped
      DEF MarkFailedLost, TypeOK
    <3>12. QED
      BY <2>4, <3>2, <3>3, <3>4, <3>6, <3>7, <3>8, <3>9, <3>10, <3>11
      DEF RunStep, RunFault
  <2>5. CASE Tick
    <3>1. outbox' \in [Events -> Row]
      <4>1. ASSUME NEW e \in Events
            PROVE  [outbox[e] EXCEPT !.retryIn = Less(@), !.leaseIn = Less(@)] \in Row
        <5>1. outbox[e].retryIn \in Nat /\ outbox[e].leaseIn \in Nat
          BY RowTyped DEF Row
        <5>2. Less(outbox[e].retryIn) \in Nat /\ Less(outbox[e].leaseIn) \in Nat
          BY <5>1, LessIsBounded
        <5>3. QED
          BY <5>2, RowTyped DEF Row
      <4>2. QED
        BY <2>5, <4>1 DEF Tick
    <3>2. runLeft' \in [Publishers -> 0..RunTimeout]
      <4>1. ASSUME NEW p \in Publishers PROVE Less(runLeft[p]) \in 0..RunTimeout
        BY TimingAssumption, LessIsBounded DEF TypeOK
      <4>2. QED
        BY <2>5, <4>1 DEF Tick
    <3>3. QED
      BY <2>5, <3>1, <3>2 DEF Tick, TypeOK
  <2>6. CASE UNCHANGED vars
    BY <2>6 DEF vars, TypeOK
  <2>7. QED
    BY <2>1, <2>2, <2>3, <2>4, <2>5, <2>6 DEF Next
<1>3. QED
  BY <1>1, <1>2, PTL DEF Spec

-----------------------------------------------------------------------------
\* The sparse index holds a row exactly under its dispatchable status, at every
\* point between the calls of any number of publishers.
THEOREM IndexCorrect == Spec => []IndexMatchesStatus
<1>1. Init => IndexMatchesStatus
  BY DEF Init, IndexMatchesStatus, NoRow, DispatchableStatus
<1>2. TypeOK /\ IndexMatchesStatus /\ [Next]_vars => IndexMatchesStatus'
  <2> SUFFICES ASSUME TypeOK, IndexMatchesStatus, [Next]_vars,
                      NEW f \in Events
               PROVE  outbox'[f].index =
                        IF outbox'[f].status \in DispatchableStatus
                        THEN outbox'[f].status ELSE "NONE"
    BY DEF IndexMatchesStatus
  <2> USE DEF DispatchableStatus
  <2>1. outbox[f].index = IF outbox[f].status \in DispatchableStatus
                          THEN outbox[f].status ELSE "NONE"
    BY DEF IndexMatchesStatus
  <2>2. outbox[f] \in Row
    BY RowTyped
  <2>3. ASSUME NEW e \in Events, NEW s \in OutboxStatus, NEW n, NEW d,
               NEW index, index = IF s \in DispatchableStatus THEN s ELSE "NONE",
               outbox' = [outbox EXCEPT ![e] = UnclaimedRow(e, s, index, n, d)]
        PROVE  outbox'[f].index = IF outbox'[f].status \in DispatchableStatus
                                  THEN outbox'[f].status ELSE "NONE"
    BY <2>1, <2>3 DEF UnclaimedRow, TypeOK
  <2>4. ASSUME NEW e \in Events, outbox' = [outbox EXCEPT ![e] = ClaimedRow(e)]
        PROVE  outbox'[f].index = IF outbox'[f].status \in DispatchableStatus
                                  THEN outbox'[f].status ELSE "NONE"
    BY <2>1, <2>4 DEF ClaimedRow, TypeOK
  <2>5. CASE \E e \in Events : Prepare(e) \/ Activate(e)
    <3>1. PICK e \in Events : Prepare(e) \/ Activate(e)
      BY <2>5
    <3>2. outbox \in [Events -> Row] /\ outbox[e] \in Row
      BY DEF TypeOK
    <3>3. CASE Prepare(e)
      BY <2>1, <3>2, <3>3 DEF Prepare, Row
    <3>4. CASE Activate(e)
      BY <2>1, <3>2, <3>4 DEF Activate, Row
    <3>5. QED
      BY <3>1, <3>3, <3>4
  <2>6. CASE \E e \in Events : Replay(e)
    BY <2>3, <2>6 DEF Replay, OutboxStatus
  <2>7. CASE \E p \in Publishers, e \in Events : Claim(p, e) \/ ClaimLost(p, e)
    BY <2>4, <2>7 DEF Claim, ClaimLost
  <2>8. CASE \E p \in Publishers, e \in Events :
                MarkDelivered(p, e) \/ MarkDeliveredLost(p, e)
    BY <2>1, <2>3, <2>8
    DEF MarkDelivered, MarkDeliveredLost, DeliveredRow, OutboxStatus
  <2>9. CASE \E p \in Publishers, e \in Events : MarkFailed(p, e)
    BY <2>3, <2>9 DEF MarkFailed, FailedRow, OutboxStatus
  <2>10. CASE Tick
    BY <2>1, <2>2, <2>10 DEF Tick, Row
  <2>11. CASE UNCHANGED outbox
    BY <2>1, <2>11
  <2>12. QED
    BY <2>5, <2>6, <2>7, <2>8, <2>9, <2>10, <2>11
    DEF Next, vars, BeginRun, Crash, RunStep, RunFault, SkipClaim, Publish,
        PublishRefused, MarkDeliveredStale, MarkFailedStale, PublishLost,
        MarkFailedLost
<1>3. QED
  BY <1>1, <1>2, TypeCorrect, PTL DEF Spec

-----------------------------------------------------------------------------
(* Exclusive claims.  OneHolder alone is not inductive: that a second claim  *)
(* fails follows from the first holder's lease still running, hence          *)
(* ClaimOutlivesRun, and from listings containing dispatchable rows only.    *)

ListedDispatchable ==
    \A p \in Publishers, e \in Events :
        task[p][e].phase = "listed" => task[p][e].status \in DispatchableStatus

ExclusiveInv == ListedDispatchable /\ ClaimOutlivesRun /\ OneHolder

\* Only a DISPATCHING row, or a DELIVERED one, has a holder.
LEMMA HeldRow ==
    ASSUME ClaimOutlivesRun, NEW q \in Publishers, NEW e \in Events, Holds(q, e)
    PROVE  outbox[e].status \in {"DISPATCHING", "DELIVERED"}
  BY DEF ClaimOutlivesRun, OwnsAttempt

\* A claim that succeeds finds no holder.
LEMMA ClaimFindsNoHolder ==
    ASSUME TypeOK, ExclusiveInv, NEW p \in Publishers, NEW e \in Events,
           task[p][e].phase = "listed", ClaimCondition(e, task[p][e]),
           NEW q \in Publishers
    PROVE  ~Holds(q, e)
<1> SUFFICES ASSUME Holds(q, e) PROVE FALSE
  OBVIOUS
<1>1. outbox[e].status \in DispatchableStatus
  BY DEF ExclusiveInv, ListedDispatchable, ClaimCondition
<1>2. OwnsAttempt(q, e) /\ outbox[e].leaseIn > runLeft[q]
  BY <1>1 DEF ExclusiveInv, ClaimOutlivesRun, DispatchableStatus
<1>3. outbox[e].leaseIn = 0
  BY <1>2 DEF OwnsAttempt, ClaimCondition
<1>4. runLeft[q] \in Nat
  BY TimingAssumption DEF TypeOK
<1>5. QED
  BY <1>2, <1>3, <1>4

\* The clock only runs the countdowns of a row down.
LEMMA TickKeepsRows ==
    ASSUME TypeOK, Tick, NEW f \in Events
    PROVE  /\ outbox'[f].status = outbox[f].status
           /\ outbox'[f].attempt = outbox[f].attempt
           /\ outbox'[f].leaseIn = Less(outbox[f].leaseIn)
           /\ outbox[f].leaseIn \in Nat
<1>1. outbox'[f] = [outbox[f] EXCEPT !.retryIn = Less(@), !.leaseIn = Less(@)]
  BY DEF Tick
<1>2. outbox[f] \in Row
  BY RowTyped
<1>3. QED
  BY <1>1, <1>2 DEF Row

\* A step that leaves the rows alone and starts no claim keeps ExclusiveInv.
LEMMA TasksOnlyShrink ==
    ASSUME ExclusiveInv, UNCHANGED <<outbox, runLeft>>,
           \A q \in Publishers, f \in Events :
              \/ task'[q][f] = task[q][f]
              \/ task'[q][f].phase = "idle"
              \/ /\ task'[q][f].phase \in {"sent", "failing"}
                 /\ task'[q][f].attempt = task[q][f].attempt
                 /\ \/ task[q][f].phase = "claimed"
                    \/ task[q][f].phase = "sent" /\ task'[q][f].phase = "failing"
    PROVE  ExclusiveInv'
  BY DEF ExclusiveInv, ListedDispatchable, ClaimOutlivesRun, OneHolder, Holds,
         OwnsAttempt

\* The update of one row by the publisher that holds it.
LEMMA HolderUpdates ==
    ASSUME TypeOK, ExclusiveInv, NEW p \in Publishers, NEW e \in Events,
           Holds(p, e), UNCHANGED runLeft,
           \A f \in Events : f # e => outbox'[f] = outbox[f],
           \A q \in Publishers, f \in Events :
              q # p \/ f # e => task'[q][f] = task[q][f],
           \/ task'[p][e].phase = "idle"
           \/ task'[p][e].phase = "failing" /\ outbox'[e].status = "DELIVERED"
    PROVE  ExclusiveInv'
<1>1. \A q \in Publishers : Holds(q, e) => q = p
  BY DEF ExclusiveInv, OneHolder
<1>2. QED
  BY <1>1
  DEF ExclusiveInv, ListedDispatchable, ClaimOutlivesRun, OneHolder, Holds,
      OwnsAttempt

\* While Lambda kills an invocation before its lease can run out, every claim is
\* exclusive: overlapping schedules, stale listings, crashes and replays never
\* give one event to two invocations at once.
THEOREM ExclusiveClaims ==
    ASSUME RunTimeout < Lease
    PROVE  Spec => []ExclusiveInv
<1>1. Init => ExclusiveInv
  BY NoTaskIsTask
  DEF Init, ExclusiveInv, ListedDispatchable, ClaimOutlivesRun, OneHolder, Holds
<1>2. TypeOK /\ TypeOK' /\ IndexMatchesStatus /\ ExclusiveInv /\ [Next]_vars
        => ExclusiveInv'
  <2> SUFFICES ASSUME TypeOK, TypeOK', IndexMatchesStatus, ExclusiveInv,
                      [Next]_vars
               PROVE  ExclusiveInv'
    OBVIOUS
  <2>1. ASSUME NEW e \in Events, Prepare(e) \/ Activate(e) \/ Replay(e)
        PROVE  ExclusiveInv'
    <3>1. \A q \in Publishers : ~Holds(q, e)
      BY <2>1, HeldRow DEF Prepare, Activate, Replay, ExclusiveInv
    <3>2. \A f \in Events : f # e => outbox'[f] = outbox[f]
      BY <2>1 DEF Prepare, Activate, Replay, TypeOK
    <3>3. UNCHANGED <<task, runLeft>>
      BY <2>1 DEF Prepare, Activate, Replay
    <3>4. QED
      BY <3>1, <3>2, <3>3
      DEF ExclusiveInv, ListedDispatchable, ClaimOutlivesRun, OneHolder, Holds,
          OwnsAttempt
  <2>2. ASSUME NEW p \in Publishers, BeginRun(p)
        PROVE  ExclusiveInv'
    <3>1. PICK batch \in SUBSET Events :
             /\ IsListing(batch)
             /\ task' = [task EXCEPT ![p] = [e \in Events |->
                           IF e \in batch THEN ListedTask(e) ELSE NoTask]]
      BY <2>2 DEF BeginRun
    <3>2. \A e \in batch : outbox[e].status \in DispatchableStatus
      BY <3>1 DEF IsListing, IsDispatchable, IndexMatchesStatus
    <3>3. \A e \in Events :
            /\ task'[p][e].phase \in {"listed", "idle"}
            /\ task'[p][e].phase = "listed" =>
                  task'[p][e].status \in DispatchableStatus
      BY <3>1, <3>2, NoTaskIsTask DEF TypeOK, ListedTask
    <3>4. \A q \in Publishers, f \in Events : q # p =>
             task'[q][f] = task[q][f] /\ runLeft'[q] = runLeft[q]
      BY <3>1, <2>2 DEF BeginRun, TypeOK
    <3>5. UNCHANGED outbox
      BY <2>2 DEF BeginRun
    <3>6. QED
      BY <3>3, <3>4, <3>5
      DEF ExclusiveInv, ListedDispatchable, ClaimOutlivesRun, OneHolder, Holds,
          OwnsAttempt
  <2>3. ASSUME NEW p \in Publishers, Crash(p)
        PROVE  ExclusiveInv'
    BY <2>3, DropIsLocal, NoTaskIsTask, TasksOnlyShrink DEF Crash, TypeOK
  <2>4. ASSUME NEW p \in Publishers, NEW e \in Events,
               Claim(p, e) \/ ClaimLost(p, e)
        PROVE  ExclusiveInv'
    <3>1. \A q \in Publishers : ~Holds(q, e)
      BY <2>4, ClaimFindsNoHolder DEF Claim, ClaimLost
    <3>2. /\ outbox'[e] = ClaimedRow(e)
          /\ \A f \in Events : f # e => outbox'[f] = outbox[f]
          /\ UNCHANGED runLeft
      BY <2>4 DEF Claim, ClaimLost, TypeOK
    <3>3. \A q \in Publishers, f \in Events :
             \/ task'[q][f] = task[q][f] /\ (q # p \/ f # e)
             \/ task'[q][f] = NoTask
             \/ q = p /\ f = e /\ task'[q][f] = ClaimedTask(e)
      <4>1. CASE Claim(p, e)
        BY <4>1, ClaimedTaskIsTask, SetTaskIsLocal DEF Claim, TypeOK
      <4>2. CASE ClaimLost(p, e)
        BY <4>2, DropIsLocal DEF ClaimLost, TypeOK
      <4>3. QED
        BY <2>4, <4>1, <4>2
    <3>4. Lease > runLeft[p]
      BY TimingAssumption DEF TypeOK
    <3>5. ClaimedTask(e).phase = "claimed" /\ ClaimedTask(e).attempt = issued[e] + 1
      BY DEF ClaimedTask
    <3>6. /\ ClaimedRow(e).status = "DISPATCHING"
          /\ ClaimedRow(e).attempt = issued[e] + 1
          /\ ClaimedRow(e).leaseIn = Lease
      BY DEF ClaimedRow
    <3>7. ListedDispatchable'
      BY <3>3, <3>5, NoTaskIsTask DEF ExclusiveInv, ListedDispatchable
    <3>8. \A q \in Publishers, f \in Events : Holds(q, f)' =>
             \/ f # e /\ Holds(q, f) /\ task'[q][f] = task[q][f]
             \/ q = p /\ f = e /\ task'[q][f] = ClaimedTask(e)
      BY <3>1, <3>3, NoTaskIsTask DEF Holds
    <3>9. ClaimOutlivesRun'
      BY <3>2, <3>4, <3>5, <3>6, <3>8 DEF ExclusiveInv, ClaimOutlivesRun, OwnsAttempt
    <3>10. OneHolder'
      BY <3>8 DEF ExclusiveInv, OneHolder
    <3>11. QED
      BY <3>7, <3>9, <3>10 DEF ExclusiveInv
  <2>5. ASSUME NEW p \in Publishers, NEW e \in Events,
               \/ SkipClaim(p, e) \/ MarkFailedStale(p, e) \/ MarkFailedLost(p, e)
        PROVE  ExclusiveInv'
    BY <2>5, SetTaskIsLocal, NoTaskIsTask, TasksOnlyShrink
    DEF SkipClaim, MarkFailedStale, MarkFailedLost, TypeOK
  <2>6. ASSUME NEW p \in Publishers, NEW e \in Events,
               \/ Publish(p, e) \/ PublishRefused(p, e)
               \/ PublishLost(p, e) \/ MarkDeliveredStale(p, e)
        PROVE  ExclusiveInv'
    <3>1. PICK ph \in {"sent", "failing"} :
             /\ SetTask(p, e, [task[p][e] EXCEPT !.phase = ph])
             /\ \/ task[p][e].phase = "claimed"
                \/ task[p][e].phase = "sent" /\ ph = "failing"
      BY <2>6 DEF Publish, PublishRefused, PublishLost, MarkDeliveredStale
    <3>2. /\ [task[p][e] EXCEPT !.phase = ph] \in Task
          /\ [task[p][e] EXCEPT !.phase = ph].phase = ph
          /\ [task[p][e] EXCEPT !.phase = ph].attempt = task[p][e].attempt
      BY TaskTyped DEF Task, Phase
    <3>3. UNCHANGED <<outbox, runLeft>>
      BY <2>6 DEF Publish, PublishRefused, PublishLost, MarkDeliveredStale
    <3>4. QED
      <4>1. PICK t \in Task : /\ SetTask(p, e, t)
                              /\ t.phase = ph /\ t.attempt = task[p][e].attempt
        BY <3>1, <3>2
      <4>2. /\ task'[p][e].phase = ph /\ task'[p][e].attempt = task[p][e].attempt
            /\ \A q \in Publishers, f \in Events :
                  q # p \/ f # e => task'[q][f] = task[q][f]
        BY <4>1, SetTaskIsLocal DEF TypeOK
      <4>3. QED
        BY <3>1, <3>3, <4>2, TasksOnlyShrink
  <2>7. ASSUME NEW p \in Publishers, NEW e \in Events,
               MarkDelivered(p, e) \/ MarkFailed(p, e)
        PROVE  ExclusiveInv'
    <3>1. Holds(p, e)
      BY <2>7 DEF MarkDelivered, MarkFailed, Holds
    <3>2. UNCHANGED runLeft /\ \A f \in Events : f # e => outbox'[f] = outbox[f]
      BY <2>7 DEF MarkDelivered, MarkFailed, TypeOK
    <3>3. SetTask(p, e, NoTask)
      BY <2>7 DEF MarkDelivered, MarkFailed
    <3>4. QED
      <4>1. /\ task'[p][e].phase = "idle"
            /\ \A q \in Publishers, f \in Events :
                  q # p \/ f # e => task'[q][f] = task[q][f]
        BY <3>3, NoTaskIsTask, SetTaskIsLocal DEF TypeOK
      <4>2. QED
        BY <3>1, <3>2, <4>1, HolderUpdates
  <2>8. ASSUME NEW p \in Publishers, NEW e \in Events, MarkDeliveredLost(p, e)
        PROVE  ExclusiveInv'
    <3>1. /\ task'[p][e].phase = "failing"
          /\ task'[p][e].attempt = task[p][e].attempt
          /\ \A q \in Publishers, f \in Events :
                q # p \/ f # e => task'[q][f] = task[q][f]
      <4>1. [task[p][e] EXCEPT !.phase = "failing"] \in Task
        BY TaskTyped DEF Task, Phase
      <4>2. QED
        BY <2>8, <4>1, TaskTyped, SetTaskIsLocal DEF MarkDeliveredLost, TypeOK, Task
    <3>2. CASE UNCHANGED outbox
      BY <2>8, <3>1, <3>2, TasksOnlyShrink DEF MarkDeliveredLost
    <3>3. CASE outbox' = [outbox EXCEPT ![e] = DeliveredRow(e)]
      <4>1. /\ outbox'[e].status = "DELIVERED"
            /\ \A f \in Events : f # e => outbox'[f] = outbox[f]
        BY <3>3 DEF TypeOK, DeliveredRow, UnclaimedRow
      <4>2. Holds(p, e) /\ UNCHANGED runLeft
        BY <2>8 DEF MarkDeliveredLost, Holds
      <4>3. QED
        BY <3>1, <4>1, <4>2, HolderUpdates
    <3>4. QED
      BY <2>8, <3>2, <3>3 DEF MarkDeliveredLost
  <2>9. CASE Tick
    <3>1. \A q \in Publishers, f \in Events :
             Holds(q, f) => runLeft[q] > 0 /\ runLeft'[q] = runLeft[q] - 1
      <4> SUFFICES ASSUME NEW q \in Publishers, NEW f \in Events, Holds(q, f)
                   PROVE  runLeft[q] > 0 /\ runLeft'[q] = runLeft[q] - 1
        OBVIOUS
      <4>1. Running(q)
        BY DEF Running, Holds
      <4>2. runLeft[q] > 0 /\ runLeft'[q] = Less(runLeft[q])
        BY <2>9, <4>1 DEF Tick
      <4>3. QED
        BY <4>2 DEF Less
    <3>2. \A f \in Events :
             /\ outbox'[f].status = outbox[f].status
             /\ outbox'[f].attempt = outbox[f].attempt
             /\ outbox'[f].leaseIn = Less(outbox[f].leaseIn)
             /\ outbox[f].leaseIn \in Nat
      BY <2>9, TickKeepsRows
    <3>3. \A q \in Publishers : runLeft[q] \in Nat
      BY TimingAssumption DEF TypeOK
    <3>4. \A q \in Publishers, f \in Events :
             Holds(q, f) /\ outbox[f].leaseIn > runLeft[q] =>
                outbox'[f].leaseIn > runLeft'[q]
      BY <3>1, <3>2, <3>3 DEF Less
    <3>5. UNCHANGED task
      BY <2>9 DEF Tick
    <3>6. QED
      BY <3>2, <3>4, <3>5
      DEF ExclusiveInv, ListedDispatchable, ClaimOutlivesRun, OneHolder, Holds,
          OwnsAttempt
  <2>10. CASE UNCHANGED vars
    BY <2>10 DEF vars, ExclusiveInv, ListedDispatchable, ClaimOutlivesRun,
                 OneHolder, Holds, OwnsAttempt
  <2>11. QED
    BY <2>1, <2>2, <2>3, <2>4, <2>5, <2>6, <2>7, <2>8, <2>9, <2>10
    DEF Next, RunStep, RunFault
<1>3. QED
  BY <1>1, <1>2, TypeCorrect, IndexCorrect, PTL DEF Spec

\* Two invocations never work on one event at the same time.
THEOREM AtMostOneHolder ==
    ASSUME RunTimeout < Lease
    PROVE  Spec => []OneHolder
<1>1. ExclusiveInv => OneHolder
  BY DEF ExclusiveInv
<1>2. QED
  BY <1>1, ExclusiveClaims, PTL

\* A running invocation's claims stay current until it records their outcome.
THEOREM ClaimsOutliveRuns ==
    ASSUME RunTimeout < Lease
    PROVE  Spec => []ClaimOutlivesRun
<1>1. ExclusiveInv => ClaimOutlivesRun
  BY DEF ExclusiveInv
<1>2. QED
  BY <1>1, ExclusiveClaims, PTL

-----------------------------------------------------------------------------
(* Duplicates.  Each fault can leave one message behind that no row accounts *)
(* for; all other messages are the current attempt's or the delivered one.   *)

Accounted(e) ==
    \/ outbox[e].status = "DELIVERED"
    \/ \E p \in Publishers : task[p][e].phase = "sent"

SentInv ==
    \A e \in Events :
        /\ sent[e] <= faults + 1
        /\ ~Accounted(e) => sent[e] <= faults

\* A step without a fault and without a new message keeps SentInv when it
\* leaves every accounted message accounted for.
LEMMA QuietStep ==
    ASSUME SentInv, UNCHANGED <<sent, faults>>,
           \A e \in Events : Accounted(e) => Accounted(e)'
    PROVE  SentInv'
  BY DEF SentInv

\* A fault pays for whatever message its step leaves unaccounted.
LEMMA FaultStep ==
    ASSUME TypeOK, SentInv, Fault, UNCHANGED sent
    PROVE  SentInv'
<1>1. faults \in Nat /\ faults' = faults + 1
  BY BoundAssumption DEF TypeOK, Fault
<1>2. \A e \in Events : sent[e] \in Nat
  BY DEF TypeOK
<1>3. QED
  BY <1>1, <1>2 DEF SentInv

\* Before the claimed event is published, its earlier messages are all paid for.
LEMMA ClaimedIsUnaccounted ==
    ASSUME ExclusiveInv, NEW p \in Publishers, NEW e \in Events,
           task[p][e].phase = "claimed"
    PROVE  ~Accounted(e)
<1>1. Holds(p, e)
  BY DEF Holds
<1>2. outbox[e].status # "DELIVERED"
  BY <1>1 DEF ExclusiveInv, ClaimOutlivesRun, OwnsAttempt
<1>3. \A q \in Publishers : task[q][e].phase # "sent"
  BY <1>1 DEF ExclusiveInv, OneHolder, Holds
<1>4. QED
  BY <1>2, <1>3 DEF Accounted

\* The number of messages an event puts on the queue never exceeds one plus the
\* number of faults.
THEOREM DuplicatesNeedFaults ==
    ASSUME RunTimeout < Lease
    PROVE  Spec => []DuplicateNeedsFault
<1>1. Init => SentInv
  BY DEF Init, SentInv
<1>2. TypeOK /\ TypeOK' /\ ExclusiveInv /\ SentInv /\ [Next]_vars => SentInv'
  <2> SUFFICES ASSUME TypeOK, TypeOK', ExclusiveInv, SentInv, [Next]_vars
               PROVE  SentInv'
    OBVIOUS
  <2>1. ASSUME NEW e \in Events, Prepare(e) \/ Activate(e) \/ Replay(e)
        PROVE  SentInv'
    BY <2>1, QuietStep DEF Prepare, Activate, Replay, Accounted, TypeOK
  <2>2. ASSUME NEW p \in Publishers, BeginRun(p)
        PROVE  SentInv'
    <3>1. \A f \in Events : task[p][f].phase # "sent"
      BY <2>2 DEF BeginRun, Running
    <3>2. \A q \in Publishers, f \in Events : q # p => task'[q][f] = task[q][f]
      BY <2>2 DEF BeginRun, TypeOK
    <3>3. UNCHANGED <<outbox, sent, faults>>
      BY <2>2 DEF BeginRun
    <3>4. QED
      BY <3>1, <3>2, <3>3, QuietStep DEF Accounted
  <2>3. CASE \/ \E p \in Publishers : Crash(p)
             \/ \E p \in Publishers, e \in Events :
                   \/ ClaimLost(p, e) \/ MarkDeliveredLost(p, e)
                   \/ MarkFailedLost(p, e)
    BY <2>3, FaultStep DEF Crash, ClaimLost, MarkDeliveredLost, MarkFailedLost
  <2>4. ASSUME NEW p \in Publishers, NEW e \in Events,
               Publish(p, e) \/ PublishLost(p, e)
        PROVE  SentInv'
    <3>1. task[p][e].phase = "claimed"
      BY <2>4 DEF Publish, PublishLost
    <3>2. sent[e] <= faults
      BY <3>1, ClaimedIsUnaccounted DEF SentInv
    <3>3. sent' = [sent EXCEPT ![e] = @ + 1] /\ UNCHANGED outbox
      BY <2>4 DEF Publish, PublishLost
    <3>4. faults \in Nat /\ sent \in [Events -> Nat]
      BY BoundAssumption DEF TypeOK
    <3>5. \A q \in Publishers, f \in Events :
             q # p \/ f # e => task'[q][f] = task[q][f]
      BY <2>4 DEF Publish, PublishLost, SetTask, TypeOK
    <3>6. \A f \in Events : f # e /\ Accounted(f) => Accounted(f)'
      BY <3>3, <3>5 DEF Accounted
    <3>7. CASE Publish(p, e)
      <4>1. task'[p][e].phase = "sent"
        BY <3>7, TaskTyped DEF Publish, SetTask, TypeOK, Task
      <4>2. Accounted(e)' /\ UNCHANGED faults
        BY <3>7, <4>1 DEF Accounted, Publish
      <4>3. QED
        BY <3>2, <3>3, <3>4, <3>6, <4>2 DEF SentInv
    <3>8. CASE PublishLost(p, e)
      <4>1. faults' = faults + 1
        BY <3>8 DEF PublishLost, Fault
      <4>2. QED
        BY <3>2, <3>3, <3>4, <3>6, <4>1 DEF SentInv
    <3>9. QED
      BY <2>4, <3>7, <3>8
  <2>5. ASSUME NEW p \in Publishers, NEW e \in Events,
               \/ Claim(p, e) \/ SkipClaim(p, e) \/ PublishRefused(p, e)
               \/ MarkFailed(p, e) \/ MarkFailedStale(p, e)
        PROVE  SentInv'
    <3>1. task[p][e].phase # "sent"
      BY <2>5 DEF Claim, SkipClaim, PublishRefused, MarkFailed, MarkFailedStale
    <3>2. \A q \in Publishers, f \in Events :
             q # p \/ f # e => task'[q][f] = task[q][f]
      BY <2>5 DEF Claim, SkipClaim, PublishRefused, MarkFailed, MarkFailedStale,
                  SetTask, TypeOK
    <3>3. \A f \in Events :
             outbox[f].status = "DELIVERED" => outbox'[f].status = "DELIVERED"
      <4>1. CASE Claim(p, e)
        <5>1. outbox[e].status # "DELIVERED"
          BY <4>1 DEF Claim, ClaimCondition, ExclusiveInv, ListedDispatchable,
                      DispatchableStatus
        <5>2. QED
          BY <4>1, <5>1 DEF Claim, TypeOK
      <4>2. CASE MarkFailed(p, e)
        BY <4>2 DEF MarkFailed, OwnsAttempt, TypeOK
      <4>3. QED
        BY <2>5, <4>1, <4>2 DEF SkipClaim, PublishRefused, MarkFailedStale
    <3>4. UNCHANGED <<sent, faults>>
      BY <2>5 DEF Claim, SkipClaim, PublishRefused, MarkFailed, MarkFailedStale
    <3>5. QED
      BY <3>1, <3>2, <3>3, <3>4, QuietStep DEF Accounted
  <2>6. ASSUME NEW p \in Publishers, NEW e \in Events, MarkDelivered(p, e)
        PROVE  SentInv'
    <3>1. outbox'[e].status = "DELIVERED"
      BY <2>6 DEF MarkDelivered, DeliveredRow, UnclaimedRow, TypeOK
    <3>2. \A f \in Events : f # e =>
            /\ outbox'[f] = outbox[f]
            /\ \A q \in Publishers : task'[q][f] = task[q][f]
      BY <2>6 DEF MarkDelivered, SetTask, TypeOK
    <3>3. UNCHANGED <<sent, faults>>
      BY <2>6 DEF MarkDelivered
    <3>4. QED
      BY <3>1, <3>2, <3>3, QuietStep DEF Accounted
  <2>7. ASSUME NEW p \in Publishers, NEW e \in Events, MarkDeliveredStale(p, e)
        PROVE  SentInv'
    <3>1. Holds(p, e) /\ task[p][e].phase = "sent"
      BY <2>7 DEF MarkDeliveredStale, Holds
    <3>2. OwnsAttempt(p, e)
      BY <3>1 DEF ExclusiveInv, ClaimOutlivesRun
    <3>3. QED
      BY <2>7, <3>2 DEF MarkDeliveredStale
  <2>8. CASE Tick
    <3>1. \A f \in Events : outbox'[f].status = outbox[f].status
      BY <2>8, TickKeepsRows
    <3>2. UNCHANGED <<task, sent, faults>>
      BY <2>8 DEF Tick
    <3>3. QED
      BY <3>1, <3>2, QuietStep DEF Accounted
  <2>9. CASE UNCHANGED vars
    BY <2>9, QuietStep DEF vars, Accounted
  <2>10. QED
    BY <2>1, <2>2, <2>3, <2>4, <2>5, <2>6, <2>7, <2>8, <2>9
    DEF Next, RunStep, RunFault
<1>3. TypeOK /\ SentInv => DuplicateNeedsFault
  BY BoundAssumption DEF TypeOK, SentInv, DuplicateNeedsFault
<1>4. QED
  BY <1>1, <1>2, <1>3, TypeCorrect, ExclusiveClaims, PTL DEF Spec

-----------------------------------------------------------------------------
(* What one step does to a row, to a task and to the counters.               *)

\* Nothing but the countdowns of row e moves.
Kept(e) ==
    /\ outbox'[e].status = outbox[e].status
    /\ outbox'[e].attempt = outbox[e].attempt
    /\ outbox'[e].deliveryAttempts = outbox[e].deliveryAttempts
    /\ issued'[e] = issued[e]

ClaimedBy(p, e) ==
    /\ task[p][e].phase = "listed"
    /\ ClaimCondition(e, task[p][e])
    /\ outbox'[e] = ClaimedRow(e)
    /\ issued'[e] = issued[e] + 1
    /\ \/ task'[p][e] = ClaimedTask(e) /\ faults' = faults
       \/ task'[p][e] = NoTask /\ faults' = faults + 1
    /\ \A q \in Publishers : q # p => task'[q][e] = task[q][e]

DeliveredBy(p, e) ==
    /\ task[p][e].phase = "sent"
    /\ OwnsAttempt(p, e)
    /\ outbox'[e] = DeliveredRow(e)
    /\ issued'[e] = issued[e]
    /\ task'[p][e] # task[p][e]

FailedBy(p, e) ==
    /\ task[p][e].phase = "failing"
    /\ OwnsAttempt(p, e)
    /\ outbox'[e] = FailedRow(e, task[p][e].tries)
    /\ issued'[e] = issued[e]
    /\ task'[p][e] # task[p][e]

RowMoves(e) ==
    \/ Kept(e)
    \/ Prepare(e) \/ Activate(e) \/ Replay(e)
    \/ \E p \in Publishers : ClaimedBy(p, e) \/ DeliveredBy(p, e) \/ FailedBy(p, e)

\* An invocation lets go of a claim it owns with the outcome, or by a fault.
Released(p, e) ==
    /\ task'[p][e] = NoTask
    /\ \/ ~Holds(p, e)
       \/ ~OwnsAttempt(p, e)
       \/ faults' = faults + 1
       \/ outbox'[e].status # "DISPATCHING"

\* A claimed event goes on to the next call of its delivery.
Proceeds(p, e) ==
    \E ph \in {"sent", "failing"} :
        /\ Holds(p, e)
        /\ task'[p][e] = [task[p][e] EXCEPT !.phase = ph]
        /\ ph = "sent" => sent'[e] = sent[e] + 1

TaskMoves(p, e) ==
    \/ task'[p][e] = task[p][e]
    \/ Released(p, e)
    \/ ~Holds(p, e) /\ task'[p][e] = ListedTask(e) /\ IsDispatchable(e) /\ Kept(e)
    \/ ClaimedBy(p, e)
    \/ Proceeds(p, e)

CountersMove ==
    /\ faults' \in {faults, faults + 1}
    /\ \A e \in Events :
          \/ sent'[e] = sent[e]
          \/ /\ sent'[e] = sent[e] + 1 /\ Kept(e)
             /\ \E p \in Publishers : task[p][e].phase = "claimed"

StepMoves == /\ \A e \in Events : RowMoves(e)
             /\ \A p \in Publishers, e \in Events : TaskMoves(p, e)
             /\ CountersMove

\* A step that leaves the rows and the issued ids alone.
LEMMA RowsRest ==
    ASSUME TypeOK, UNCHANGED <<outbox, issued>>
    PROVE  \A e \in Events : RowMoves(e) /\ Kept(e)
  BY DEF RowMoves, Kept

\* A step of the publishers that drops tasks of p only.
LEMMA TasksDrop ==
    ASSUME NEW p \in Publishers,
           \A q \in Publishers, f \in Events :
              \/ task'[q][f] = task[q][f]
              \/ q = p /\ Released(q, f)
    PROVE  \A q \in Publishers, f \in Events : TaskMoves(q, f)
  BY DEF TaskMoves

LEMMA FaultCounts == TypeOK /\ Fault => faults' = faults + 1
  BY DEF Fault

\* The API, the operator and the clock.
LEMMA OutsideMoves ==
    ASSUME TypeOK, \/ \E e \in Events : Prepare(e) \/ Activate(e) \/ Replay(e)
                   \/ Tick
                   \/ UNCHANGED vars
    PROVE  StepMoves
<1>1. /\ UNCHANGED <<task, sent, issued, faults>>
      /\ \A p \in Publishers, e \in Events : TaskMoves(p, e)
      /\ CountersMove
  BY DEF Prepare, Activate, Replay, Tick, vars, TaskMoves, CountersMove
<1>2. CASE \E e \in Events : Prepare(e) \/ Activate(e) \/ Replay(e)
  <2>1. PICK e \in Events : Prepare(e) \/ Activate(e) \/ Replay(e)
    BY <1>2
  <2>2. \A f \in Events : f # e => outbox'[f] = outbox[f]
    BY <2>1 DEF Prepare, Activate, Replay, TypeOK
  <2>3. \A f \in Events : f # e => Kept(f)
    BY <1>1, <2>2 DEF Kept
  <2>4. QED
    BY <1>1, <2>1, <2>3 DEF StepMoves, RowMoves
<1>3. CASE Tick
  <2>1. \A f \in Events : Kept(f)
    <3> SUFFICES ASSUME NEW f \in Events PROVE Kept(f)
      OBVIOUS
    <3>1. outbox'[f] = [outbox[f] EXCEPT !.retryIn = Less(@), !.leaseIn = Less(@)]
      BY <1>3 DEF Tick
    <3>2. outbox[f] \in Row
      BY RowTyped
    <3>3. QED
      BY <1>1, <3>1, <3>2 DEF Kept, Row
  <2>2. QED
    BY <1>1, <2>1 DEF StepMoves, RowMoves
<1>4. CASE UNCHANGED vars
  BY <1>1, <1>4, RowsRest DEF StepMoves, vars
<1>5. QED
  BY <1>2, <1>3, <1>4

\* The start of an invocation and its death.
LEMMA RunMoves ==
    ASSUME TypeOK, NEW p \in Publishers, BeginRun(p) \/ Crash(p)
    PROVE  StepMoves
<1>1. CASE BeginRun(p)
  <2>1. PICK batch \in SUBSET Events :
           /\ IsListing(batch)
           /\ task' = [task EXCEPT ![p] = [e \in Events |->
                         IF e \in batch THEN ListedTask(e) ELSE NoTask]]
    BY <1>1 DEF BeginRun
  <2>2. UNCHANGED <<outbox, sent, issued, faults>>
    BY <1>1 DEF BeginRun
  <2>3. \A e \in Events : RowMoves(e) /\ Kept(e)
    BY <2>2, RowsRest
  <2>4. \A e \in batch : IsDispatchable(e)
    BY <2>1 DEF IsListing
  <2>5. \A q \in Publishers, f \in Events :
           task'[q][f] = IF q # p THEN task[q][f]
                         ELSE IF f \in batch THEN ListedTask(f) ELSE NoTask
    BY <2>1 DEF TypeOK
  <2>6. \A f \in Events : ~Holds(p, f)
    BY <1>1 DEF BeginRun, Running, Holds
  <2>7. \A q \in Publishers, f \in Events : TaskMoves(q, f)
    BY <2>3, <2>4, <2>5, <2>6 DEF TaskMoves, Released
  <2>8. QED
    BY <2>2, <2>3, <2>7 DEF StepMoves, CountersMove
<1>2. CASE Crash(p)
  <2>1. UNCHANGED <<outbox, sent, issued>> /\ faults' = faults + 1
    BY <1>2, FaultCounts DEF Crash
  <2>2. \A q \in Publishers, f \in Events :
           \/ task'[q][f] = task[q][f]
           \/ q = p /\ Released(q, f)
    BY <1>2, <2>1, DropIsLocal DEF Crash, TypeOK, Released
  <2>3. QED
    BY <2>1, <2>2, RowsRest, TasksDrop DEF StepMoves, CountersMove
<1>3. QED
  BY <1>1, <1>2

\* The claim, with its response or without.
LEMMA ClaimMoves ==
    ASSUME TypeOK, NEW p \in Publishers, NEW e \in Events,
           Claim(p, e) \/ ClaimLost(p, e)
    PROVE  StepMoves
<1>1. /\ task[p][e].phase = "listed" /\ ClaimCondition(e, task[p][e])
      /\ outbox' = [outbox EXCEPT ![e] = ClaimedRow(e)]
      /\ issued' = [issued EXCEPT ![e] = @ + 1]
      /\ UNCHANGED sent
  BY DEF Claim, ClaimLost
<1>2. /\ outbox'[e] = ClaimedRow(e) /\ issued'[e] = issued[e] + 1
      /\ \A f \in Events : f # e => outbox'[f] = outbox[f] /\ issued'[f] = issued[f]
  BY <1>1 DEF TypeOK
<1>3. \A f \in Events : f # e => Kept(f)
  BY <1>2 DEF Kept
<1>4. CASE Claim(p, e)
  <2>1. /\ task'[p][e] = ClaimedTask(e) /\ UNCHANGED faults
        /\ \A q \in Publishers, f \in Events :
              q # p \/ f # e => task'[q][f] = task[q][f]
    BY <1>4, ClaimedTaskIsTask, SetTaskIsLocal DEF Claim, TypeOK
  <2>2. ClaimedBy(p, e)
    BY <1>1, <1>2, <2>1 DEF ClaimedBy
  <2>3. QED
    BY <1>1, <1>3, <2>1, <2>2 DEF StepMoves, RowMoves, TaskMoves, CountersMove
<1>5. CASE ClaimLost(p, e)
  <2>1. /\ \A f \in Events : task'[p][f] = NoTask
        /\ \A q \in Publishers, f \in Events : q # p => task'[q][f] = task[q][f]
        /\ faults' = faults + 1
    BY <1>5, DropIsLocal, FaultCounts DEF ClaimLost, TypeOK
  <2>2. ClaimedBy(p, e)
    BY <1>1, <1>2, <2>1 DEF ClaimedBy
  <2>3. \A q \in Publishers, f \in Events : TaskMoves(q, f)
    BY <2>1 DEF TaskMoves, Released
  <2>4. QED
    BY <1>1, <1>3, <2>1, <2>2, <2>3 DEF StepMoves, RowMoves, CountersMove
<1>6. QED
  BY <1>4, <1>5

\* The calls between the claim and the outcome.
LEMMA DeliveryMoves ==
    ASSUME TypeOK, NEW p \in Publishers, NEW e \in Events,
           \/ Publish(p, e) \/ PublishRefused(p, e) \/ PublishLost(p, e)
           \/ MarkDeliveredStale(p, e)
    PROVE  StepMoves
<1>1. PICK ph \in {"sent", "failing"} :
         /\ Holds(p, e)
         /\ SetTask(p, e, [task[p][e] EXCEPT !.phase = ph])
         /\ Publish(p, e) <=> ph = "sent"
  BY DEF Publish, PublishRefused, PublishLost, MarkDeliveredStale, Holds
<1>2. [task[p][e] EXCEPT !.phase = ph] \in Task
  BY TaskTyped DEF Task, Phase
<1>3. /\ task'[p][e] = [task[p][e] EXCEPT !.phase = ph]
      /\ \A q \in Publishers, f \in Events : q # p \/ f # e => task'[q][f] = task[q][f]
  BY <1>1, <1>2, SetTaskIsLocal DEF TypeOK
<1>4. UNCHANGED <<outbox, issued>>
  BY DEF Publish, PublishRefused, PublishLost, MarkDeliveredStale
<1>5. Proceeds(p, e)
  BY <1>1, <1>3 DEF Proceeds, Publish, TypeOK
<1>6. \A q \in Publishers, f \in Events : TaskMoves(q, f)
  BY <1>3, <1>5 DEF TaskMoves
<1>7. \A f \in Events : RowMoves(f) /\ Kept(f)
  BY <1>4, RowsRest
<1>8. CountersMove
  <2>1. faults' \in {faults, faults + 1}
    BY FaultCounts DEF Publish, PublishRefused, PublishLost, MarkDeliveredStale
  <2>2. CASE Publish(p, e) \/ PublishLost(p, e)
    <3>1. task[p][e].phase = "claimed" /\ sent' = [sent EXCEPT ![e] = @ + 1]
      BY <2>2 DEF Publish, PublishLost
    <3>2. QED
      BY <1>7, <2>1, <3>1 DEF CountersMove, TypeOK
  <2>3. CASE UNCHANGED sent
    BY <2>1, <2>3 DEF CountersMove
  <2>4. QED
    BY <2>2, <2>3 DEF PublishRefused, MarkDeliveredStale
<1>9. QED
  BY <1>6, <1>7, <1>8 DEF StepMoves

\* The listed event that is not claimed, and the failure that is not recorded.
LEMMA SkipMoves ==
    ASSUME TypeOK, NEW p \in Publishers, NEW e \in Events,
           SkipClaim(p, e) \/ MarkFailedStale(p, e) \/ MarkFailedLost(p, e)
    PROVE  StepMoves
<1>1. /\ task'[p][e] = NoTask
      /\ \A q \in Publishers, f \in Events : q # p \/ f # e => task'[q][f] = task[q][f]
  BY SetTaskIsLocal, NoTaskIsTask DEF SkipClaim, MarkFailedStale, MarkFailedLost, TypeOK
<1>2. /\ UNCHANGED <<outbox, sent, issued>>
      /\ UNCHANGED faults \/ faults' = faults + 1
  BY FaultCounts DEF SkipClaim, MarkFailedStale, MarkFailedLost
<1>3. Released(p, e)
  BY <1>1, FaultCounts DEF SkipClaim, MarkFailedStale, MarkFailedLost, Released, Holds
<1>4. \A q \in Publishers, f \in Events : TaskMoves(q, f)
  BY <1>1, <1>3 DEF TaskMoves
<1>5. QED
  BY <1>2, <1>4, RowsRest DEF StepMoves, CountersMove

\* The outcomes.
LEMMA OutcomeMoves ==
    ASSUME TypeOK, NEW p \in Publishers, NEW e \in Events,
           MarkDelivered(p, e) \/ MarkDeliveredLost(p, e) \/ MarkFailed(p, e)
    PROVE  StepMoves
<1>1. Holds(p, e) /\ OwnsAttempt(p, e) /\ UNCHANGED <<sent, issued>>
  BY DEF MarkDelivered, MarkDeliveredLost, MarkFailed, Holds
<1>2. UNCHANGED faults \/ faults' = faults + 1
  BY FaultCounts DEF MarkDelivered, MarkDeliveredLost, MarkFailed
<1>3. [task[p][e] EXCEPT !.phase = "failing"] \in Task
  BY TaskTyped DEF Task, Phase
<1>4. /\ \/ task'[p][e] = NoTask
         \/ task'[p][e] = [task[p][e] EXCEPT !.phase = "failing"] /\ task[p][e].phase = "sent"
      /\ \A q \in Publishers, f \in Events : q # p \/ f # e => task'[q][f] = task[q][f]
  BY <1>3, SetTaskIsLocal, NoTaskIsTask DEF MarkDelivered, MarkDeliveredLost, MarkFailed, TypeOK
<1>5. task'[p][e] # task[p][e]
  <2>1. task'[p][e].phase # task[p][e].phase
    BY <1>1, <1>4, NoTaskIsTask, TaskTyped DEF Holds, Task
  <2>2. QED
    BY <2>1
<1>6. \A f \in Events : f # e => outbox'[f] = outbox[f]
  BY DEF MarkDelivered, MarkDeliveredLost, MarkFailed, TypeOK
<1>7. \A f \in Events : f # e => Kept(f)
  BY <1>1, <1>6 DEF Kept
<1>8. Kept(e) \/ DeliveredBy(p, e) \/ FailedBy(p, e)
  <2>1. CASE UNCHANGED outbox
    BY <1>1, <2>1 DEF Kept
  <2>2. CASE outbox' = [outbox EXCEPT ![e] = DeliveredRow(e)] /\ task[p][e].phase = "sent"
    BY <1>1, <1>5, <2>2 DEF DeliveredBy, TypeOK
  <2>3. CASE MarkFailed(p, e)
    BY <1>1, <1>5, <2>3 DEF FailedBy, MarkFailed, TypeOK
  <2>4. QED
    BY <2>1, <2>2, <2>3 DEF MarkDelivered, MarkDeliveredLost
<1>9. Released(p, e) \/ Proceeds(p, e)
  <2>1. CASE task'[p][e] = NoTask
    <3>1. outbox'[e] \in {DeliveredRow(e), FailedRow(e, task[p][e].tries)}
      <4>1. CASE MarkDelivered(p, e) \/ MarkFailed(p, e)
        BY <4>1 DEF MarkDelivered, MarkFailed, TypeOK
      <4>2. CASE MarkDeliveredLost(p, e)
        BY <4>2, <2>1, <1>3, SetTaskIsLocal, NoTaskIsTask DEF MarkDeliveredLost, TypeOK, Task
      <4>3. QED
        BY <4>1, <4>2
    <3>2. outbox'[e].status # "DISPATCHING"
      BY <3>1 DEF DeliveredRow, FailedRow, UnclaimedRow
    <3>3. QED
      BY <2>1, <3>2 DEF Released
  <2>2. CASE task'[p][e] = [task[p][e] EXCEPT !.phase = "failing"]
    BY <1>1, <2>2 DEF Proceeds
  <2>3. QED
    BY <1>4, <2>1, <2>2
<1>10. \A q \in Publishers, f \in Events : TaskMoves(q, f)
  BY <1>4, <1>9 DEF TaskMoves
<1>11. QED
  BY <1>1, <1>2, <1>7, <1>8, <1>10 DEF StepMoves, RowMoves, CountersMove

LEMMA EveryStepMoves == TypeOK /\ [Next]_vars => StepMoves
<1>1. ASSUME TypeOK, NEW p \in Publishers, NEW e \in Events, RunStep(p, e) \/ RunFault(p, e)
      PROVE  StepMoves
  BY <1>1, ClaimMoves, DeliveryMoves, SkipMoves, OutcomeMoves DEF RunStep, RunFault
<1>2. QED
  BY <1>1, OutsideMoves, RunMoves DEF Next

-----------------------------------------------------------------------------
(* Attempts.  The row of a claim that is at the limit still has its holder,  *)
(* who will give it up; a claim without a holder was lost to a fault, which  *)
(* pays for the attempt the next claim makes.                                *)

BudgetOf(e) ==
    /\ outbox[e].deliveryAttempts <= MaxDeliveryAttempts + faults
    /\ outbox[e].status \in {"ABSENT", "PREPARING", "PENDING"} =>
          outbox[e].deliveryAttempts = 0
    /\ outbox[e].status = "FAILED_RETRYABLE" =>
          outbox[e].deliveryAttempts < MaxDeliveryAttempts
    /\ outbox[e].status = "FAILED_PERMANENT" =>
          outbox[e].deliveryAttempts >= MaxDeliveryAttempts
    /\ outbox[e].status = "DISPATCHING" =>
          \/ outbox[e].deliveryAttempts < MaxDeliveryAttempts + faults
          \/ \E p \in Publishers : Holds(p, e) /\ OwnsAttempt(p, e)
    /\ \A p \in Publishers : Holds(p, e) /\ OwnsAttempt(p, e) =>
          task[p][e].tries = outbox[e].deliveryAttempts

AttemptInv == \A e \in Events : BudgetOf(e)

LEMMA CountersAreNat ==
    ASSUME TypeOK, NEW e \in Events
    PROVE  outbox[e].deliveryAttempts \in Nat /\ faults \in Nat /\ issued[e] \in Nat
  BY RowTyped, BoundAssumption DEF TypeOK, Row

\* While the row keeps its claim, so does its holder, unless a fault takes it.
LEMMA KeptBudget ==
    ASSUME TypeOK, StepMoves, NEW e \in Events, BudgetOf(e), Kept(e)
    PROVE  BudgetOf(e)'
<1>1. \A p \in Publishers : TaskMoves(p, e)
  BY DEF StepMoves
<1>2. /\ faults' \in {faults, faults + 1} /\ faults \in Nat
      /\ outbox[e].deliveryAttempts \in Nat
      /\ issued'[e] # issued[e] + 1
  BY CountersAreNat DEF StepMoves, CountersMove, Kept
<1>3. \A p \in Publishers : ~ClaimedBy(p, e)
  BY <1>2 DEF ClaimedBy
<1>4. \A p \in Publishers : task[p][e] \in Task
  BY TaskTyped
<1>5. \A p \in Publishers : (Holds(p, e) /\ OwnsAttempt(p, e))' =>
         Holds(p, e) /\ OwnsAttempt(p, e) /\ task'[p][e].tries = task[p][e].tries
  <2> SUFFICES ASSUME NEW p \in Publishers, Holds(p, e)', OwnsAttempt(p, e)'
               PROVE  /\ Holds(p, e) /\ OwnsAttempt(p, e)
                      /\ task'[p][e].tries = task[p][e].tries
    OBVIOUS
  <2>1. CASE task'[p][e] = task[p][e]
    BY <2>1 DEF Holds, OwnsAttempt, Kept
  <2>2. CASE Proceeds(p, e)
    BY <1>4, <2>2 DEF Proceeds, Holds, OwnsAttempt, Kept, Task
  <2>3. ~Released(p, e) /\ task'[p][e] # ListedTask(e)
    BY NoTaskIsTask DEF Released, ListedTask, Holds
  <2>4. QED
    BY <1>1, <1>3, <2>1, <2>2, <2>3 DEF TaskMoves
<1>6. \A p \in Publishers : Holds(p, e) /\ OwnsAttempt(p, e) =>
         \/ (Holds(p, e) /\ OwnsAttempt(p, e))'
         \/ faults' = faults + 1
         \/ outbox'[e].status # "DISPATCHING"
  <2> SUFFICES ASSUME NEW p \in Publishers, Holds(p, e), OwnsAttempt(p, e)
               PROVE  \/ (Holds(p, e) /\ OwnsAttempt(p, e))'
                      \/ faults' = faults + 1
                      \/ outbox'[e].status # "DISPATCHING"
    OBVIOUS
  <2>1. CASE task'[p][e] = task[p][e]
    BY <2>1 DEF Holds, OwnsAttempt, Kept
  <2>2. CASE Released(p, e)
    BY <2>2 DEF Released
  <2>3. CASE Proceeds(p, e)
    BY <1>4, <2>3 DEF Proceeds, Holds, OwnsAttempt, Kept, Task
  <2>4. QED
    BY <1>1, <1>3, <2>1, <2>2, <2>3 DEF TaskMoves
<1>7. QED
  BY <1>2, <1>5, <1>6, AttemptsAssumption DEF BudgetOf, Kept

\* A claim that succeeds is within the budget and has the only holder.
LEMMA ClaimedBudget ==
    ASSUME TypeOK, ExclusiveInv, StepMoves, NEW e \in Events, BudgetOf(e),
           NEW p \in Publishers, ClaimedBy(p, e)
    PROVE  BudgetOf(e)'
<1>1. \A q \in Publishers : ~Holds(q, e)
  BY ClaimFindsNoHolder DEF ClaimedBy
<1>2. /\ faults' \in {faults, faults + 1} /\ faults \in Nat
      /\ outbox[e].deliveryAttempts \in Nat
  BY CountersAreNat DEF StepMoves, CountersMove
<1>3. outbox[e].status \in DispatchableStatus
  BY DEF ClaimedBy, ClaimCondition, ExclusiveInv, ListedDispatchable
<1>4. outbox[e].deliveryAttempts < MaxDeliveryAttempts + faults
  BY <1>1, <1>2, <1>3, AttemptsAssumption DEF BudgetOf, DispatchableStatus
<1>5. /\ outbox'[e].deliveryAttempts = outbox[e].deliveryAttempts + 1
      /\ outbox'[e].status = "DISPATCHING"
      /\ outbox'[e].attempt = issued[e] + 1
  BY DEF ClaimedBy, ClaimedRow
<1>6. \A q \in Publishers : q # p => ~Holds(q, e)'
  BY <1>1 DEF ClaimedBy, Holds
<1>7. CASE task'[p][e] = ClaimedTask(e)
  <2>1. (Holds(p, e) /\ OwnsAttempt(p, e))'
    BY <1>5, <1>7 DEF Holds, OwnsAttempt, ClaimedTask
  <2>2. task'[p][e].tries = outbox'[e].deliveryAttempts
    BY <1>5, <1>7 DEF ClaimedTask
  <2>3. QED
    BY <1>2, <1>4, <1>5, <1>6, <2>1, <2>2, AttemptsAssumption DEF BudgetOf
<1>8. CASE task'[p][e] = NoTask /\ faults' = faults + 1
  <2>1. ~Holds(p, e)'
    BY <1>8, NoTaskIsTask DEF Holds
  <2>2. QED
    BY <1>2, <1>4, <1>5, <1>6, <1>8, <2>1, AttemptsAssumption DEF BudgetOf
<1>9. QED
  BY <1>7, <1>8 DEF ClaimedBy

LEMMA SumIsNat == \A m, n \in Nat : 0 <= m + n
  OBVIOUS

LEMMA BudgetIsPositive ==
    ASSUME TypeOK, CountersMove, NEW e \in Events
    PROVE  0 <= MaxDeliveryAttempts + faults'
<1>1. MaxDeliveryAttempts \in Nat /\ faults' \in Nat
  BY CountersAreNat, AttemptsAssumption DEF CountersMove
<1>2. QED
  BY <1>1, SumIsNat

\* A row that is not DISPATCHING after the step has no current holder.
LEMMA EndedBudget ==
    ASSUME TypeOK, StepMoves, NEW e \in Events, BudgetOf(e),
           \/ Prepare(e) \/ Activate(e) \/ Replay(e)
           \/ \E p \in Publishers : DeliveredBy(p, e) \/ FailedBy(p, e)
    PROVE  BudgetOf(e)'
<1>1. /\ faults \in Nat /\ faults' \in Nat /\ faults <= faults'
      /\ outbox[e].deliveryAttempts \in Nat
  BY CountersAreNat DEF StepMoves, CountersMove
<1>2. outbox[e] \in Row /\ 0 <= MaxDeliveryAttempts + faults'
  BY RowTyped, BudgetIsPositive DEF StepMoves
<1>3. CASE Prepare(e) \/ Activate(e) \/ Replay(e)
  <2>1. CASE Prepare(e) \/ Activate(e)
    <3>1. outbox[e].deliveryAttempts = 0
      BY <2>1 DEF Prepare, Activate, BudgetOf
    <3>2. \/ outbox'[e] = [outbox[e] EXCEPT !.status = "PREPARING", !.version = 1]
          \/ outbox'[e] = [outbox[e] EXCEPT !.status = "PENDING", !.index = "PENDING"]
      BY <2>1 DEF Prepare, Activate, TypeOK
    <3>3. /\ outbox'[e].deliveryAttempts = outbox[e].deliveryAttempts
          /\ outbox'[e].status \in {"PREPARING", "PENDING"}
      BY <1>2, <3>2 DEF Row
    <3>4. QED
      BY <1>2, <3>1, <3>3 DEF BudgetOf, OwnsAttempt
  <2>2. CASE Replay(e)
    <3>1. outbox'[e] = UnclaimedRow(e, "PENDING", "PENDING", 0, 0)
      BY <2>2 DEF Replay, TypeOK
    <3>2. outbox'[e].deliveryAttempts = 0 /\ outbox'[e].status = "PENDING"
      BY <3>1 DEF UnclaimedRow
    <3>3. QED
      BY <1>2, <3>2 DEF BudgetOf, OwnsAttempt
  <2>3. QED
    BY <1>3, <2>1, <2>2
<1>4. ASSUME NEW p \in Publishers, DeliveredBy(p, e)
      PROVE  BudgetOf(e)'
  <2>1. /\ outbox'[e].deliveryAttempts = outbox[e].deliveryAttempts
        /\ outbox'[e].status = "DELIVERED"
    BY <1>4 DEF DeliveredBy, DeliveredRow, UnclaimedRow
  <2>2. QED
    BY <1>1, <2>1, AttemptsAssumption DEF BudgetOf, OwnsAttempt
<1>5. ASSUME NEW p \in Publishers, FailedBy(p, e)
      PROVE  BudgetOf(e)'
  <2>1. task[p][e].tries = outbox[e].deliveryAttempts
    BY <1>5 DEF FailedBy, BudgetOf, Holds
  <2>2. outbox'[e] = FailedRow(e, outbox[e].deliveryAttempts)
    BY <1>5, <2>1 DEF FailedBy
  <2>3. /\ outbox'[e].deliveryAttempts = outbox[e].deliveryAttempts
        /\ outbox'[e].status = IF outbox[e].deliveryAttempts >= MaxDeliveryAttempts
                               THEN "FAILED_PERMANENT" ELSE "FAILED_RETRYABLE"
    BY <2>2 DEF FailedRow, UnclaimedRow
  <2>4. QED
    BY <1>1, <2>3, AttemptsAssumption DEF BudgetOf, OwnsAttempt
<1>6. QED
  BY <1>3, <1>4, <1>5

\* No event is attempted more often than max_delivery_attempts plus one attempt
\* for every crash or lost call, a retryable event has attempts left, and an
\* event is given up only at the limit.
THEOREM AttemptsAreBudgeted ==
    ASSUME RunTimeout < Lease
    PROVE  Spec => []AttemptBudget
<1>1. Init => AttemptInv
  BY NoTaskIsTask, AttemptsAssumption DEF Init, AttemptInv, BudgetOf, Holds, NoRow
<1>2. TypeOK /\ ExclusiveInv /\ AttemptInv /\ [Next]_vars => AttemptInv'
  <2> SUFFICES ASSUME TypeOK, ExclusiveInv, AttemptInv, [Next]_vars,
                      NEW e \in Events
               PROVE  BudgetOf(e)'
    BY DEF AttemptInv
  <2>1. StepMoves /\ RowMoves(e) /\ BudgetOf(e)
    BY EveryStepMoves DEF StepMoves, AttemptInv
  <2>2. QED
    BY <2>1, KeptBudget, ClaimedBudget, EndedBudget DEF RowMoves
<1>3. AttemptInv => AttemptBudget
  BY DEF AttemptInv, BudgetOf, AttemptBudget
<1>4. QED
  BY <1>1, <1>2, <1>3, TypeCorrect, ExclusiveClaims, PTL DEF Spec

-----------------------------------------------------------------------------
(* Outcomes.  Neither fact needs a lease that outlasts the run: they hold of *)
(* every invocation, however late it reports.                                *)

SentBeforeOutcome ==
    \A e \in Events :
        /\ outbox[e].status = "DELIVERED" => sent[e] > 0
        /\ \A p \in Publishers : task[p][e].phase = "sent" => sent[e] > 0

LEMMA SendsComeFirst == Spec => []SentBeforeOutcome
<1>1. Init => SentBeforeOutcome
  BY NoTaskIsTask DEF Init, SentBeforeOutcome, NoRow
<1>2. TypeOK /\ SentBeforeOutcome /\ [Next]_vars => SentBeforeOutcome'
  <2> SUFFICES ASSUME TypeOK, SentBeforeOutcome, [Next]_vars, NEW e \in Events
               PROVE  /\ outbox'[e].status = "DELIVERED" => sent'[e] > 0
                      /\ \A p \in Publishers : task'[p][e].phase = "sent" => sent'[e] > 0
    BY DEF SentBeforeOutcome
  <2>1. StepMoves
    BY EveryStepMoves
  <2>2. sent[e] \in Nat /\ sent'[e] \in {sent[e], sent[e] + 1}
    BY <2>1 DEF TypeOK, StepMoves, CountersMove
  <2>3. sent[e] > 0 => sent'[e] > 0
    BY <2>2
  <2>4. outbox'[e].status = "DELIVERED" => sent'[e] > 0
    <3> SUFFICES ASSUME outbox'[e].status = "DELIVERED" PROVE sent[e] > 0
      BY <2>3
    <3>1. CASE Kept(e)
      BY <3>1 DEF Kept, SentBeforeOutcome
    <3>2. ~Prepare(e) /\ ~Activate(e) /\ ~Replay(e)
      <4>1. outbox[e] \in Row
        BY RowTyped
      <4>2. Prepare(e) \/ Activate(e) =>
               outbox'[e].status \in {"PREPARING", "PENDING"}
        BY <4>1 DEF Prepare, Activate, TypeOK, Row
      <4>3. Replay(e) => outbox'[e].status = "PENDING"
        BY DEF Replay, UnclaimedRow, TypeOK
      <4>4. QED
        BY <4>2, <4>3
    <3>3. \A p \in Publishers : ~ClaimedBy(p, e) /\ ~FailedBy(p, e)
      BY DEF ClaimedBy, ClaimedRow, FailedBy, FailedRow, UnclaimedRow
    <3>4. CASE \E p \in Publishers : DeliveredBy(p, e)
      BY <3>4 DEF DeliveredBy, SentBeforeOutcome
    <3>5. QED
      BY <2>1, <3>1, <3>2, <3>3, <3>4 DEF StepMoves, RowMoves
  <2>5. ASSUME NEW p \in Publishers, task'[p][e].phase = "sent"
        PROVE  sent'[e] > 0
    <3>1. CASE task'[p][e] = task[p][e]
      BY <2>3, <2>5, <3>1 DEF SentBeforeOutcome
    <3>2. CASE Proceeds(p, e)
      <4>1. PICK ph \in {"sent", "failing"} :
               /\ task'[p][e] = [task[p][e] EXCEPT !.phase = ph]
               /\ ph = "sent" => sent'[e] = sent[e] + 1
        BY <3>2 DEF Proceeds
      <4>2. ph = "sent"
        BY <2>5, <4>1, TaskTyped DEF Task
      <4>3. QED
        BY <2>2, <4>1, <4>2
    <3>3. /\ ~Released(p, e) /\ ~ClaimedBy(p, e)
          /\ task'[p][e] # ListedTask(e)
      BY <2>5, NoTaskIsTask DEF Released, ClaimedBy, ClaimedTask, ListedTask
    <3>4. QED
      BY <2>1, <3>1, <3>2, <3>3 DEF StepMoves, TaskMoves
  <2>6. QED
    BY <2>4, <2>5
<1>3. QED
  BY <1>1, <1>2, TypeCorrect, PTL DEF Spec

\* A DELIVERED row was sent: mark_delivered is only reached from a send that was
\* accepted, whoever holds the claim by then.
THEOREM DeliveriesWereSent == Spec => []DeliveredWasSent
<1>1. SentBeforeOutcome => DeliveredWasSent
  BY DEF SentBeforeOutcome, DeliveredWasSent
<1>2. QED
  BY <1>1, SendsComeFirst, PTL

\* Invocations list dispatchable rows only, since the index matches the status.
LEMMA ListingsAreDispatchable == Spec => []ListedDispatchable
<1>1. Init => ListedDispatchable
  BY NoTaskIsTask DEF Init, ListedDispatchable
<1>2. TypeOK /\ IndexMatchesStatus /\ ListedDispatchable /\ [Next]_vars
        => ListedDispatchable'
  <2> SUFFICES ASSUME TypeOK, IndexMatchesStatus, ListedDispatchable, [Next]_vars,
                      NEW p \in Publishers, NEW e \in Events,
                      task'[p][e].phase = "listed"
               PROVE  task'[p][e].status \in DispatchableStatus
    BY DEF ListedDispatchable
  <2>1. TaskMoves(p, e)
    BY EveryStepMoves DEF StepMoves
  <2>2. CASE task'[p][e] = task[p][e]
    BY <2>2 DEF ListedDispatchable
  <2>3. CASE task'[p][e] = ListedTask(e) /\ IsDispatchable(e)
    BY <2>3 DEF ListedTask, IsDispatchable, IndexMatchesStatus
  <2>4. ~Proceeds(p, e)
    BY TaskTyped DEF Proceeds, Task
  <2>5. ~Released(p, e) /\ ~ClaimedBy(p, e)
    BY NoTaskIsTask DEF Released, ClaimedBy, ClaimedTask
  <2>6. QED
    BY <2>1, <2>2, <2>3, <2>4, <2>5 DEF TaskMoves
<1>3. QED
  BY <1>1, <1>2, TypeCorrect, IndexCorrect, PTL DEF Spec

\* DELIVERED is final: the stale failure of an earlier claim, a stale listing and
\* an operator's replay all miss a delivered row.
THEOREM DeliveriesAreFinal == Spec => DeliveredIsFinal
<1>1. TypeOK /\ ListedDispatchable /\ [Next]_vars =>
         [\A e \in Events :
             outbox[e].status = "DELIVERED" => outbox'[e].status = "DELIVERED"]_vars
  <2> SUFFICES ASSUME TypeOK, ListedDispatchable, [Next]_vars,
                      NEW e \in Events, outbox[e].status = "DELIVERED"
               PROVE  outbox'[e].status = "DELIVERED"
    OBVIOUS
  <2>1. RowMoves(e)
    BY EveryStepMoves DEF StepMoves
  <2>2. ~Prepare(e) /\ ~Activate(e) /\ ~Replay(e)
    BY DEF Prepare, Activate, Replay
  <2>3. \A p \in Publishers : ~ClaimedBy(p, e) /\ ~DeliveredBy(p, e) /\ ~FailedBy(p, e)
    BY DEF ClaimedBy, ClaimCondition, ListedDispatchable, DispatchableStatus,
           DeliveredBy, FailedBy, OwnsAttempt
  <2>4. QED
    BY <2>1, <2>2, <2>3 DEF RowMoves, Kept
<1>2. QED
  BY <1>1, TypeCorrect, ListingsAreDispatchable, PTL DEF Spec, DeliveredIsFinal

-----------------------------------------------------------------------------
(* Attempt ids.  They are never reused, so an outcome names one claim.       *)

UniqueAttempts ==
    \A e \in Events :
        /\ \A p \in Publishers : Holds(p, e) => task[p][e].attempt \in 1..issued[e]
        /\ \A p, q \in Publishers :
              /\ Holds(p, e) /\ Holds(q, e)
              /\ task[p][e].attempt = task[q][e].attempt
              => p = q

LEMMA AttemptsAreUnique == Spec => []UniqueAttempts
<1>1. Init => UniqueAttempts
  BY NoTaskIsTask DEF Init, UniqueAttempts, Holds
<1>2. TypeOK /\ UniqueAttempts /\ [Next]_vars => UniqueAttempts'
  <2> SUFFICES ASSUME TypeOK, UniqueAttempts, [Next]_vars, NEW e \in Events
               PROVE  /\ \A p \in Publishers :
                            Holds(p, e)' => task'[p][e].attempt \in 1..issued'[e]
                      /\ \A p, q \in Publishers :
                            /\ Holds(p, e)' /\ Holds(q, e)'
                            /\ task'[p][e].attempt = task'[q][e].attempt
                            => p = q
    BY DEF UniqueAttempts
  <2>1. StepMoves
    BY EveryStepMoves
  <2>2. issued[e] \in Nat /\ \A p \in Publishers : task[p][e] \in Task
    BY TaskTyped DEF TypeOK
  <2>3. \A p \in Publishers : Holds(p, e)' =>
           \/ Holds(p, e) /\ task'[p][e].attempt = task[p][e].attempt
           \/ ClaimedBy(p, e) /\ task'[p][e].attempt = issued[e] + 1
    <3> SUFFICES ASSUME NEW p \in Publishers, Holds(p, e)'
                 PROVE  \/ Holds(p, e) /\ task'[p][e].attempt = task[p][e].attempt
                        \/ ClaimedBy(p, e) /\ task'[p][e].attempt = issued[e] + 1
      OBVIOUS
    <3>1. ~Released(p, e) /\ task'[p][e] # ListedTask(e)
      BY NoTaskIsTask DEF Released, ListedTask, Holds
    <3>2. CASE ClaimedBy(p, e)
      BY <3>2, NoTaskIsTask DEF ClaimedBy, ClaimedTask, Holds
    <3>3. CASE Proceeds(p, e)
      BY <2>2, <3>3 DEF Proceeds, Holds, Task
    <3>4. CASE task'[p][e] = task[p][e]
      BY <3>4 DEF Holds
    <3>5. QED
      BY <2>1, <3>1, <3>2, <3>3, <3>4 DEF StepMoves, TaskMoves
  <2>4. CASE \E r \in Publishers : ClaimedBy(r, e)
    <3>1. PICK r \in Publishers : ClaimedBy(r, e)
      BY <2>4
    <3>2. issued'[e] = issued[e] + 1
      BY <3>1 DEF ClaimedBy
    <3>3. \A p \in Publishers : ClaimedBy(p, e) /\ Holds(p, e)' => p = r
      BY <3>1 DEF ClaimedBy, Holds
    <3>4. QED
      BY <2>2, <2>3, <3>2, <3>3 DEF UniqueAttempts
  <2>5. CASE ~\E r \in Publishers : ClaimedBy(r, e)
    <3>1. issued'[e] = issued[e]
      BY <2>1, <2>5
      DEF StepMoves, RowMoves, Kept, Prepare, Activate, Replay, DeliveredBy, FailedBy
    <3>2. QED
      BY <2>3, <2>5, <3>1 DEF UniqueAttempts
  <2>6. QED
    BY <2>4, <2>5
<1>3. QED
  BY <1>1, <1>2, TypeCorrect, PTL DEF Spec

\* While a claim is current and its lease runs, the row changes hands only by a
\* step of the invocation that holds it, whatever the run timeout is.
THEOREM HoldersKeepTheirRows == Spec => HolderKeepsRow
<1>1. TypeOK /\ UniqueAttempts /\ [Next]_vars =>
         [\A p \in Publishers, e \in Events :
             (/\ Holds(p, e)
              /\ OwnsAttempt(p, e)
              /\ outbox[e].leaseIn > 0
              /\ outbox'[e].attempt # outbox[e].attempt)
             => task'[p][e] # task[p][e]]_vars
  <2> SUFFICES ASSUME TypeOK, UniqueAttempts, [Next]_vars,
                      NEW p \in Publishers, NEW e \in Events,
                      Holds(p, e), OwnsAttempt(p, e), outbox[e].leaseIn > 0,
                      outbox'[e].attempt # outbox[e].attempt
               PROVE  task'[p][e] # task[p][e]
    OBVIOUS
  <2>1. RowMoves(e) /\ ~Kept(e)
    BY EveryStepMoves DEF StepMoves, Kept
  <2>2. outbox[e].status = "DISPATCHING"
    BY DEF OwnsAttempt
  <2>3. ~Prepare(e) /\ ~Activate(e) /\ ~Replay(e)
    BY <2>2 DEF Prepare, Activate, Replay
  <2>4. \A q \in Publishers : ~ClaimedBy(q, e)
    BY <2>2 DEF ClaimedBy, ClaimCondition
  <2>5. \A q \in Publishers : DeliveredBy(q, e) \/ FailedBy(q, e) => q = p
    BY DEF DeliveredBy, FailedBy, OwnsAttempt, Holds, UniqueAttempts
  <2>6. QED
    BY <2>1, <2>3, <2>4, <2>5 DEF RowMoves, DeliveredBy, FailedBy
<1>2. QED
  BY <1>1, TypeCorrect, AttemptsAreUnique, PTL DEF Spec, HolderKeepsRow

-----------------------------------------------------------------------------
(* The refinement of AtLeastOnce, step by step.                              *)

\* A step that moves the status of one row moves one event of the promise.
LEMMA OneStandingMoves ==
    ASSUME NEW e \in Events,
           \A f \in Events : f # e => outbox'[f].status = outbox[f].status
    PROVE  [f \in Events |-> Standing(f)]' =
              [[f \in Events |-> Standing(f)] EXCEPT ![e] = Standing(e)']
<1>1. \A f \in Events : f # e => Standing(f)' = Standing(f)
  BY DEF Standing
<1>2. QED
  BY <1>1

\* What the status of a row says of its event, before and after a step.
LEMMA StandingOfStatus ==
    ASSUME NEW e \in Events
    PROVE  /\ outbox[e].status \in {"ABSENT", "PREPARING"} => Standing(e) = "unpublished"
           /\ outbox[e].status \in DispatchableStatus => Standing(e) = "owed"
           /\ outbox[e].status = "DELIVERED" => Standing(e) = "delivered"
           /\ outbox[e].status = "FAILED_PERMANENT" => Standing(e) = "abandoned"
           /\ outbox'[e].status \in {"ABSENT", "PREPARING"} => Standing(e)' = "unpublished"
           /\ outbox'[e].status \in DispatchableStatus => Standing(e)' = "owed"
           /\ outbox'[e].status = "DELIVERED" => Standing(e)' = "delivered"
           /\ outbox'[e].status = "FAILED_PERMANENT" => Standing(e)' = "abandoned"
<1>1. /\ outbox[e].status \in DispatchableStatus =>
            outbox[e].status \in {"PENDING", "FAILED_RETRYABLE", "DISPATCHING"}
      /\ outbox'[e].status \in DispatchableStatus =>
            outbox'[e].status \in {"PENDING", "FAILED_RETRYABLE", "DISPATCHING"}
  BY DEF DispatchableStatus
<1>2. QED
  BY <1>1 DEF Standing

\* The moves of one row that are moves of its event, or none.
LEMMA RowMoveIsPromised ==
    ASSUME NEW e \in Events, UNCHANGED sent,
           \A f \in Events : f # e => outbox'[f].status = outbox[f].status,
           \/ outbox[e].status = "PREPARING" /\ outbox'[e].status = "PENDING"
           \/ outbox[e].status = "FAILED_PERMANENT" /\ outbox'[e].status = "PENDING"
           \/ /\ outbox[e].status = "DISPATCHING" /\ outbox'[e].status = "DELIVERED"
              /\ sent[e] > 0
           \/ outbox[e].status = "DISPATCHING" /\ outbox'[e].status = "FAILED_PERMANENT"
    PROVE  Promise!Next
<1>1. CASE outbox[e].status = "PREPARING" /\ outbox'[e].status = "PENDING"
  <2>1. Standing(e) = "unpublished" /\ Standing(e)' = "owed"
    BY <1>1, StandingOfStatus DEF DispatchableStatus
  <2>2. Promise!Publish(e)
    BY <2>1, OneStandingMoves DEF Promise!Publish, Promise!Move
  <2>3. QED
    BY <2>2 DEF Promise!Next
<1>2. CASE outbox[e].status = "FAILED_PERMANENT" /\ outbox'[e].status = "PENDING"
  <2>1. Standing(e) = "abandoned" /\ Standing(e)' = "owed"
    BY <1>2, StandingOfStatus DEF DispatchableStatus
  <2>2. Promise!Reopen(e)
    BY <2>1, OneStandingMoves DEF Promise!Reopen, Promise!Move
  <2>3. QED
    BY <2>2 DEF Promise!Next
<1>3. CASE /\ outbox[e].status = "DISPATCHING" /\ outbox'[e].status = "DELIVERED"
           /\ sent[e] > 0
  <2>1. Standing(e) = "owed" /\ Standing(e)' = "delivered"
    BY <1>3, StandingOfStatus DEF DispatchableStatus
  <2>2. Promise!Deliver(e)
    BY <1>3, <2>1, OneStandingMoves DEF Promise!Deliver, Promise!Move
  <2>3. QED
    BY <2>2 DEF Promise!Next
<1>4. CASE outbox[e].status = "DISPATCHING" /\ outbox'[e].status = "FAILED_PERMANENT"
  <2>1. Standing(e) = "owed" /\ Standing(e)' = "abandoned"
    BY <1>4, StandingOfStatus DEF DispatchableStatus
  <2>2. Promise!Abandon(e)
    BY <2>1, OneStandingMoves DEF Promise!Abandon, Promise!Move
  <2>3. QED
    BY <2>2 DEF Promise!Next
<1>5. QED
  BY <1>1, <1>2, <1>3, <1>4

\* A step that sends nothing and moves every row within one standing.
LEMMA RowsStandStill ==
    ASSUME UNCHANGED sent,
           \A f \in Events :
              \/ outbox'[f].status = outbox[f].status
              \/ {outbox[f].status, outbox'[f].status} \subseteq DispatchableStatus
              \/ {outbox[f].status, outbox'[f].status} \subseteq {"ABSENT", "PREPARING"}
    PROVE  UNCHANGED Promise!vars
<1>1. \A f \in Events : Standing(f)' = Standing(f)
  <2> SUFFICES ASSUME NEW f \in Events PROVE Standing(f)' = Standing(f)
    OBVIOUS
  <2>1. CASE outbox'[f].status = outbox[f].status
    BY <2>1 DEF Standing
  <2>2. CASE {outbox[f].status, outbox'[f].status} \subseteq DispatchableStatus
    BY <2>2, StandingOfStatus
  <2>3. CASE {outbox[f].status, outbox'[f].status} \subseteq {"ABSENT", "PREPARING"}
    BY <2>3, StandingOfStatus
  <2>4. QED
    BY <2>1, <2>2, <2>3
<1>2. QED
  BY <1>1 DEF Promise!vars

\* A message accepted for an event is accepted while the event is owed: the
\* invocation that sends it holds the current claim.
LEMMA SendIsPromised ==
    ASSUME TypeOK, ExclusiveInv, NEW p \in Publishers, NEW e \in Events,
           Publish(p, e) \/ PublishLost(p, e)
    PROVE  Promise!Accept(e)
<1>1. /\ task[p][e].phase = "claimed"
      /\ sent' = [sent EXCEPT ![e] = @ + 1]
      /\ UNCHANGED outbox
  BY DEF Publish, PublishLost
<1>2. outbox[e].status = "DISPATCHING"
  BY <1>1 DEF ExclusiveInv, ClaimOutlivesRun, Holds, OwnsAttempt
<1>3. Standing(e) = "owed"
  BY <1>2, StandingOfStatus DEF DispatchableStatus
<1>4. \A f \in Events : Standing(f)' = Standing(f)
  BY <1>1 DEF Standing
<1>5. QED
  BY <1>1, <1>3, <1>4 DEF Promise!Accept

\* Every step of the publishers is a step of the promise or none.
LEMMA EveryStepIsPromised ==
    ASSUME TypeOK, ExclusiveInv, SentBeforeOutcome, [Next]_vars
    PROVE  Promise!Next \/ UNCHANGED Promise!vars
<1>1. ASSUME NEW e \in Events, Prepare(e) \/ Activate(e) \/ Replay(e)
      PROVE  Promise!Next \/ UNCHANGED Promise!vars
  <2>1. UNCHANGED sent /\ \A f \in Events : f # e => outbox'[f] = outbox[f]
    BY <1>1 DEF Prepare, Activate, Replay, TypeOK
  <2>2. outbox[e] \in Row
    BY RowTyped
  <2>3. Prepare(e) => outbox[e].status = "ABSENT" /\ outbox'[e].status = "PREPARING"
    BY <2>2 DEF Prepare, TypeOK, Row
  <2>4. Activate(e) => outbox[e].status = "PREPARING" /\ outbox'[e].status = "PENDING"
    BY <2>2 DEF Activate, TypeOK, Row
  <2>5. Replay(e) => outbox[e].status = "FAILED_PERMANENT" /\ outbox'[e].status = "PENDING"
    BY DEF Replay, UnclaimedRow, TypeOK
  <2>6. QED
    BY <1>1, <2>1, <2>3, <2>4, <2>5, RowMoveIsPromised, RowsStandStill
<1>2. ASSUME NEW p \in Publishers, BeginRun(p) \/ Crash(p)
      PROVE  UNCHANGED Promise!vars
  BY <1>2, RowsStandStill DEF BeginRun, Crash
<1>3. ASSUME NEW p \in Publishers, NEW e \in Events, Claim(p, e) \/ ClaimLost(p, e)
      PROVE  UNCHANGED Promise!vars
  <2>1. UNCHANGED sent /\ \A f \in Events : f # e => outbox'[f] = outbox[f]
    BY <1>3 DEF Claim, ClaimLost, TypeOK
  <2>2. outbox[e].status \in DispatchableStatus
    BY <1>3 DEF Claim, ClaimLost, ClaimCondition, ExclusiveInv, ListedDispatchable
  <2>3. outbox'[e].status \in DispatchableStatus
    BY <1>3 DEF Claim, ClaimLost, ClaimedRow, TypeOK, DispatchableStatus
  <2>4. QED
    BY <2>1, <2>2, <2>3, RowsStandStill
<1>4. ASSUME NEW p \in Publishers, NEW e \in Events,
             \/ SkipClaim(p, e) \/ PublishRefused(p, e) \/ MarkDeliveredStale(p, e)
             \/ MarkFailedStale(p, e) \/ MarkFailedLost(p, e)
      PROVE  UNCHANGED Promise!vars
  BY <1>4, RowsStandStill
  DEF SkipClaim, PublishRefused, MarkDeliveredStale, MarkFailedStale, MarkFailedLost
<1>5. ASSUME NEW p \in Publishers, NEW e \in Events, Publish(p, e) \/ PublishLost(p, e)
      PROVE  Promise!Next
  BY <1>5, SendIsPromised DEF Promise!Next
<1>6. ASSUME NEW p \in Publishers, NEW e \in Events,
             MarkDelivered(p, e) \/ MarkDeliveredLost(p, e)
      PROVE  Promise!Next \/ UNCHANGED Promise!vars
  <2>1. /\ UNCHANGED sent
        /\ task[p][e].phase = "sent" /\ outbox[e].status = "DISPATCHING"
    BY <1>6 DEF MarkDelivered, MarkDeliveredLost, OwnsAttempt
  <2>2. sent[e] > 0
    BY <2>1 DEF SentBeforeOutcome
  <2>3. CASE outbox' = [outbox EXCEPT ![e] = DeliveredRow(e)]
    <3>1. /\ outbox'[e].status = "DELIVERED"
          /\ \A f \in Events : f # e => outbox'[f] = outbox[f]
      BY <2>3 DEF DeliveredRow, UnclaimedRow, TypeOK
    <3>2. QED
      BY <2>1, <2>2, <3>1, RowMoveIsPromised
  <2>4. CASE UNCHANGED outbox
    BY <2>1, <2>4, RowsStandStill
  <2>5. QED
    BY <1>6, <2>3, <2>4 DEF MarkDelivered, MarkDeliveredLost
<1>7. ASSUME NEW p \in Publishers, NEW e \in Events, MarkFailed(p, e)
      PROVE  Promise!Next \/ UNCHANGED Promise!vars
  <2>1. /\ UNCHANGED sent
        /\ outbox[e].status = "DISPATCHING"
        /\ outbox'[e] = FailedRow(e, task[p][e].tries)
        /\ \A f \in Events : f # e => outbox'[f] = outbox[f]
    BY <1>7 DEF MarkFailed, OwnsAttempt, TypeOK
  <2>2. outbox'[e].status \in {"FAILED_PERMANENT", "FAILED_RETRYABLE"}
    BY <2>1 DEF FailedRow, UnclaimedRow
  <2>3. CASE outbox'[e].status = "FAILED_PERMANENT"
    BY <2>1, <2>3, RowMoveIsPromised
  <2>4. CASE outbox'[e].status = "FAILED_RETRYABLE"
    BY <2>1, <2>4, RowsStandStill DEF DispatchableStatus
  <2>5. QED
    BY <2>2, <2>3, <2>4
<1>8. CASE Tick
  BY <1>8, TickKeepsRows, RowsStandStill DEF Tick
<1>9. CASE UNCHANGED vars
  BY <1>9, RowsStandStill DEF vars
<1>10. QED
  BY <1>1, <1>2, <1>3, <1>4, <1>5, <1>6, <1>7, <1>8, <1>9 DEF Next, RunStep, RunFault

\* The publishers implement the safety part of at-least-once delivery: nothing
\* is sent before activation or after the outcome, nothing is recorded as
\* delivered that was not sent, and only an operator reopens what was abandoned.
THEOREM SafetyOfPromise ==
    ASSUME RunTimeout < Lease
    PROVE  Spec => Promise!Init /\ [][Promise!Next]_(Promise!vars)
<1>1. Init => Promise!Init
  BY StandingOfStatus DEF Init, NoRow, Promise!Init
<1>2. TypeOK /\ ExclusiveInv /\ SentBeforeOutcome /\ [Next]_vars
         => [Promise!Next]_(Promise!vars)
  BY EveryStepIsPromised
<1>3. QED
  BY <1>1, <1>2, TypeCorrect, ExclusiveClaims, SendsComeFirst, PTL DEF Spec

=============================================================================
