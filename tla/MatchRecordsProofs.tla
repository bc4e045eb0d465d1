-------------------------- MODULE MatchRecordsProofs --------------------------
(***************************************************************************)
(* TLAPS proofs about Tailoring and MatchRecords, for any number of          *)
(* requests, deletions, retries and faults.                                  *)
(***************************************************************************)
EXTENDS MatchRecords, TLAPS

-----------------------------------------------------------------------------
(* Types.                                                                    *)

MatchRow == [status : {"open", "completed", "absent"}, version : Nat]
ChildRow == [status : ChildStatus, by : Requests \cup {NoRequest}]
EventRow == [status : {"none", "PREPARING", "PENDING"}, by : Requests \cup {NoRequest}]
Phase == InTry \cup {"new", "reserving", "retrying", "done"}
KeyStatus == {"none", "IN_PROGRESS", "COMPLETED", "FAILED_RETRYABLE"}
DispatchRow == [turn : Child \cup {"nobody", "match"},
                step : {"read", "pend", "pendRaced", "send", "mark", "markRaced"},
                expected : {"waiting", "FAILED_RETRYABLE"}]
DispatchTyped == dispatch \in DispatchRow /\ sent \subseteq Child

LEMMA TypeIs ==
    TailoringTypeOK <=>
        /\ match \in MatchRow
        /\ child \in [Child -> ChildRow]
        /\ DispatchTyped
        /\ event \in EventRow
        /\ idem \in [Keys -> KeyStatus]
        /\ req \in [Requests -> Phase]
        /\ applied \subseteq Requests
        /\ faults \in 0..MaxFaults
  BY DEF TailoringTypeOK, MatchRow, ChildRow, EventRow, KeyStatus, Phase, DispatchRow,
     DispatchTyped

LEMMA TypeIsNext ==
    TailoringTypeOK' <=>
        /\ match' \in MatchRow
        /\ child' \in [Child -> ChildRow]
        /\ DispatchTyped'
        /\ event' \in EventRow
        /\ idem' \in [Keys -> KeyStatus]
        /\ req' \in [Requests -> Phase]
        /\ applied' \subseteq Requests
        /\ faults' \in 0..MaxFaults
  BY DEF TailoringTypeOK, MatchRow, ChildRow, EventRow, KeyStatus, Phase, DispatchRow,
     DispatchTyped

LEMMA InitTyped == Init => TypeOK
<1> SUFFICES ASSUME Init PROVE TypeOK
  OBVIOUS
<1>1. match \in MatchRow
  BY DEF Init, TailoringInit, MatchRow
<1>2. child \in [Child -> ChildRow]
  BY DEF Init, TailoringInit, ChildRow, ChildStatus, Waiting
<1>3. event \in EventRow
  BY DEF Init, TailoringInit, EventRow
<1>4. idem \in [Keys -> KeyStatus] /\ req \in [Requests -> Phase] /\ applied \subseteq Requests
  BY DEF Init, TailoringInit, KeyStatus, Phase
<1>5. faults \in 0..MaxFaults
  BY TailoringAssumption DEF Init, TailoringInit
<1>d. DispatchTyped
  BY DEF Init, TailoringInit, Turn, DispatchTyped, DispatchRow
<1>6. TailoringTypeOK
  BY <1>1, <1>2, <1>3, <1>4, <1>5, <1>d, TypeIs
<1>7. del \in [Deletes -> Deletion]
  BY DEF Init, Deletion
<1>8. QED
  BY <1>6, <1>7 DEF Init, TypeOK

-----------------------------------------------------------------------------
(* What a conditional write does to the records.                             *)

RecordsTyped ==
    /\ match' \in MatchRow
    /\ child' \in [Child -> ChildRow]
    /\ event' \in EventRow
    /\ idem' \in [Keys -> KeyStatus]
    /\ applied' \subseteq Requests

LEMMA PutPreparingTyped ==
    ASSUME TailoringTypeOK, NEW r \in Requests, PutPreparing(r) PROVE RecordsTyped
<1>1. [status |-> "PREPARING", by |-> r] \in EventRow
  BY DEF EventRow
<1>2. QED
  BY <1>1, TypeIs DEF PutPreparing, RecordsTyped

LEMMA SetPendingDispatchTyped ==
    ASSUME TailoringTypeOK, NEW r \in Requests, SetPendingDispatch(r) PROVE RecordsTyped
<1>1. [status |-> "QUEUED_PENDING_DISPATCH", by |-> r] \in ChildRow
  BY DEF ChildRow, ChildStatus
<1>2. QED
  BY <1>1, TypeIs DEF SetPendingDispatch, RecordsTyped

LEMMA SetActiveTyped ==
    ASSUME TailoringTypeOK, NEW r \in Requests, SetActive(r) PROVE RecordsTyped
<1>1. event' \in EventRow
  BY TypeIs DEF SetActive, EventRow
<1>2. QED
  BY <1>1, TypeIs DEF SetActive, RecordsTyped

LEMMA SetKeyTyped ==
    ASSUME TailoringTypeOK, NEW r \in Requests, NEW s \in KeyStatus, SetKey(r, s)
    PROVE  RecordsTyped
  BY TypeIs DEF SetKey, RecordsTyped

LEMMA RecordsKept ==
    ASSUME TailoringTypeOK, UNCHANGED records PROVE RecordsTyped
  BY TypeIs DEF records, RecordsTyped

LEMMA GotoTyped ==
    ASSUME TailoringTypeOK, NEW r \in Requests, NEW p \in Phase, Goto(r, p)
    PROVE  req' \in [Requests -> Phase]
  BY TypeIs DEF Goto

LEMMA RaiseIsGoto ==
    ASSUME NEW r, Raise(r) PROVE \E p \in {"retrying", "done"} : Goto(r, p)
  BY DEF Raise

LEMMA FaultTyped ==
    ASSUME faults \in 0..MaxFaults, Fault PROVE faults' \in 0..MaxFaults /\ faults' > 0
  BY TailoringAssumption DEF Fault

LEMMA RequestTyped ==
    ASSUME TailoringTypeOK, NEW r \in Requests, RequestStep(r), UNCHANGED dvars
    PROVE  TailoringTypeOK'
<1> DEFINE P == RecordsTyped /\ req' \in [Requests -> Phase] /\ faults' \in 0..MaxFaults
<1>0. faults \in 0..MaxFaults
  BY DEF TailoringTypeOK
<1>g. ASSUME NEW p \in Phase, Goto(r, p) PROVE req' \in [Requests -> Phase]
  BY <1>g, GotoTyped
<1>h. ASSUME Raise(r) PROVE req' \in [Requests -> Phase]
  BY <1>g, <1>h, RaiseIsGoto DEF Phase
<1>i. InTry \subseteq Phase /\ {"new", "reserving", "retrying", "done"} \subseteq Phase
  BY DEF Phase
<1>1. ASSUME Check(r) PROVE P
  BY <1>0, <1>1, <1>g, <1>i, RecordsKept DEF Check
<1>2. ASSUME Reserve(r) PROVE P
  <2>1. req' \in [Requests -> Phase]
    BY <1>2, <1>g, <1>i DEF Reserve, InTry
  <2>2. idem' \in [Keys -> KeyStatus]
    BY <1>2, TypeIs DEF Reserve, KeyStatus
  <2>3. QED
    BY <1>0, <1>2, <2>1, <2>2, TypeIs DEF Reserve, RecordsTyped
<1>3. ASSUME Read(r) PROVE P
  <2>1. row.status \in ChildStatus
    BY TypeIs DEF row, ChildRow, Child
  <2>2. Goto(r, "preparing") \/ Goto(r, "completing") \/ Raise(r)
    BY <1>3, <2>1 DEF Read, Supported, ChildStatus
  <2>3. req' \in [Requests -> Phase]
    BY <2>2, <1>g, <1>h, <1>i DEF InTry
  <2>4. QED
    BY <1>0, <1>3, <2>3, RecordsKept DEF Read
<1>4. ASSUME Prepare(r) PROVE P
  <2>1. req' \in [Requests -> Phase]
    BY <1>4, <1>g, <1>i DEF Prepare, InTry
  <2>2. QED
    BY <1>0, <1>4, <2>1, PutPreparingTyped, RecordsKept DEF Prepare
<1>5. ASSUME Update(r) PROVE P
  <2>1. req' \in [Requests -> Phase]
    BY <1>5, <1>g, <1>i DEF Update, InTry
  <2>2. QED
    BY <1>0, <1>5, <2>1, SetPendingDispatchTyped, RecordsKept DEF Update
<1>6. ASSUME Compare(r) PROVE P
  <2>1. req' \in [Requests -> Phase]
    BY <1>6, <1>g, <1>i DEF Compare, InTry
  <2>2. QED
    BY <1>0, <1>6, <2>1, RecordsKept DEF Compare
<1>7. ASSUME Activate(r) PROVE P
  <2>1. req' \in [Requests -> Phase]
    BY <1>7, <1>g, <1>i DEF Activate, InTry
  <2>2. QED
    BY <1>0, <1>7, <2>1, SetActiveTyped, RecordsKept DEF Activate
<1>8. ASSUME Reread(r) PROVE P
  <2>1. req' \in [Requests -> Phase]
    BY <1>8, <1>g, <1>h, <1>i DEF Reread, InTry
  <2>2. QED
    BY <1>0, <1>8, <2>1, RecordsKept DEF Reread
<1>9. ASSUME Complete(r) PROVE P
  <2>1. req' \in [Requests -> Phase]
    BY <1>9, <1>g, <1>h, <1>i DEF Complete
  <2>2. RecordsTyped
    BY <1>9, SetKeyTyped, RecordsKept DEF Complete, KeyStatus
  <2>3. QED
    BY <1>0, <1>9, <2>1, <2>2 DEF Complete
<1>10. ASSUME MarkRetryable(r) PROVE P
  <2>1. req' \in [Requests -> Phase]
    BY <1>10, <1>g, <1>i DEF MarkRetryable
  <2>2. RecordsTyped
    BY <1>10, SetKeyTyped, RecordsKept DEF MarkRetryable, KeyStatus
  <2>3. QED
    BY <1>0, <1>10, <2>1, <2>2 DEF MarkRetryable
<1>11. ASSUME CallFails(r) PROVE P
  <2>1. req' \in [Requests -> Phase] /\ faults' \in 0..MaxFaults
    BY <1>0, <1>11, <1>h, FaultTyped DEF CallFails
  <2>2. CASE Write(r)
    <3>1. \/ PutPreparing(r) \/ SetPendingDispatch(r) \/ SetActive(r)
          \/ SetKey(r, "COMPLETED") \/ SetKey(r, "FAILED_RETRYABLE")
      BY <2>2 DEF Write
    <3>2. QED
      BY <2>1, <3>1, PutPreparingTyped, SetPendingDispatchTyped, SetActiveTyped, SetKeyTyped
         DEF KeyStatus
  <2>3. CASE UNCHANGED records
    BY <2>1, <2>3, RecordsKept
  <2>4. QED
    BY <1>11, <2>2, <2>3 DEF CallFails
<1>12. ASSUME Crash(r) PROVE P
  <2>1. req' \in [Requests -> Phase] /\ faults' \in 0..MaxFaults
    BY <1>0, <1>12, <1>g, <1>i, FaultTyped DEF Crash
  <2>2. QED
    BY <1>12, <2>1, RecordsKept DEF Crash
<1>13. P
  BY <1>1, <1>2, <1>3, <1>4, <1>5, <1>6, <1>7, <1>8, <1>9, <1>10, <1>11, <1>12
     DEF RequestStep
<1>14. DispatchTyped'
  BY TypeIs DEF dvars, DispatchTyped
<1>15. QED
  BY <1>13, <1>14, TypeIsNext DEF RecordsTyped

\* The workers of the match and of the tailoring.
WorkersStep ==
    \/ BeginDispatch
    \/ \E c \in Child : DispatchStep(c)
    \/ DispatchFails
    \/ CompleteMatch
    \/ TailoringWorks

LEMMA TurnTyped ==
    ASSUME NEW w \in Child \cup {"nobody", "match"} PROVE Turn(w) \in DispatchRow
  BY DEF Turn, DispatchRow

LEMMA StepToTyped ==
    ASSUME TailoringTypeOK, StepTo("pendRaced") \/ StepTo("send") \/ StepTo("mark")
                            \/ StepTo("markRaced")
    PROVE  dispatch' \in DispatchRow
<1>1. dispatch \in DispatchRow
  BY TypeIs DEF DispatchTyped
<1>2. QED
  BY <1>1 DEF StepTo, DispatchRow

LEMMA NextTurnTyped ==
    ASSUME NextTurn \/ Stop PROVE dispatch' \in DispatchRow
<1>1. \E w \in Child \cup {"nobody", "match"} : dispatch' = Turn(w)
  BY DEF NextTurn, Stop, Child
<1>2. QED
  BY <1>1, TurnTyped

LEMMA SetStatusTyped ==
    ASSUME TailoringTypeOK, NEW c \in Child, NEW s \in ChildStatus, SetStatus(c, s)
    PROVE  /\ child' \in [Child -> ChildRow]
           /\ child'[c].status = s /\ child'[c].by = child[c].by
           /\ \A x \in Child : x # c => child'[x] = child[x]
<1>0. child \in [Child -> ChildRow]
  BY TypeIs
<1>1. [child[c] EXCEPT !.status = s] \in ChildRow
  BY <1>0 DEF ChildRow
<1>2. child' = [child EXCEPT ![c] = [child[c] EXCEPT !.status = s]]
  BY <1>0 DEF SetStatus
<1>3. child'[c] = [child[c] EXCEPT !.status = s]
  BY <1>0, <1>2
<1>4. child'[c].status = s /\ child'[c].by = child[c].by
  BY <1>0, <1>3 DEF ChildRow
<1>5. QED
  BY <1>0, <1>1, <1>2, <1>4

\* What a step of the dispatch does: at most one write, to the child of its turn.
LEMMA DispatchEffects ==
    ASSUME TailoringTypeOK, NEW c \in Child, DispatchStep(c)
    PROVE  /\ dispatch.turn = c /\ dispatch' \in DispatchRow /\ sent' \subseteq Child
           /\ UNCHANGED <<match, event, idem, req, applied, faults>>
           /\ \/ UNCHANGED child
              \/ /\ child[c].status # "absent"
                 /\ SetStatus(c, "QUEUED_PENDING_DISPATCH") \/ SetStatus(c, "processing")
<1>0. /\ child[c].status \in ChildStatus /\ dispatch \in DispatchRow /\ sent \subseteq Child
      /\ dispatch.turn = c
  BY TypeIs DEF ChildRow, DispatchTyped, DispatchStep, ReadChild, PendChild, SendChild,
     MarkChild, ReadAgain, Dispatching
<1>1. CASE ReadChild(c)
  <2>1. ASSUME NEW status \in {"waiting", "FAILED_RETRYABLE"},
               dispatch' = [dispatch EXCEPT !.step = "pend", !.expected = status]
        PROVE  dispatch' \in DispatchRow
    BY <1>0, <2>1 DEF DispatchRow
  <2>2. \/ NextTurn \/ StepTo("send") \/ Stop
        \/ /\ child[c].status \in {"waiting", "FAILED_RETRYABLE"}
           /\ dispatch' = [dispatch EXCEPT !.step = "pend", !.expected = child[c].status]
    BY <1>0, <1>1 DEF ReadChild, Absorbed, ChildStatus
  <2>3. dispatch' \in DispatchRow
    BY <1>0, <2>1, <2>2, NextTurnTyped, StepToTyped
  <2>4. QED
    BY <1>0, <1>1, <2>3 DEF ReadChild
<1>2. CASE PendChild(c)
  <2>1. child[c].status = dispatch.expected => child[c].status # "absent"
    BY <1>0 DEF DispatchRow
  <2>2. QED
    BY <1>0, <1>2, <2>1, StepToTyped DEF PendChild
<1>3. CASE SendChild(c)
  BY <1>0, <1>3, StepToTyped DEF SendChild
<1>4. CASE MarkChild(c)
  BY <1>0, <1>4, NextTurnTyped, StepToTyped DEF MarkChild
<1>5. CASE ReadAgain(c)
  <2>1. NextTurn \/ StepTo("send") \/ Stop
    BY <1>5 DEF ReadAgain
  <2>2. QED
    BY <1>0, <1>5, <2>1, NextTurnTyped, StepToTyped DEF ReadAgain
<1>6. QED
  BY <1>1, <1>2, <1>3, <1>4, <1>5 DEF DispatchStep

LEMMA WorkersTyped ==
    ASSUME TailoringTypeOK, WorkersStep PROVE TailoringTypeOK'
<1>0. /\ match \in MatchRow /\ "tailoring" \in Child /\ faults \in 0..MaxFaults
      /\ {"QUEUED_PENDING_DISPATCH", "processing", "FAILED_RETRYABLE", "completed", "failed"}
            \subseteq ChildStatus
  BY TypeIs DEF Child, ChildStatus
<1>1. CASE BeginDispatch
  <2>1. dispatch' \in DispatchRow
    BY <1>0, <1>1, TurnTyped DEF BeginDispatch
  <2>2. QED
    BY <1>1, <2>1, TypeIs, TypeIsNext DEF BeginDispatch, DispatchTyped
<1>2. ASSUME NEW c \in Child, DispatchStep(c) PROVE TailoringTypeOK'
  <2>1. child' \in [Child -> ChildRow]
    BY <1>0, <1>2, DispatchEffects, SetStatusTyped, TypeIs
  <2>2. DispatchTyped'
    BY <1>2, DispatchEffects DEF DispatchTyped
  <2>3. QED
    BY <1>2, <2>1, <2>2, DispatchEffects, TypeIs, TypeIsNext
<1>3. CASE DispatchFails
  <2>1. DispatchTyped' /\ faults' \in 0..MaxFaults
    BY <1>0, <1>3, TypeIs, NextTurnTyped, FaultTyped DEF DispatchFails, DispatchTyped
  <2>2. QED
    BY <1>3, <2>1, TypeIs, TypeIsNext DEF DispatchFails
<1>4. CASE CompleteMatch
  <2>1. match' \in MatchRow
    <3>1. CASE match.status = "open"
      <4>1. match' = [status |-> "completed", version |-> match.version + 1]
        BY <1>0, <1>4, <3>1 DEF CompleteMatch, MatchRow
      <4>2. QED
        BY <1>0, <4>1 DEF MatchRow
    <3>2. CASE match.status # "open"
      BY <1>0, <1>4, <3>2 DEF CompleteMatch
    <3>3. QED
      BY <3>1, <3>2
  <2>2. DispatchTyped'
    BY <1>4, TypeIs, NextTurnTyped DEF CompleteMatch, DispatchTyped
  <2>3. QED
    BY <1>4, <2>1, <2>2, TypeIs, TypeIsNext DEF CompleteMatch
<1>5. CASE TailoringWorks
  <2>1. child' \in [Child -> ChildRow]
    BY <1>0, <1>5, SetStatusTyped DEF TailoringWorks
  <2>2. DispatchTyped'
    BY <1>5, TypeIs DEF TailoringWorks, DispatchTyped, dvars
  <2>3. QED
    BY <1>5, <2>1, <2>2, TypeIs, TypeIsNext DEF TailoringWorks
<1>6. QED
  BY <1>1, <1>2, <1>3, <1>4, <1>5 DEF WorkersStep

DeletionStep(d) ==
    BeginDelete(d) \/ ListChildren(d) \/ DeleteChild(d) \/ DeleteMatch(d) \/ DeleteFails(d)

LEMMA RemoveChildTyped ==
    ASSUME TailoringTypeOK, NEW c \in Child, RemoveChild(c)
    PROVE  child' \in [Child -> ChildRow]
<1>1. [status |-> "absent", by |-> NoRequest] \in ChildRow
  BY DEF ChildRow, ChildStatus
<1>2. QED
  BY <1>1, TypeIs DEF RemoveChild

LEMMA FirstIsListed ==
    ASSUME TypeOK, NEW d \in Deletes, del[d].todo # {}
    PROVE  First(del[d].todo) \in del[d].todo /\ First(del[d].todo) \in Child
<1>1. del[d].todo \subseteq {"interview", "tailoring"}
  BY DEF TypeOK, Deletion, Child
<1>2. QED
  BY <1>1 DEF First, Child

LEMMA DeletionTyped ==
    ASSUME TypeOK, NEW d \in Deletes, DeletionStep(d) PROVE TypeOK'
<1>0. /\ match \in MatchRow /\ child \in [Child -> ChildRow] /\ faults \in 0..MaxFaults
      /\ del \in [Deletes -> Deletion] /\ TailoringTypeOK
      /\ UNCHANGED <<idem, req, applied, event, dvars>> => TailoringTypeOK' =
            (match' \in MatchRow /\ child' \in [Child -> ChildRow] /\ faults' \in 0..MaxFaults)
  BY TypeIs, TypeIsNext DEF TypeOK, DispatchTyped, dvars
<1>g. ASSUME NEW p \in {"listing", "children", "deleted", "conflict", "missing", "error"},
             GotoDel(d, p)
      PROVE  del' \in [Deletes -> Deletion]
  <2>1. [del[d] EXCEPT !.phase = p] \in Deletion
    BY <1>0 DEF Deletion
  <2>2. QED
    BY <1>0, <1>g, <2>1 DEF GotoDel
<1>1. ASSUME BeginDelete(d) PROVE TypeOK'
  <2>1. del' \in [Deletes -> Deletion]
    <3>1. CASE match.status = "absent"
      BY <1>1, <1>g, <3>1 DEF BeginDelete
    <3>2. CASE match.status # "absent"
      <4>1. PICK v \in 1..match.version :
                del' = [del EXCEPT ![d] =
                          [phase |-> "listing", todo |-> {}, version |-> v]]
        BY <1>1, <3>2 DEF BeginDelete
      <4>2. [phase |-> "listing", todo |-> {}, version |-> v] \in Deletion
        BY <1>0 DEF Deletion, MatchRow
      <4>3. QED
        BY <1>0, <4>1, <4>2
    <3>3. QED
      BY <3>1, <3>2
  <2>2. QED
    BY <1>1, <2>1 DEF BeginDelete, tvars, dvars, TypeOK, TailoringTypeOK
<1>2. ASSUME ListChildren(d) PROVE TypeOK'
  <2> DEFINE listed == {c \in Child : child[c].status # "absent"}
  <2>1. [phase |-> "children", todo |-> listed, version |-> del[d].version] \in Deletion
    BY <1>0 DEF Deletion
  <2>2. del' = [del EXCEPT ![d] = [phase |-> "children", version |-> del[d].version,
                                   todo |-> listed]]
    BY <1>2 DEF ListChildren
  <2> HIDE DEF listed
  <2>3. del' \in [Deletes -> Deletion]
    BY <1>0, <2>1, <2>2
  <2>4. QED
    BY <1>2, <2>3 DEF ListChildren, tvars, dvars, TypeOK, TailoringTypeOK
<1>3. ASSUME DeleteChild(d) PROVE TypeOK'
  <2> DEFINE c == First(del[d].todo)
  <2>1. c \in Child
    BY <1>3, FirstIsListed DEF DeleteChild
  <2>2. \/ RemoveChild(c) /\ del' = [del EXCEPT ![d].todo = @ \ {c}]
        \/ GotoDel(d, "conflict") /\ UNCHANGED child
    BY <1>3 DEF DeleteChild
  <2> HIDE DEF c
  <2>3. child' \in [Child -> ChildRow]
    BY <1>0, <2>1, <2>2, RemoveChildTyped
  <2>4. del' \in [Deletes -> Deletion]
    <3>1. [del[d] EXCEPT !.todo = @ \ {c}] \in Deletion
      BY <1>0 DEF Deletion
    <3>2. QED
      BY <1>0, <1>g, <2>2, <3>1
  <2>5. QED
    BY <1>0, <1>3, <2>3, <2>4 DEF DeleteChild, TypeOK
<1>4. ASSUME DeleteMatch(d) PROVE TypeOK'
  <2>1. match' \in MatchRow
    BY <1>0, <1>4 DEF DeleteMatch, RemoveMatch, MatchRow
  <2>2. del' \in [Deletes -> Deletion]
    BY <1>4, <1>g DEF DeleteMatch
  <2>3. QED
    BY <1>0, <1>4, <2>1, <2>2 DEF DeleteMatch, TypeOK
<1>5. ASSUME DeleteFails(d) PROVE TypeOK'
  <2>1. match' \in MatchRow
    BY <1>0, <1>5 DEF DeleteFails, RemoveMatch, MatchRow
  <2>2. child' \in [Child -> ChildRow]
    BY <1>0, <1>5, RemoveChildTyped, FirstIsListed DEF DeleteFails
  <2>3. del' \in [Deletes -> Deletion]
    BY <1>5, <1>g DEF DeleteFails
  <2>4. faults' \in 0..MaxFaults
    BY <1>0, <1>5, FaultTyped DEF DeleteFails
  <2>5. QED
    BY <1>0, <1>5, <2>1, <2>2, <2>3, <2>4 DEF DeleteFails, TypeOK
<1>6. QED
  BY <1>1, <1>2, <1>3, <1>4, <1>5 DEF DeletionStep

LEMMA ResubmissionTyped ==
    ASSUME TypeOK, NEW s \in Resubmits, ReadMatch(s) \/ EnsureChild(s) PROVE TypeOK'
<1>1. CASE ReadMatch(s)
  BY <1>1 DEF ReadMatch, tvars, dvars, TypeOK, TailoringTypeOK
<1>2. CASE EnsureChild(s)
  <2>1. child \in [Child -> ChildRow] /\ Waiting \in ChildRow
    BY TypeIs DEF TypeOK, Waiting, ChildRow, ChildStatus
  <2>2. child' \in [Child -> ChildRow]
    BY <1>2, <2>1 DEF EnsureChild
  <2>3. resub' \in [Resubmits -> {"new", "tailoring", "interview", "done"}]
    BY <1>2 DEF EnsureChild, TypeOK
  <2>4. remade' \in BOOLEAN
    BY <1>2 DEF EnsureChild, TypeOK
  <2>5. QED
    BY <1>2, <2>2, <2>3, <2>4 DEF EnsureChild, TypeOK, TailoringTypeOK, ChildRow, dvars
<1>3. QED
  BY <1>1, <1>2

LEMMA StepTyped == TypeOK /\ [Next]_vars => TypeOK'
<1> SUFFICES ASSUME TypeOK, [Next]_vars PROVE TypeOK'
  OBVIOUS
<1>1. CASE TailoringNext /\ UNCHANGED <<del, resub, remade>>
  BY <1>1, RequestTyped, WorkersTyped DEF TypeOK, TailoringNext, WorkersStep
<1>2. CASE \E d \in Deletes : DeletionStep(d)
  BY <1>2, DeletionTyped
<1>3. CASE \E s \in Resubmits : ReadMatch(s) \/ EnsureChild(s)
  BY <1>3, ResubmissionTyped
<1>4. CASE UNCHANGED vars
  BY <1>4 DEF vars, tvars, dvars, TypeOK, TailoringTypeOK
<1>5. QED
  BY <1>1, <1>2, <1>3, <1>4 DEF Next, DeletionStep

\* Every variable of MatchRecords keeps its type.
THEOREM TypeCorrect == Spec => []TypeOK
<1>1. QED
  BY InitTyped, StepTyped, PTL DEF Spec

-----------------------------------------------------------------------------
(* The inductive invariant.                                                  *)

Sending == {"updating", "comparing", "activating"}

\* A request between its event and its activation owns the event, and at its
\* activation its update has been applied; so has that of every row's last writer.
SendersAreApplied ==
    /\ \A r \in Requests : req[r] \in Sending => event.status # "none" /\ event.by = r
    /\ \A r \in Requests : req[r] = "activating" => r \in applied
    /\ \A c \in Child : child[c].by # NoRequest => child[c].by \in applied

\* A row that a request has queued is that of the request of the event.
PendingIsSenders == QueuedByRequest => event.status # "none" /\ row.by = event.by

\* The worker of the match is through with its children before tailor_resume takes
\* the match for completed.
DispatchIsFirst ==
    /\ match.status = "completed" => dispatch.turn = "nobody"
    /\ match.status = "open" \/ dispatch.turn # "nobody" =>
          /\ \A r \in Requests : req[r] \in {"new", "done"}
          /\ \A c \in Child : child[c].by = NoRequest

\* A request past its update finds the row waiting only after one of the causes.
UpdateIsSeen ==
    \A r \in Requests : req[r] \in {"comparing", "activating"} =>
        faults > 0 \/ remade \/ row.status # "waiting"

\* A deletion has listed every child there is, or one was created since.
ListingIsComplete ==
    \A d \in Deletes : del[d].phase = "children" =>
        \A c \in Child : child[c].status # "absent" => remade \/ c \in del[d].todo

IInv ==
    /\ TypeOK
    /\ SendersAreApplied
    /\ DispatchAfterUpdate
    /\ DispatchIsFirst
    /\ PendingIsSenders
    /\ StuckNeedsFault
    /\ StrippedNeedsAnswer
    /\ UpdateIsSeen
    /\ BlockedNeedsCause
    /\ ListingIsComplete
    /\ OrphanNeedsResubmission

LEMMA InitInvariant == Init => IInv
<1> SUFFICES ASSUME Init PROVE IInv
  OBVIOUS
<1>1. /\ event.status = "none" /\ \A r \in Requests : req[r] = "new"
      /\ \A d \in Deletes : del[d].phase = "new"
      /\ match.status # "absent"
  BY DEF Init, TailoringInit
<1>2. \A c \in Child : child[c] = Waiting
  BY DEF Init, TailoringInit
<1>3. row.status = "waiting"
  BY <1>2 DEF row, Waiting, Child
<1>4. SendersAreApplied
  BY <1>1, <1>2 DEF SendersAreApplied, Sending, Waiting
<1>5. DispatchAfterUpdate /\ PendingIsSenders /\ StuckNeedsFault
  BY <1>1, <1>3 DEF DispatchAfterUpdate, PendingIsSenders, StuckNeedsFault, QueuedByRequest
<1>6. UpdateIsSeen /\ BlockedNeedsCause /\ ListingIsComplete /\ OrphanNeedsResubmission
  BY <1>1, <1>3
     DEF UpdateIsSeen, BlockedNeedsCause, ListingIsComplete, OrphanNeedsResubmission
<1>7. DispatchIsFirst /\ StrippedNeedsAnswer
  BY <1>1, <1>2 DEF Init, TailoringInit, DispatchIsFirst, StrippedNeedsAnswer, Waiting, Turn
<1>8. QED
  BY InitTyped, <1>4, <1>5, <1>6, <1>7 DEF IInv

-----------------------------------------------------------------------------
(* The kinds of steps of a request.                                          *)

\* A step away from the event: not at it before, not at it after.
Aside(r) ==
    /\ req[r] \notin Sending
    /\ \E p \in Phase \ Sending : Goto(r, p)
    /\ UNCHANGED <<match, child, event, applied, faults>>

\* The event has the identity of this request, just put or found.
ToUpdate(r) ==
    /\ req[r] = "preparing"
    /\ Goto(r, "updating")
    /\ PutPreparing(r) \/ (event.status # "none" /\ event.by = r /\ UNCHANGED records)
    /\ UNCHANGED faults

Fails(r) ==
    /\ \E p \in Phase \ Sending : Goto(r, p)
    /\ faults' > 0
    /\ \/ req[r] = "preparing" /\ PutPreparing(r)
       \/ req[r] = "updating" /\ SetPendingDispatch(r)
       \/ req[r] = "activating" /\ SetActive(r)
       \/ UNCHANGED <<match, child, event, applied>>

LEMMA RequestKinds ==
    ASSUME TailoringTypeOK, NEW r \in Requests, RequestStep(r)
    PROVE  \/ Aside(r) \/ ToUpdate(r) \/ Fails(r)
           \/ Update(r) \/ Compare(r) \/ Activate(r)
<1>0. faults \in 0..MaxFaults
  BY DEF TailoringTypeOK
<1>p. {"reserving", "done", "reading", "preparing", "completing", "retrying", "rereading"}
         \subseteq Phase \ Sending
  BY DEF Phase, InTry, Sending
<1>r. ASSUME Raise(r) PROVE \E p \in Phase \ Sending : Goto(r, p)
  BY <1>r, <1>p DEF Raise
<1>1. CASE Check(r)
  BY <1>1, <1>p DEF Check, records, Aside, Sending
<1>2. CASE Reserve(r)
  BY <1>2, <1>p DEF Reserve, Aside, Sending
<1>3. CASE Read(r)
  <2>1. row.status \in ChildStatus
    BY TypeIs DEF row, ChildRow, Child
  <2>2. Goto(r, "preparing") \/ Goto(r, "completing") \/ Raise(r)
    BY <1>3, <2>1 DEF Read, Supported, ChildStatus
  <2>3. \E p \in Phase \ Sending : Goto(r, p)
    BY <2>2, <1>p, <1>r
  <2>4. QED
    BY <1>3, <2>3 DEF Read, records, Aside, Sending
<1>4. CASE Prepare(r)
  BY <1>4, <1>p DEF Prepare, ToUpdate, Aside, SameEvent, Sending, records
<1>8. CASE Reread(r)
  <2>1. \E p \in Phase \ Sending : Goto(r, p)
    BY <1>8, <1>p, <1>r DEF Reread
  <2>2. QED
    BY <1>8, <2>1 DEF Reread, records, Aside, Sending
<1>9. CASE Complete(r)
  <2>1. \E p \in Phase \ Sending : Goto(r, p)
    BY <1>9, <1>p, <1>r DEF Complete
  <2>2. QED
    BY <1>9, <2>1 DEF Complete, SetKey, records, Aside, Sending
<1>10. CASE MarkRetryable(r)
  BY <1>10, <1>p DEF MarkRetryable, SetKey, records, Aside, Sending
<1>11. CASE CallFails(r)
  <2>1. (\E p \in Phase \ Sending : Goto(r, p)) /\ faults' > 0
    BY <1>0, <1>11, <1>r, FaultTyped DEF CallFails
  <2>2. CASE Write(r)
    BY <2>1, <2>2 DEF Write, SetKey, Fails
  <2>3. CASE UNCHANGED records
    BY <2>1, <2>3 DEF records, Fails
  <2>4. QED
    BY <1>11, <2>2, <2>3 DEF CallFails
<1>12. CASE Crash(r)
  BY <1>0, <1>12, <1>p, FaultTyped DEF Crash, Fails, records
<1>13. QED
  BY <1>1, <1>2, <1>3, <1>4, <1>8, <1>9, <1>10, <1>11, <1>12 DEF RequestStep

\* Where a request step leads: the others stay where they are.
LEMMA GotoMoves ==
    ASSUME TailoringTypeOK, NEW r \in Requests, NEW p, Goto(r, p)
    PROVE  req'[r] = p /\ \A x \in Requests : x # r => req'[x] = req[x]
  BY TypeIs DEF Goto

LEMMA PutPreparingEffect ==
    ASSUME NEW r, PutPreparing(r)
    PROVE  /\ event.status = "none" /\ event'.status = "PREPARING" /\ event'.by = r
           /\ UNCHANGED <<match, child, applied>>
  BY DEF PutPreparing

LEMMA SetPendingDispatchEffect ==
    ASSUME TailoringTypeOK, NEW r, SetPendingDispatch(r)
    PROVE  /\ row.status = "waiting"
           /\ row'.status = "QUEUED_PENDING_DISPATCH" /\ row'.by = r
           /\ \A c \in Child : c # "tailoring" => child'[c] = child[c]
           /\ applied' = applied \cup {r}
           /\ UNCHANGED <<match, event>>
  BY TypeIs DEF SetPendingDispatch, row, Child

LEMMA SetActiveEffect ==
    ASSUME TailoringTypeOK, NEW r, SetActive(r)
    PROVE  /\ event.status = "PREPARING" /\ event.by = r
           /\ event'.status = "PENDING" /\ event'.by = r
           /\ UNCHANGED <<match, child, applied>>
<1>1. event.status = "PREPARING" /\ event.by = r
  BY DEF SetActive
<1>2. event'.status = "PENDING" /\ event'.by = event.by
  BY TypeIs DEF SetActive, EventRow
<1>3. QED
  BY <1>1, <1>2 DEF SetActive

\* What every step of a request does to the event and the rows.
LEMMA RequestEffects ==
    ASSUME TailoringTypeOK, NEW r \in Requests,
           Aside(r) \/ ToUpdate(r) \/ Fails(r) \/ Update(r) \/ Compare(r) \/ Activate(r)
    PROVE  /\ \A x \in Requests : x # r => req'[x] = req[x]
           /\ \/ req[r] = "preparing" /\ PutPreparing(r)
              \/ req[r] = "updating" /\ SetPendingDispatch(r)
              \/ req[r] = "activating" /\ SetActive(r)
              \/ UNCHANGED <<match, child, event, applied>>
<1>1. \E p : Goto(r, p)
  BY DEF Aside, ToUpdate, Fails, Update, Compare, Activate
<1>2. QED
  BY <1>1, GotoMoves DEF Aside, ToUpdate, Fails, Update, Compare, Activate, records

LEMMA RequestsKeepSenders ==
    ASSUME TailoringTypeOK, SendersAreApplied, DispatchAfterUpdate, NEW r \in Requests,
           Aside(r) \/ ToUpdate(r) \/ Fails(r) \/ Update(r) \/ Compare(r) \/ Activate(r)
    PROVE  SendersAreApplied' /\ DispatchAfterUpdate'
<1>n. r # NoRequest
  BY TailoringAssumption
<1>1. event.status # "none" => event'.status # "none" /\ event'.by = event.by
  BY RequestEffects, PutPreparingEffect, SetPendingDispatchEffect, SetActiveEffect
<1>2. applied \subseteq applied'
  BY RequestEffects, PutPreparingEffect, SetPendingDispatchEffect, SetActiveEffect
<1>3. \A c \in Child : child'[c].by # NoRequest => child'[c].by \in applied'
  <2>1. CASE SetPendingDispatch(r)
    BY <2>1, <1>2, SetPendingDispatchEffect DEF SendersAreApplied, row
  <2>2. CASE UNCHANGED child
    BY <2>2, <1>2 DEF SendersAreApplied
  <2>3. QED
    BY <2>1, <2>2, RequestEffects, PutPreparingEffect, SetActiveEffect
<1>4. req'[r] \in Sending => event'.status # "none" /\ event'.by = r
  <2>1. CASE Aside(r) \/ Fails(r)
    BY <2>1, GotoMoves DEF Aside, Fails
  <2>2. CASE ToUpdate(r)
    BY <2>2, PutPreparingEffect DEF ToUpdate, records
  <2>3. CASE Update(r) \/ Compare(r) \/ Activate(r)
    BY <2>3, <1>1 DEF Update, Compare, Activate, SendersAreApplied, Sending
  <2>4. QED
    BY <2>1, <2>2, <2>3
<1>5. req'[r] = "activating" => r \in applied'
  <2>1. CASE Aside(r) \/ Fails(r)
    BY <2>1, GotoMoves DEF Aside, Fails, Sending
  <2>2. CASE ToUpdate(r)
    BY <2>2, GotoMoves DEF ToUpdate
  <2>3. CASE Update(r)
    <3>1. CASE SetPendingDispatch(r)
      BY <3>1, SetPendingDispatchEffect
    <3>2. CASE Goto(r, "comparing")
      BY <3>2, GotoMoves
    <3>3. QED
      BY <2>3, <3>1, <3>2 DEF Update
  <2>4. CASE Compare(r)
    <3>1. CASE row.by = r
      BY <1>n, <1>2, <3>1 DEF SendersAreApplied, row, Child
    <3>2. CASE row.by # r
      <4>1. Goto(r, "rereading")
        BY <2>4, <3>2 DEF Compare
      <4>2. QED
        BY <4>1, GotoMoves
    <3>3. QED
      BY <3>1, <3>2
  <2>5. CASE Activate(r)
    <3>1. Goto(r, "completing") \/ Goto(r, "rereading")
      BY <2>5 DEF Activate
    <3>2. QED
      BY <3>1, GotoMoves
  <2>6. QED
    BY <2>1, <2>2, <2>3, <2>4, <2>5
<1>6. SendersAreApplied'
  BY <1>1, <1>2, <1>3, <1>4, <1>5, RequestEffects DEF SendersAreApplied
<1>7. DispatchAfterUpdate'
  <2>1. CASE req[r] = "activating" /\ SetActive(r)
    BY <2>1, <1>2, SetActiveEffect DEF SendersAreApplied, DispatchAfterUpdate
  <2>2. CASE PutPreparing(r)
    BY <2>2, PutPreparingEffect DEF DispatchAfterUpdate
  <2>3. CASE UNCHANGED event
    BY <2>3, <1>2 DEF DispatchAfterUpdate
  <2>4. QED
    BY <2>1, <2>2, <2>3, RequestEffects, SetPendingDispatchEffect
<1>8. QED
  BY <1>6, <1>7

LEMMA RequestsKeepStuck ==
    ASSUME TailoringTypeOK, SendersAreApplied, PendingIsSenders, StuckNeedsFault,
           NEW r \in Requests,
           Aside(r) \/ ToUpdate(r) \/ Fails(r) \/ Update(r) \/ Compare(r) \/ Activate(r)
    PROVE  PendingIsSenders' /\ StuckNeedsFault'
<1> USE DEF Sending
<1>1. PendingIsSenders'
  <2>1. CASE req[r] = "updating" /\ SetPendingDispatch(r)
    BY <2>1, SetPendingDispatchEffect DEF SendersAreApplied, PendingIsSenders, QueuedByRequest
  <2>2. CASE UNCHANGED child
    <3>1. row' = row
      BY <2>2 DEF row
    <3>2. event.status # "none" => event'.status # "none" /\ event'.by = event.by
      BY RequestEffects, PutPreparingEffect, SetPendingDispatchEffect, SetActiveEffect
    <3>3. QED
      BY <3>1, <3>2 DEF PendingIsSenders, QueuedByRequest
  <2>3. QED
    BY <2>1, <2>2, RequestEffects, PutPreparingEffect, SetActiveEffect
<1>2. ASSUME QueuedByRequest', event'.status # "PENDING"
      PROVE  faults' > 0 \/ \E x \in Requests : Activating(x)'
  <2>1. CASE req[r] = "updating" /\ SetPendingDispatch(r) /\ Goto(r, "activating")
    <3>1. req'[r] = "activating" /\ event'.by = r
      BY <2>1, SetPendingDispatchEffect, GotoMoves DEF SendersAreApplied
    <3>2. QED
      BY <3>1 DEF Activating
  <2>2. CASE Fails(r)
    BY <2>2 DEF Fails
  <2>3. CASE UNCHANGED child /\ ~Fails(r)
    <3>1. row' = row
      BY <2>3 DEF row
    <3>2. event' = event
      <4>1. CASE PutPreparing(r)
        BY <1>2, <3>1, <4>1, PutPreparingEffect DEF PendingIsSenders, QueuedByRequest
      <4>2. CASE SetActive(r)
        BY <1>2, <4>2, SetActiveEffect
      <4>3. QED
        BY <4>1, <4>2, RequestEffects, SetPendingDispatchEffect
    <3>3. UNCHANGED faults
      BY <2>3 DEF Aside, ToUpdate, Update, Compare, Activate
    <3>4. CASE faults > 0
      BY <3>3, <3>4
    <3>5. CASE \E x \in Requests : Activating(x)
      <4>1. PICK x \in Requests : Activating(x)
        BY <3>5
      <4>2. CASE x # r
        BY <3>2, <4>1, <4>2, RequestEffects DEF Activating
      <4>3. CASE x = r
        <5>1. event.by = r /\ req[r] \in Sending
          BY <4>1, <4>3 DEF Activating
        <5>2. CASE Aside(r) \/ ToUpdate(r)
          BY <5>1, <5>2 DEF Aside, ToUpdate
        <5>3. CASE Update(r)
          <6>1. Goto(r, "comparing") \/ Goto(r, "activating")
            BY <5>3 DEF Update
          <6>2. QED
            BY <3>2, <5>1, <6>1, GotoMoves DEF Activating
        <5>4. CASE Compare(r)
          <6>1. row.by = r /\ row.status # "absent"
            BY <1>2, <3>1, <5>1 DEF PendingIsSenders, QueuedByRequest
          <6>2. Goto(r, "activating")
            BY <5>4, <6>1 DEF Compare
          <6>3. QED
            BY <3>2, <5>1, <6>2, GotoMoves DEF Activating
        <5>5. CASE Activate(r)
          <6>1. event.status \in {"PREPARING"}
            BY <1>2, <3>2, <5>1, TypeIs DEF SendersAreApplied, EventRow
          <6>2. event = [status |-> "PREPARING", by |-> r]
            BY <5>1, <6>1, TypeIs DEF EventRow
          <6>3. SetActive(r)
            BY <5>5, <6>2 DEF Activate
          <6>4. QED
            BY <1>2, <6>3, SetActiveEffect
        <5>6. QED
          BY <2>3, <5>2, <5>3, <5>4, <5>5
      <4>4. QED
        BY <4>2, <4>3
    <3>6. QED
      BY <1>2, <3>1, <3>2, <3>4, <3>5 DEF StuckNeedsFault, QueuedByRequest
  <2>4. QED
    <3>1. CASE UNCHANGED child
      BY <2>2, <2>3, <3>1
    <3>2. CASE SetPendingDispatch(r) /\ req[r] = "updating"
      <4>1. CASE Update(r)
        <5>1. Goto(r, "activating")
          BY <3>2, <4>1, SetPendingDispatchEffect DEF Update
        <5>2. QED
          BY <2>1, <3>2, <5>1
      <4>2. QED
        BY <2>2, <3>2, <4>1 DEF Aside, ToUpdate, Compare, Activate
    <3>3. QED
      BY <3>1, <3>2, RequestEffects, PutPreparingEffect, SetActiveEffect
<1>3. QED
  BY <1>1, <1>2 DEF StuckNeedsFault

LEMMA RequestsKeepBlocked ==
    ASSUME TypeOK, SendersAreApplied, UpdateIsSeen, BlockedNeedsCause,
           UNCHANGED remade, NEW r \in Requests,
           Aside(r) \/ ToUpdate(r) \/ Fails(r) \/ Update(r) \/ Compare(r) \/ Activate(r)
    PROVE  UpdateIsSeen' /\ BlockedNeedsCause'
<1> USE DEF Sending
<1>0. TailoringTypeOK
  BY DEF TypeOK
<1>1. CASE Fails(r)
  BY <1>1 DEF Fails, UpdateIsSeen, BlockedNeedsCause
<1>2. CASE remade
  BY <1>2 DEF UpdateIsSeen, BlockedNeedsCause
<1>3. CASE ~Fails(r) /\ ~remade
  <2>1. UNCHANGED faults
    BY <1>3 DEF Aside, ToUpdate, Update, Compare, Activate
  <2>2. CASE faults > 0
    BY <2>1, <2>2 DEF UpdateIsSeen, BlockedNeedsCause
  <2>3. CASE ~(faults > 0)
    <3>1. row'.status = "waiting" => row.status = "waiting" /\ row' = row
      <4>1. CASE UNCHANGED child
        BY <4>1 DEF row
      <4>2. QED
        BY <1>0, <4>1, RequestEffects, PutPreparingEffect, SetPendingDispatchEffect,
           SetActiveEffect
    <3>2. ASSUME row'.status = "waiting" PROVE req'[r] \notin {"comparing", "activating"}
      <4>1. CASE Aside(r)
        BY <1>0, <4>1, GotoMoves DEF Aside
      <4>2. CASE ToUpdate(r)
        BY <1>0, <4>2, GotoMoves DEF ToUpdate
      <4>3. CASE Update(r)
        BY <1>0, <3>1, <3>2, <4>3, SetPendingDispatchEffect DEF Update
      <4>4. CASE Compare(r)
        BY <1>3, <2>3, <3>1, <3>2, <4>4 DEF Compare, UpdateIsSeen
      <4>5. CASE Activate(r)
        BY <1>3, <2>3, <3>1, <3>2, <4>5 DEF Activate, UpdateIsSeen
      <4>6. QED
        BY <1>3, <4>1, <4>2, <4>3, <4>4, <4>5
    <3>3. UpdateIsSeen'
      BY <1>0, <1>3, <2>3, <3>1, <3>2, RequestEffects DEF UpdateIsSeen
    <3>4. ASSUME row'.status = "waiting", event'.status # "none"
          PROVE  \E x \in Requests : Activating(x)'
      <4>1. CASE ToUpdate(r)
        <5>1. req'[r] = "updating" /\ event'.by = r
          BY <1>0, <4>1, GotoMoves, PutPreparingEffect DEF ToUpdate, records
        <5>2. QED
          BY <5>1 DEF Activating
      <4>2. CASE ~ToUpdate(r)
        <5>1. ~PutPreparing(r) \/ req[r] # "preparing"
          BY <1>3, <4>2 DEF Aside, Update, Compare, Activate, PutPreparing
        <5>2. ~(req[r] = "activating")
          BY <1>3, <2>3, <3>1, <3>4 DEF UpdateIsSeen
        <5>3. event' = event
          BY <1>0, <5>1, <5>2, RequestEffects, SetPendingDispatchEffect
        <5>4. PICK x \in Requests : Activating(x)
          BY <1>3, <2>3, <3>1, <3>4, <5>3 DEF BlockedNeedsCause
        <5>5. CASE x # r
          BY <1>0, <5>3, <5>4, <5>5, RequestEffects DEF Activating
        <5>6. CASE x = r
          <6>1. req[r] = "updating"
            BY <1>3, <2>3, <3>1, <3>4, <5>4, <5>6 DEF Activating, UpdateIsSeen
          <6>2. Update(r)
            BY <1>3, <4>2, <6>1 DEF Aside, Compare, Activate
          <6>3. SetPendingDispatch(r)
            BY <3>1, <3>4, <6>2 DEF Update
          <6>4. QED
            BY <1>0, <3>4, <6>3, SetPendingDispatchEffect
        <5>7. QED
          BY <5>5, <5>6
      <4>3. QED
        BY <4>1, <4>2
    <3>5. QED
      BY <3>3, <3>4 DEF BlockedNeedsCause
  <2>4. QED
    BY <2>2, <2>3
<1>4. QED
  BY <1>1, <1>2, <1>3

LEMMA RequestsKeepFirst ==
    ASSUME TailoringTypeOK, DispatchIsFirst, UNCHANGED dvars, NEW r \in Requests, RequestStep(r)
    PROVE  DispatchIsFirst'
<1>1. Aside(r) \/ ToUpdate(r) \/ Fails(r) \/ Update(r) \/ Compare(r) \/ Activate(r)
  BY RequestKinds
<1>2. UNCHANGED <<match, dispatch>>
  BY <1>1, RequestEffects, PutPreparingEffect, SetPendingDispatchEffect, SetActiveEffect
     DEF dvars
<1>3. ASSUME match.status = "open" \/ dispatch.turn # "nobody"
      PROVE  /\ \A x \in Requests : req'[x] \in {"new", "done"}
             /\ \A c \in Child : child'[c].by = NoRequest
  <2>1. req[r] \in {"new", "done"} /\ \A x \in Requests : req[x] \in {"new", "done"}
    BY <1>3 DEF DispatchIsFirst
  <2>2. match.status # "completed"
    BY <1>3 DEF DispatchIsFirst
  <2>3. Check(r)
    BY <2>1 DEF RequestStep, Reserve, Read, Prepare, Update, Compare, Activate, Reread,
       Complete, MarkRetryable, CallFails, Crash, Running, InTry
  <2>4. Goto(r, "done") /\ UNCHANGED child
    BY <2>2, <2>3 DEF Check, records
  <2>5. QED
    BY <1>3, <2>1, <2>4, GotoMoves DEF DispatchIsFirst
<1>4. QED
  BY <1>2, <1>3 DEF DispatchIsFirst

Worked == {"QUEUED_PENDING_DISPATCH", "processing", "FAILED_RETRYABLE", "completed", "failed"}

\* What every other step does: the event and the requests stay, no row that a
\* request has moved is queued, and a child that was absent is there again only if a
\* retry has created it.
Elsewhere ==
    /\ UNCHANGED <<event, req, applied>>
    /\ faults > 0 => faults' > 0
    /\ remade => remade'
    /\ \A c \in Child :
          \/ child'[c] = child[c]
          \/ /\ child[c].status # "absent"
             /\ child'[c].status \in Worked
             /\ child'[c].by = child[c].by
             /\ child'[c].status = "QUEUED_PENDING_DISPATCH" => child[c].by = NoRequest
          \/ child'[c].status = "absent" /\ child'[c].by = NoRequest
          \/ child'[c] = Waiting /\ remade'

LEMMA WorkersElsewhere ==
    ASSUME TypeOK, DispatchIsFirst, UNCHANGED remade, WorkersStep
    PROVE  Elsewhere
<1>0. /\ TailoringTypeOK /\ "tailoring" \in Child /\ faults \in 0..MaxFaults
      /\ Worked \subseteq ChildStatus
  BY TypeIs DEF TypeOK, Child, Worked, ChildStatus
<1>1. CASE BeginDispatch
  BY <1>1 DEF BeginDispatch, Elsewhere
<1>2. ASSUME NEW c \in Child, DispatchStep(c) PROVE Elsewhere
  <2>1. /\ UNCHANGED <<event, req, applied, faults>> /\ child[c].by = NoRequest
        /\ \/ UNCHANGED child
           \/ /\ child[c].status # "absent"
              /\ \E s \in Worked : SetStatus(c, s)
    BY <1>0, <1>2, DispatchEffects DEF Worked, Child, DispatchIsFirst
  <2>2. CASE UNCHANGED child
    BY <2>1, <2>2 DEF Elsewhere
  <2>3. ASSUME NEW s \in Worked, SetStatus(c, s), child[c].status # "absent" PROVE Elsewhere
    <3>1. /\ child'[c].status = s /\ child'[c].by = child[c].by
          /\ \A x \in Child : x # c => child'[x] = child[x]
      BY <1>0, <2>3, SetStatusTyped
    <3>2. QED
      BY <2>1, <2>3, <3>1 DEF Elsewhere
  <2>4. QED
    BY <2>1, <2>2, <2>3
<1>3. CASE DispatchFails
  BY <1>0, <1>3, FaultTyped DEF DispatchFails, Elsewhere
<1>4. CASE CompleteMatch
  BY <1>4 DEF CompleteMatch, Elsewhere
<1>5. CASE TailoringWorks
  <2>1. PICK s \in Worked \ {"QUEUED_PENDING_DISPATCH"} : SetStatus("tailoring", s)
    BY <1>5 DEF TailoringWorks, Worked
  <2>2. child["tailoring"].status # "absent"
    BY <1>5 DEF TailoringWorks, row
  <2>3. /\ child'["tailoring"].status = s /\ child'["tailoring"].by = child["tailoring"].by
        /\ \A x \in Child : x # "tailoring" => child'[x] = child[x]
    BY <1>0, <2>1, SetStatusTyped
  <2>4. QED
    BY <1>5, <2>1, <2>2, <2>3 DEF TailoringWorks, Elsewhere
<1>6. QED
  BY <1>1, <1>2, <1>3, <1>4, <1>5 DEF WorkersStep

LEMMA WorkersKeepFirst ==
    ASSUME TypeOK, DispatchIsFirst, UNCHANGED remade, WorkersStep
    PROVE  DispatchIsFirst'
<1>0. TailoringTypeOK /\ match \in MatchRow
  BY TypeIs DEF TypeOK
<1>1. /\ match'.status = "completed" => dispatch'.turn = "nobody"
      /\ match'.status = "open" \/ dispatch'.turn # "nobody" =>
            match.status = "open" \/ dispatch.turn # "nobody"
  <2>1. CASE BeginDispatch
    BY <2>1 DEF BeginDispatch
  <2>2. ASSUME NEW c \in Child, DispatchStep(c)
        PROVE  dispatch.turn # "nobody" /\ UNCHANGED match /\ match.status # "completed"
    BY <1>0, <2>2, DispatchEffects DEF Child, DispatchIsFirst
  <2>3. CASE DispatchFails
    BY <2>3 DEF DispatchFails, Stop, Turn
  <2>4. CASE CompleteMatch
    BY <2>4 DEF CompleteMatch, Stop, Turn
  <2>5. CASE TailoringWorks
    BY <2>5 DEF TailoringWorks, dvars, DispatchIsFirst
  <2>6. QED
    BY <2>1, <2>2, <2>3, <2>4, <2>5 DEF WorkersStep
<1>2. Elsewhere
  BY WorkersElsewhere
<1>3. QED
  BY <1>1, <1>2 DEF Elsewhere, DispatchIsFirst, Waiting

LEMMA DeletionsElsewhere ==
    ASSUME TypeOK, NEW d \in Deletes, DeletionStep(d)
    PROVE  Elsewhere
<1>0. child \in [Child -> ChildRow] /\ faults \in 0..MaxFaults
  BY TypeIs DEF TypeOK, TailoringTypeOK
<1>1. UNCHANGED <<event, req, applied, remade>>
  BY DEF DeletionStep, BeginDelete, ListChildren, DeleteChild, DeleteMatch, DeleteFails, tvars
<1>2. faults > 0 => faults' > 0
  BY <1>0, FaultTyped
     DEF DeletionStep, BeginDelete, ListChildren, DeleteChild, DeleteMatch, DeleteFails, tvars
<1>3. UNCHANGED child \/ \E c \in Child : RemoveChild(c)
  BY FirstIsListed
     DEF DeletionStep, BeginDelete, ListChildren, DeleteChild, DeleteMatch, DeleteFails, tvars
<1>4. ASSUME NEW c \in Child
      PROVE  \/ child'[c] = child[c]
             \/ child'[c].status = "absent" /\ child'[c].by = NoRequest
  <2>1. CASE \E x \in Child : RemoveChild(x)
    <3>1. PICK x \in Child : RemoveChild(x)
      BY <2>1
    <3>2. child' = [child EXCEPT ![x] = [status |-> "absent", by |-> NoRequest]]
      BY <3>1 DEF RemoveChild
    <3>3. CASE x = c
      <4>1. child'[c] = [status |-> "absent", by |-> NoRequest]
        BY <1>0, <3>2, <3>3
      <4>2. QED
        BY <4>1
    <3>4. CASE x # c
      BY <1>0, <3>2, <3>4
    <3>5. QED
      BY <3>3, <3>4
  <2>2. CASE UNCHANGED child
    BY <2>2
  <2>3. QED
    BY <1>3, <2>1, <2>2
<1>5. QED
  BY <1>1, <1>2, <1>4 DEF Elsewhere

LEMMA ResubmissionsElsewhere ==
    ASSUME TypeOK, NEW s \in Resubmits, ReadMatch(s) \/ EnsureChild(s)
    PROVE  Elsewhere
<1>0. child \in [Child -> ChildRow]
  BY TypeIs DEF TypeOK
<1>1. CASE ReadMatch(s)
  BY <1>1 DEF ReadMatch, tvars, Elsewhere
<1>2. CASE EnsureChild(s)
  BY <1>0, <1>2 DEF EnsureChild, Elsewhere
<1>3. QED
  BY <1>1, <1>2

LEMMA ElsewhereKeeps ==
    ASSUME IInv, Elsewhere
    PROVE  /\ SendersAreApplied' /\ DispatchAfterUpdate'
           /\ PendingIsSenders' /\ StuckNeedsFault'
           /\ UpdateIsSeen' /\ BlockedNeedsCause'
<1>1. \/ row' = row
      \/ /\ row'.status \in Worked /\ row'.by = row.by
         /\ row'.status = "QUEUED_PENDING_DISPATCH" => row.by = NoRequest
      \/ row'.status = "absent"
      \/ row' = Waiting /\ remade'
  BY DEF Elsewhere, row, Child
<1>2. \A r \in Requests : Activating(r) <=> Activating(r)'
  BY DEF Elsewhere, Activating
<1>3. SendersAreApplied' /\ DispatchAfterUpdate'
  BY DEF IInv, Elsewhere, SendersAreApplied, DispatchAfterUpdate, Waiting
<1>4. PendingIsSenders' /\ StuckNeedsFault'
  <2>1. QueuedByRequest' => QueuedByRequest /\ row' = row
    BY <1>1 DEF QueuedByRequest, Waiting
  <2>2. QED
    BY <1>2, <2>1 DEF IInv, Elsewhere, PendingIsSenders, StuckNeedsFault
<1>5. UpdateIsSeen'
  BY <1>1 DEF IInv, Elsewhere, UpdateIsSeen, Worked
<1>6. BlockedNeedsCause'
  BY <1>1, <1>2 DEF IInv, Elsewhere, BlockedNeedsCause, Worked
<1>7. QED
  BY <1>3, <1>4, <1>5, <1>6

\* No child appears without a retry, and no match goes without a deletion.
NothingNew ==
    /\ remade => remade'
    /\ match'.status = "absent" => match.status = "absent"
    /\ \A c \in Child : child'[c].status # "absent" => child[c].status # "absent" \/ remade'

LEMMA RequestsNothingNew ==
    ASSUME TailoringTypeOK, UNCHANGED remade, NEW r \in Requests,
           Aside(r) \/ ToUpdate(r) \/ Fails(r) \/ Update(r) \/ Compare(r) \/ Activate(r)
    PROVE  NothingNew
<1>1. CASE SetPendingDispatch(r)
  <2>1. \A c \in Child : c = "tailoring" => child[c].status # "absent"
    BY <1>1, SetPendingDispatchEffect DEF row
  <2>2. \A c \in Child : c # "tailoring" => child'[c] = child[c]
    BY <1>1, SetPendingDispatchEffect
  <2>3. UNCHANGED match
    BY <1>1, SetPendingDispatchEffect
  <2>4. QED
    BY <2>1, <2>2, <2>3 DEF NothingNew
<1>2. CASE UNCHANGED <<match, child>>
  BY <1>2 DEF NothingNew
<1>3. QED
  BY <1>1, <1>2, RequestEffects, PutPreparingEffect, SetActiveEffect

LEMMA ElsewhereNothingNew ==
    ASSUME Elsewhere, match'.status = "absent" => match.status = "absent"
    PROVE  NothingNew
  BY DEF Elsewhere, NothingNew, Waiting, Worked

LEMMA NothingNewKeeps ==
    ASSUME ListingIsComplete, OrphanNeedsResubmission, NothingNew, UNCHANGED del
    PROVE  ListingIsComplete' /\ OrphanNeedsResubmission'
<1>1. ListingIsComplete'
  BY DEF ListingIsComplete, NothingNew
<1>2. OrphanNeedsResubmission'
  BY DEF OrphanNeedsResubmission, NothingNew
<1>3. QED
  BY <1>1, <1>2

LEMMA WorkersKeepMatch ==
    ASSUME TypeOK, WorkersStep
    PROVE  match'.status = "absent" <=> match.status = "absent"
<1>1. match \in MatchRow /\ TailoringTypeOK
  BY TypeIs DEF TypeOK
<1>2. CASE \E c \in Child : DispatchStep(c)
  BY <1>1, <1>2, DispatchEffects
<1>3. CASE CompleteMatch
  BY <1>1, <1>3 DEF CompleteMatch, MatchRow
<1>4. CASE BeginDispatch \/ DispatchFails \/ TailoringWorks
  BY <1>4 DEF BeginDispatch, DispatchFails, TailoringWorks
<1>5. QED
  BY <1>2, <1>3, <1>4 DEF WorkersStep

\* No child goes without a deletion, and no match appears.
NothingGone ==
    /\ UNCHANGED del
    /\ match.status = "absent" => match'.status = "absent"
    /\ \A c \in Child : child'[c].status = "absent" => child[c].status = "absent"

LEMMA NothingGoneKeeps ==
    ASSUME StrippedNeedsAnswer, NothingGone PROVE StrippedNeedsAnswer'
  BY DEF StrippedNeedsAnswer, NothingGone

LEMMA RequestsNothingGone ==
    ASSUME TailoringTypeOK, UNCHANGED del, NEW r \in Requests,
           Aside(r) \/ ToUpdate(r) \/ Fails(r) \/ Update(r) \/ Compare(r) \/ Activate(r)
    PROVE  NothingGone
<1>1. CASE SetPendingDispatch(r)
  <2>1. \A c \in Child : c = "tailoring" => child'[c].status # "absent"
    BY <1>1, SetPendingDispatchEffect DEF row
  <2>2. UNCHANGED match /\ \A c \in Child : c # "tailoring" => child'[c] = child[c]
    BY <1>1, SetPendingDispatchEffect
  <2>3. QED
    BY <2>1, <2>2 DEF NothingGone
<1>2. CASE UNCHANGED <<match, child>>
  BY <1>2 DEF NothingGone
<1>3. QED
  BY <1>1, <1>2, RequestEffects, PutPreparingEffect, SetActiveEffect

LEMMA WorkersNothingGone ==
    ASSUME TypeOK, UNCHANGED del, WorkersStep PROVE NothingGone
<1>0. TailoringTypeOK /\ "tailoring" \in Child /\ Worked \subseteq ChildStatus
  BY DEF TypeOK, Child, Worked, ChildStatus
<1>1. UNCHANGED child \/ \E c \in Child, s \in Worked : SetStatus(c, s)
  BY <1>0, DispatchEffects DEF WorkersStep, BeginDispatch, DispatchFails, CompleteMatch,
     TailoringWorks, Worked
<1>2. ASSUME NEW x \in Child, child'[x].status = "absent" PROVE child[x].status = "absent"
  <2>1. CASE UNCHANGED child
    BY <1>2, <2>1
  <2>2. ASSUME NEW c \in Child, NEW s \in Worked, SetStatus(c, s)
        PROVE  child[x].status = "absent"
    <3>1. child'[c].status = s /\ \A y \in Child : y # c => child'[y] = child[y]
      BY <1>0, <2>2, SetStatusTyped
    <3>2. QED
      BY <1>2, <3>1 DEF Worked
  <2>3. QED
    BY <1>1, <2>1, <2>2
<1>3. QED
  BY <1>2, WorkersKeepMatch DEF NothingGone

LEMMA ResubmissionsNothingGone ==
    ASSUME TypeOK, NEW s \in Resubmits, ReadMatch(s) \/ EnsureChild(s) PROVE NothingGone
<1>0. child \in [Child -> ChildRow]
  BY TypeIs DEF TypeOK
<1>1. QED
  BY <1>0 DEF ReadMatch, EnsureChild, tvars, NothingGone, Waiting

\* Where a deletion leads: the others stay where they are.
LEMMA GotoDelMoves ==
    ASSUME TypeOK, NEW d \in Deletes, NEW p, GotoDel(d, p)
    PROVE  del'[d].phase = p /\ \A x \in Deletes : x # d => del'[x] = del[x]
<1>1. del \in [Deletes -> Deletion]
  BY DEF TypeOK
<1>2. del'[d] = [del[d] EXCEPT !.phase = p]
  BY <1>1 DEF GotoDel
<1>3. del'[d].phase = p
  BY <1>1, <1>2 DEF Deletion
<1>4. QED
  BY <1>1, <1>3 DEF GotoDel

LEMMA DeletionsKeep ==
    ASSUME IInv, NEW d \in Deletes, DeletionStep(d)
    PROVE  ListingIsComplete' /\ OrphanNeedsResubmission'
<1>0. /\ TypeOK /\ del \in [Deletes -> Deletion] /\ child \in [Child -> ChildRow]
      /\ match \in MatchRow /\ ListingIsComplete /\ OrphanNeedsResubmission
  BY TypeIs DEF IInv, TypeOK
<1>e. Elsewhere
  BY <1>0, DeletionsElsewhere
<1>c. \A c \in Child : child'[c].status # "absent" => child[c].status # "absent" \/ remade'
  BY <1>e DEF Elsewhere, Waiting
<1>m. remade' = remade
  BY DEF DeletionStep, BeginDelete, ListChildren, DeleteChild, DeleteMatch, DeleteFails
<1>o. \A x \in Deletes : x # d => del'[x] = del[x]
  BY <1>0, GotoDelMoves
     DEF DeletionStep, BeginDelete, ListChildren, DeleteChild, DeleteMatch, DeleteFails
<1>1. ASSUME del'[d].phase = "children", NEW c \in Child, child'[c].status # "absent", ~remade
      PROVE  c \in del'[d].todo
  <2>1. CASE BeginDelete(d)
    <3>1. CASE match.status = "absent"
      BY <1>0, <1>1, <2>1, <3>1, GotoDelMoves DEF BeginDelete
    <3>2. CASE match.status # "absent"
      BY <1>0, <1>1, <2>1, <3>2 DEF BeginDelete
    <3>3. QED
      BY <3>1, <3>2
  <2>2. CASE ListChildren(d)
    <3> DEFINE listed == {x \in Child : child[x].status # "absent"}
    <3>1. c \in listed
      BY <1>1, <2>2 DEF ListChildren, tvars
    <3>2. del' = [del EXCEPT ![d] = [phase |-> "children", version |-> del[d].version,
                                     todo |-> listed]]
      BY <2>2 DEF ListChildren
    <3> HIDE DEF listed
    <3>3. del'[d].todo = listed
      BY <1>0, <3>2
    <3>4. QED
      BY <3>1, <3>3
  <2>3. CASE DeleteChild(d)
    <3> DEFINE f == First(del[d].todo)
    <3>1. RemoveChild(f) /\ del' = [del EXCEPT ![d].todo = @ \ {f}]
      BY <1>0, <1>1, <2>3, GotoDelMoves DEF DeleteChild
    <3>2. f \in Child
      BY <1>0, <2>3, FirstIsListed DEF DeleteChild
    <3> HIDE DEF f
    <3>3. c # f /\ child'[c] = child[c]
      <4>1. child' = [child EXCEPT ![f] = [status |-> "absent", by |-> NoRequest]]
        BY <3>1 DEF RemoveChild
      <4>2. child'[f] = [status |-> "absent", by |-> NoRequest]
        BY <1>0, <3>2, <4>1
      <4>3. c # f
        BY <1>1, <4>2
      <4>4. QED
        BY <1>0, <4>1, <4>3
    <3>4. c \in del[d].todo
      BY <1>0, <1>1, <2>3, <3>3 DEF DeleteChild, ListingIsComplete
    <3>5. del'[d] = [del[d] EXCEPT !.todo = @ \ {f}]
      BY <1>0, <3>1
    <3>6. del'[d].todo = del[d].todo \ {f}
      BY <1>0, <3>5 DEF Deletion
    <3>7. QED
      BY <3>3, <3>4, <3>6
  <2>4. CASE DeleteMatch(d)
    BY <1>0, <1>1, <2>4, GotoDelMoves DEF DeleteMatch
  <2>5. CASE DeleteFails(d)
    BY <1>0, <1>1, <2>5, GotoDelMoves DEF DeleteFails
  <2>6. QED
    BY <2>1, <2>2, <2>3, <2>4, <2>5 DEF DeletionStep
<1>2. ListingIsComplete'
  BY <1>0, <1>1, <1>c, <1>m, <1>o DEF ListingIsComplete
<1>3. ASSUME match'.status = "absent", match.status # "absent", NEW c \in Child,
             child'[c].status # "absent"
      PROVE  remade
  <2>1. RemoveMatch(d) /\ del[d].phase = "children" /\ del[d].todo = {}
    BY <1>3 DEF DeletionStep, BeginDelete, ListChildren, DeleteChild, DeleteMatch,
       DeleteFails, tvars
  <2>2. child[c].status # "absent" \/ remade
    BY <1>3, <1>c, <1>m
  <2>3. QED
    BY <1>0, <2>1, <2>2 DEF ListingIsComplete
<1>4. OrphanNeedsResubmission'
  BY <1>0, <1>3, <1>c, <1>m DEF OrphanNeedsResubmission
<1>5. QED
  BY <1>2, <1>4

LEMMA DeletionsKeepStripped ==
    ASSUME TypeOK, StrippedNeedsAnswer, NEW d \in Deletes, DeletionStep(d)
    PROVE  StrippedNeedsAnswer'
<1> DEFINE Answered == {"children", "conflict", "error"}
<1>0. del \in [Deletes -> Deletion] /\ match \in MatchRow
  BY TypeIs DEF TypeOK
<1>1. \A x \in Deletes : x # d => del'[x] = del[x]
  BY <1>0, GotoDelMoves
     DEF DeletionStep, BeginDelete, ListChildren, DeleteChild, DeleteMatch, DeleteFails
<1>2. match.status = "absent" => match'.status = "absent"
  BY DEF DeletionStep, BeginDelete, ListChildren, DeleteChild, DeleteMatch, DeleteFails,
     RemoveMatch, tvars
<1>3. \/ UNCHANGED child
      \/ DeleteChild(d) \/ DeleteFails(d)
  BY DEF DeletionStep, BeginDelete, ListChildren, DeleteMatch, tvars
<1>4. DeleteChild(d) \/ DeleteFails(d) => del'[d].phase \in Answered
  <2>1. CASE DeleteChild(d)
    <3>1. CASE GotoDel(d, "conflict")
      BY <3>1, GotoDelMoves
    <3>2. CASE del' = [del EXCEPT ![d].todo = @ \ {First(del[d].todo)}]
      <4>1. del'[d] = [del[d] EXCEPT !.todo = @ \ {First(del[d].todo)}]
        BY <1>0, <3>2
      <4>2. del'[d].phase = del[d].phase
        BY <1>0, <4>1 DEF Deletion
      <4>3. QED
        BY <2>1, <4>2 DEF DeleteChild
    <3>3. QED
      BY <2>1, <3>1, <3>2 DEF DeleteChild
  <2>2. CASE DeleteFails(d)
    BY <2>2, GotoDelMoves DEF DeleteFails
  <2>3. QED
    BY <2>1, <2>2
<1>5. del[d].phase \in Answered /\ match'.status # "absent" => del'[d].phase \in Answered
  <2>1. CASE DeleteMatch(d)
    <3>1. CASE RemoveMatch(d)
      BY <1>0, <3>1 DEF RemoveMatch, MatchRow
    <3>2. CASE GotoDel(d, "conflict")
      BY <3>2, GotoDelMoves
    <3>3. QED
      BY <2>1, <3>1, <3>2 DEF DeleteMatch
  <2>2. CASE BeginDelete(d) \/ ListChildren(d)
    BY <2>2 DEF BeginDelete, ListChildren
  <2>3. QED
    BY <1>4, <2>1, <2>2 DEF DeletionStep
<1>6. CASE DeleteChild(d) \/ DeleteFails(d)
  BY <1>4, <1>6 DEF StrippedNeedsAnswer
<1>7. CASE UNCHANGED child
  <2>1. ASSUME match'.status # "absent", \E c \in Child : child'[c].status = "absent"
        PROVE  \E x \in Deletes : del'[x].phase \in Answered
    <3>1. PICK x \in Deletes : del[x].phase \in Answered
      BY <1>2, <1>7, <2>1 DEF StrippedNeedsAnswer
    <3>2. del'[x].phase \in Answered
      BY <1>1, <1>5, <2>1, <3>1
    <3>3. QED
      BY <3>2
  <2>2. QED
    BY <2>1 DEF StrippedNeedsAnswer
<1>8. QED
  BY <1>3, <1>6, <1>7

\* Deletions and retries neither move the dispatch nor bring a match to be dispatched.
LEMMA OthersKeepFirst ==
    ASSUME TypeOK, DispatchIsFirst, Elsewhere,
           (\E d \in Deletes : DeletionStep(d))
             \/ (\E s \in Resubmits : ReadMatch(s) \/ EnsureChild(s))
    PROVE  DispatchIsFirst'
<1>1. match \in MatchRow
  BY TypeIs DEF TypeOK
<1>2. UNCHANGED dispatch /\ (match'.status = "absent" \/ UNCHANGED match)
  BY <1>1 DEF DeletionStep, BeginDelete, ListChildren, DeleteChild, DeleteMatch, DeleteFails,
     RemoveMatch, ReadMatch, EnsureChild, tvars, dvars, MatchRow
<1>3. QED
  BY <1>2 DEF DispatchIsFirst, Elsewhere, Waiting

LEMMA StepKeepsInvariant == IInv /\ [Next]_vars => IInv'
<1> SUFFICES ASSUME IInv, [Next]_vars PROVE IInv'
  OBVIOUS
<1>0. TypeOK /\ TailoringTypeOK /\ TypeOK'
  BY StepTyped DEF IInv, TypeOK
<1>1. ASSUME NEW r \in Requests, RequestStep(r), UNCHANGED dvars,
             UNCHANGED <<del, resub, remade>>
      PROVE  IInv'
  <2>1. Aside(r) \/ ToUpdate(r) \/ Fails(r) \/ Update(r) \/ Compare(r) \/ Activate(r)
    BY <1>0, <1>1, RequestKinds
  <2>2. SendersAreApplied' /\ DispatchAfterUpdate'
    BY <1>0, <2>1, RequestsKeepSenders DEF IInv
  <2>3. PendingIsSenders' /\ StuckNeedsFault'
    BY <1>0, <2>1, RequestsKeepStuck DEF IInv
  <2>4. UpdateIsSeen' /\ BlockedNeedsCause'
    BY <1>0, <1>1, <2>1, RequestsKeepBlocked DEF IInv
  <2>5. ListingIsComplete' /\ OrphanNeedsResubmission'
    BY <1>0, <1>1, <2>1, RequestsNothingNew, NothingNewKeeps DEF IInv
  <2>6. StrippedNeedsAnswer'
    BY <1>0, <1>1, <2>1, RequestsNothingGone, NothingGoneKeeps DEF IInv
  <2>7. DispatchIsFirst'
    BY <1>0, <1>1, RequestsKeepFirst DEF IInv
  <2>8. QED
    BY <1>0, <2>2, <2>3, <2>4, <2>5, <2>6, <2>7 DEF IInv
<1>2. ASSUME WorkersStep, UNCHANGED <<del, resub, remade>>
      PROVE  IInv'
  <2>1. Elsewhere
    BY <1>0, <1>2, WorkersElsewhere DEF IInv
  <2>2. ListingIsComplete' /\ OrphanNeedsResubmission'
    BY <1>0, <1>2, <2>1, WorkersKeepMatch, ElsewhereNothingNew, NothingNewKeeps DEF IInv
  <2>3. StrippedNeedsAnswer' /\ DispatchIsFirst'
    BY <1>0, <1>2, WorkersNothingGone, NothingGoneKeeps, WorkersKeepFirst DEF IInv
  <2>4. QED
    BY <1>0, <2>1, <2>2, <2>3, ElsewhereKeeps DEF IInv
<1>3. ASSUME NEW d \in Deletes, DeletionStep(d) PROVE IInv'
  <2>1. Elsewhere
    BY <1>0, <1>3, DeletionsElsewhere
  <2>2. StrippedNeedsAnswer' /\ DispatchIsFirst'
    BY <1>0, <1>3, <2>1, DeletionsKeepStripped, OthersKeepFirst DEF IInv
  <2>3. QED
    BY <1>0, <1>3, <2>1, <2>2, DeletionsKeep, ElsewhereKeeps DEF IInv
<1>4. ASSUME NEW s \in Resubmits, ReadMatch(s) \/ EnsureChild(s) PROVE IInv'
  <2>1. Elsewhere
    BY <1>0, <1>4, ResubmissionsElsewhere
  <2>2. UNCHANGED <<match, del>>
    BY <1>4 DEF ReadMatch, EnsureChild, tvars
  <2>3. ListingIsComplete' /\ OrphanNeedsResubmission'
    BY <2>1, <2>2, ElsewhereNothingNew, NothingNewKeeps DEF IInv
  <2>4. StrippedNeedsAnswer' /\ DispatchIsFirst'
    BY <1>0, <1>4, <2>1, ResubmissionsNothingGone, NothingGoneKeeps, OthersKeepFirst DEF IInv
  <2>5. QED
    BY <1>0, <2>1, <2>3, <2>4, ElsewhereKeeps DEF IInv
<1>5. CASE UNCHANGED vars
  BY <1>0, <1>5
     DEF vars, tvars, IInv, SendersAreApplied, DispatchAfterUpdate, PendingIsSenders,
         StuckNeedsFault, UpdateIsSeen, BlockedNeedsCause, ListingIsComplete,
         OrphanNeedsResubmission, row, Activating, QueuedByRequest, dvars, DispatchIsFirst,
         StrippedNeedsAnswer
<1>6. QED
  BY <1>1, <1>2, <1>3, <1>4, <1>5 DEF Next, TailoringNext, DeletionStep, WorkersStep

-----------------------------------------------------------------------------
(* The results.                                                              *)

\* The inductive invariant holds in every reachable state.
THEOREM InvariantHolds == Spec => []IInv
<1>1. QED
  BY InitInvariant, StepKeepsInvariant, PTL DEF Spec

\* update_item_and_put_outbox activates an event only after the update of the
\* row by the request of that event, however requests, deletions and retries
\* overlap.
THEOREM ActiveEventsHaveTheirUpdate == Spec => []DispatchAfterUpdate
<1>1. IInv => DispatchAfterUpdate
  BY DEF IInv
<1>2. QED
  BY <1>1, InvariantHolds, PTL

\* Overlapping tailor requests, also beside the worker of the match, never strand a
\* row that one of them has queued: that takes a crash or a failed call of
\* update_item_and_put_outbox.
THEOREM StrandingNeedsAFault == Spec => []StuckNeedsFault
<1>1. IInv => StuckNeedsFault
  BY DEF IInv
<1>2. QED
  BY <1>1, InvariantHolds, PTL

\* A waiting tailoring whose event is taken, which tailor_resume can never queue
\* again, comes from a fault or from a child created again, never from requests
\* that only overlap.
THEOREM BlockingNeedsACause == Spec => []BlockedNeedsCause
<1>1. IInv => BlockedNeedsCause
  BY DEF IInv
<1>2. QED
  BY <1>1, InvariantHolds, PTL

\* delete_job_match leaves a child behind its match only if a retry of the
\* submission created it again: not by a failure at any call, nor by several
\* deletions at once.
THEOREM OrphansNeedAResubmission == Spec => []OrphanNeedsResubmission
<1>1. IInv => OrphanNeedsResubmission
  BY DEF IInv
<1>2. QED
  BY <1>1, InvariantHolds, PTL

\* However deletions overlap and fail, a match that is kept without one of its
\* children is the work of a deletion that is in course or has answered with an error.
THEOREM StrippingIsAnswered == Spec => []StrippedNeedsAnswer
<1>1. IInv => StrippedNeedsAnswer
  BY DEF IInv
<1>2. QED
  BY <1>1, InvariantHolds, PTL

=============================================================================
