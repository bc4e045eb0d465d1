--------------------------- MODULE PlacementProofs ---------------------------
(***************************************************************************)
(* TLAPS proofs about Regions, RegionalHealth and Placement, for any         *)
(* topology, any number of sites and works, and any number of faults.        *)
(***************************************************************************)
EXTENDS Placement, FiniteSetTheorems, TLAPS

-----------------------------------------------------------------------------
(* The decisions about regions.                                              *)

\* Publishing only ever uses the queue of a region whose SQS answers, and for an
\* event that names its owner only the owner's.
THEOREM PublishReachesOwner ==
    ASSUME NEW r \in Regions, NEW o \in MaybeRegion, NEW reachable \in SUBSET Regions,
           publish(r, o, reachable) # None
    PROVE  /\ publish(r, o, reachable) \in reachable
           /\ o # None => publish(r, o, reachable) = o
<1> DEFINE placement == evaluate(r, o)
<1>0. r # None /\ None \notin reachable
  BY RegionsAssumption
<1>1. CASE o = None
  <2>1. placement = decide(r, r)
    BY <1>1 DEF evaluate, resolve
  <2>2. placement = [action |-> "EXECUTE_LOCAL", region |-> r]
    BY <2>1 DEF decide
  <2>3. QED
    BY <2>2, <1>1 DEF publish
<1>2. CASE o # None /\ o \notin Configured
  <2>1. placement = [action |-> "INVALID", region |-> None]
    BY <1>2 DEF evaluate, resolve
  <2>2. placement.action = "INVALID"
    BY <2>1
  <2>3. QED
    BY <2>2 DEF publish
<1>3. CASE o # None /\ o \in Configured
  <2>2. placement = decide(r, o)
    BY <1>3 DEF evaluate, resolve
  <2>3. CASE o = r
    <3>1. placement = [action |-> "EXECUTE_LOCAL", region |-> r]
      BY <2>2, <2>3 DEF decide
    <3>2. QED
      BY <3>1, <2>3 DEF publish
  <2>4. CASE o # r
    <3>1. placement = [action |-> "NON_LOCAL_REGION", region |-> o]
      BY <2>2, <2>4, <1>3 DEF decide
    <3>2. publish(r, o, reachable) =
            IF deliver(r, o, reachable) = "DELIVERED" THEN o ELSE None
      BY <3>1 DEF publish
    <3>3. deliver(r, o, reachable) = "DELIVERED" => o \in reachable
      BY <2>4 DEF deliver
    <3>4. QED
      BY <3>2, <3>3
  <2>5. QED
    BY <2>3, <2>4
<1>4. QED
  BY <1>1, <1>2, <1>3

\* A worker is given work without an owner, or of its own region.
LEMMA AuthorizedIsOwner ==
    ASSUME NEW r \in Regions, NEW o \in MaybeRegion
    PROVE  authorized(r, None, o) <=> o \in {None, r}
<1>1. r # None
  BY RegionsAssumption
<1>2. CASE o = None
  <2>1. evaluate_processing_ownership(r, None, o) = "LEGACY_LOCAL"
    BY <1>1, <1>2 DEF evaluate_processing_ownership
  <2>2. QED
    BY <1>2, <2>1 DEF authorized
<1>3. CASE o = r
  <2>1. evaluate_processing_ownership(r, None, o) = "AUTHORIZED"
    BY <1>1, <1>3 DEF evaluate_processing_ownership
  <2>2. QED
    BY <1>3, <2>1 DEF authorized
<1>4. CASE o \notin {None, r}
  <2>1. evaluate_processing_ownership(r, None, o) = "REJECTED"
    BY <1>1, <1>4 DEF evaluate_processing_ownership
  <2>2. QED
    BY <1>4, <2>1 DEF authorized
<1>5. QED
  BY <1>2, <1>3, <1>4

\* Whatever owner the message carries, workers of two regions are never both
\* given a row that names its owner ("ownership is never inferred across
\* regions", evaluate_processing_ownership).
THEOREM OneRegionIsAuthorized ==
    ASSUME NEW r \in Regions, NEW s \in Regions, NEW n \in MaybeRegion,
           NEW k \in MaybeRegion, NEW o \in Regions,
           authorized(r, n, o), authorized(s, k, o)
    PROVE  r = s /\ r = o
<1>1. \A x \in Regions, y \in MaybeRegion : authorized(x, y, o) => x = o
  <2> SUFFICES ASSUME NEW x \in Regions, NEW y \in MaybeRegion, x # o
               PROVE  ~authorized(x, y, o)
    OBVIOUS
  <2>1. x # None /\ o # None
    BY RegionsAssumption
  <2>2. evaluate_processing_ownership(x, y, o) = "REJECTED"
    BY <2>1 DEF evaluate_processing_ownership
  <2>3. QED
    BY <2>2 DEF authorized
<1>2. QED
  BY <1>1

-----------------------------------------------------------------------------
(* The readiness endpoint.                                                   *)

Health == {"HEALTHY", "DEGRADED", "UNAVAILABLE", "UNKNOWN"}
Report == [code : {200, 503}, health : Health]

\* The endpoint answers 200 exactly when it calls the region healthy, whichever
\* of its dependencies answer, and its own checks are never inconclusive.
THEOREM ReadyIsHealthy ==
    ASSUME NEW d \in SUBSET Dependencies
    PROVE  /\ ready(d) \in Report
           /\ ready(d).code = 200 <=> ready(d).health = "HEALTHY"
           /\ ready(d).health # "UNKNOWN"
<1> DEFINE outcome(name) == IF name \in d THEN "pass" ELSE "fail"
           conf == observation("configuration", TRUE)
           db == observation("dynamodb", "dynamodb" \in d)
           sqs == observation("sqs", "sqs" \in d)
           obs == checks(d)
           fresh(dimension, status) ==
             [dimension |-> dimension, status |-> status, age |-> 0, freshness |-> 60]
<1>1. /\ conf = fresh("configuration", "pass")
      /\ db = fresh("persistence", outcome("dynamodb"))
      /\ sqs = fresh("processing", outcome("sqs"))
  BY DEF observation, DEFAULT_OBSERVATION_FRESHNESS_SECONDS
<1>2. obs = {conf, db, sqs}
  BY DEF checks, Dependencies
<1> HIDE DEF conf, db, sqs, obs
<1>3. \A o \in obs : is_fresh(o) /\ o.status \in {"pass", "fail"}
  <2>1. \A dimension, status : is_fresh(fresh(dimension, status))
    BY DEF is_fresh
  <2>2. QED
    BY <1>1, <1>2, <2>1
<1>4. Runtime(obs) = {db, sqs}
  BY <1>1, <1>2 DEF Runtime
<1>5. Classified(obs) = {db, sqs}
  BY <1>4 DEF Classified
<1>6. Statuses(Classified(obs)) = {outcome("dynamodb"), outcome("sqs")}
  BY <1>1, <1>5 DEF Statuses
<1>7. Inconclusive(obs) = ""
  <2>1. "unknown" \notin Statuses(obs)
    BY <1>3 DEF Statuses
  <2>2. obs # {} /\ Runtime(obs) # {}
    BY <1>2, <1>4
  <2>3. QED
    BY <1>3, <2>1, <2>2 DEF Inconclusive
<1>8. (\A o \in obs : o.status = "pass") <=> d = Dependencies
  <2>1. conf.status = "pass"
    BY <1>1
  <2>2. db.status = "pass" <=> "dynamodb" \in d
    BY <1>1
  <2>3. sqs.status = "pass" <=> "sqs" \in d
    BY <1>1
  <2>4. d = Dependencies <=> "dynamodb" \in d /\ "sqs" \in d
    BY DEF Dependencies
  <2>5. QED
    BY <1>2, <2>1, <2>2, <2>3, <2>4
<1>9. classify_observations(obs) =
        IF d = Dependencies THEN "HEALTHY"
        ELSE IF d = {} THEN "UNAVAILABLE" ELSE "DEGRADED"
  <2> DEFINE statuses == Statuses(Classified(obs))
  <2>1. CASE d = Dependencies
    <3>1. statuses = {"pass"}
      BY <1>6, <2>1 DEF Dependencies
    <3> HIDE DEF statuses
    <3>2. QED
      BY <1>7, <2>1, <3>1 DEF classify_observations, statuses
  <2>2. CASE d = {}
    <3>1. statuses = {"fail"}
      BY <1>6, <2>2 DEF Dependencies
    <3>2. statuses # {"pass"} /\ d # Dependencies
      BY <3>1, <2>2 DEF Dependencies
    <3> HIDE DEF statuses
    <3>3. QED
      BY <1>7, <2>2, <3>1, <3>2 DEF classify_observations, statuses
  <2>3. CASE d # Dependencies /\ d # {}
    <3>1. "pass" \in statuses /\ "fail" \in statuses
      BY <1>6, <2>3 DEF Dependencies
    <3>2. statuses # {"pass"} /\ statuses # {"fail"}
      BY <3>1
    <3> HIDE DEF statuses
    <3>3. QED
      BY <1>7, <2>3, <3>2 DEF classify_observations, statuses
  <2>4. QED
    BY <2>1, <2>2, <2>3
<1>10. ready(d) = [code |-> IF d = Dependencies THEN 200 ELSE 503,
                   health |-> classify_observations(obs)]
  BY <1>8 DEF ready, obs
<1>11. QED
  BY <1>9, <1>10 DEF Report, Health

-----------------------------------------------------------------------------
(* Types.                                                                    *)

RowType == [status : Status, owner : MaybeRegion, created : MaybeRegion]
EventType == [status : {"none", "PENDING", "DELIVERED", "FAILED_PERMANENT"},
              owner : MaybeRegion]

LEMMA Constants ==
    /\ Sites \subseteq Regions
    /\ None \notin Sites /\ None \in MaybeRegion
    /\ \A m \in Matches : Tailoring[m] \in Works
    /\ Matches \subseteq Works /\ Analyses \subseteq Works /\ Children \subseteq Works
    /\ Children \cap (Matches \cup Analyses) = {}
    /\ Analyses \cap Matches = {}
    /\ \A m, n \in Matches : Tailoring[m] = Tailoring[n] => m = n
<1>1. Sites \subseteq Regions /\ None \notin Sites /\ None \in MaybeRegion
  BY RegionsAssumption, PlacementAssumption DEF MaybeRegion
<1>2. QED
  BY <1>1, PlacementAssumption DEF Works, Children

LEMMA InitTyped == Init => TypeOK
<1> SUFFICES ASSUME Init PROVE TypeOK
  OBVIOUS
<1> USE Constants
<1>0. PICK legacy \in SUBSET Matches :
        \E created \in [legacy -> Sites] : InitialRecords(legacy, created)
  BY DEF Init
<1>1. PICK created \in [legacy -> Sites] : InitialRecords(legacy, created)
  BY <1>0
<1> USE <1>1 DEF InitialRecords
<1>2. row \in [Works -> RowType]
  <2> SUFFICES ASSUME NEW w \in Works PROVE row[w] \in RowType
    OBVIOUS
  <2>1. CASE w \in legacy
    <3>1. row[w] = [status |-> "QUEUED_PENDING_DISPATCH", owner |-> None,
                    created |-> created[w]]
      BY <2>1 DEF LegacyRow
    <3>2. created[w] \in MaybeRegion
      BY <2>1 DEF MaybeRegion
    <3>3. QED
      BY <3>1, <3>2 DEF RowType, Status
  <2>2. CASE w \notin legacy /\ \E m \in legacy : w = Tailoring[m]
    <3> DEFINE n == CHOOSE m \in legacy : w = Tailoring[m]
    <3>1. n \in legacy
      BY <2>2
    <3> HIDE DEF n
    <3>2. row[w] = [status |-> "waiting", owner |-> None, created |-> created[n]]
      BY <2>2 DEF n, LegacyRow
    <3>3. created[n] \in MaybeRegion
      BY <3>1 DEF MaybeRegion
    <3>4. QED
      BY <3>2, <3>3 DEF RowType, Status
  <2>3. CASE w \notin legacy /\ ~\E m \in legacy : w = Tailoring[m]
    <3>1. row[w] = NoRow
      BY <2>3
    <3>2. QED
      BY <3>1 DEF RowType, Status, NoRow
  <2>4. QED
    BY <2>1, <2>2, <2>3
<1>3. event \in [Works -> EventType]
  BY DEF EventType
<1>4. report \in [Sites -> Report]
  BY ReadyIsHealthy DEF Init
<1>5. 0 \in 0..MaxReplaced /\ 0 \in 0..MaxOutages /\ 0 \in 0..MaxFaults
  BY PlacementAssumption
<1>6. QED
  BY <1>2, <1>3, <1>4, <1>5 DEF Init, TypeOK, RowType, EventType, Report, Health

\* One record with another status.
LEMMA StatusUpdate ==
    ASSUME TypeOK, NEW w \in Works, NEW s \in Status
    PROVE  [row EXCEPT ![w].status = s] \in [Works -> RowType]
<1>1. row \in [Works -> RowType]
  BY DEF TypeOK, RowType
<1>2. [row[w] EXCEPT !.status = s] \in RowType
  BY <1>1 DEF RowType
<1>3. QED
  BY <1>1, <1>2

LEMMA SendTyped ==
    ASSUME TypeOK, NEW w \in Works, NEW target \in Sites, NEW o \in MaybeRegion,
           Send(target, w, o)
    PROVE  queue' \in [Sites -> SUBSET Message]
<1>1. [work |-> w, owner |-> o] \in Message
  BY DEF Message
<1>2. QED
  BY <1>1 DEF Send, TypeOK

LEMMA FaultTyped == faults \in 0..MaxFaults /\ Fault => faults' \in 0..MaxFaults
  BY PlacementAssumption DEF Fault

LEMMA OwnerIsRegion ==
    ASSUME NEW r \in Sites, NEW o \in MaybeRegion
    PROVE  OwnerOf(o, r) \in Regions /\ OwnerOf(None, r) = r
  BY Constants DEF OwnerOf, MaybeRegion

LEMMA OverrideIsMaybe ==
    ASSUME NEW r \in Sites, NEW o \in Overrides(r) PROVE o \in MaybeRegion
  BY DEF Overrides, AllowedOverrides, MaybeRegion

LEMMA MessageIs ==
    ASSUME TypeOK, NEW r \in Sites, NEW msg \in queue[r]
    PROVE  msg \in Message /\ msg.work \in Works /\ msg.owner \in MaybeRegion
  BY DEF TypeOK, Message

-----------------------------------------------------------------------------
(* What happens to a message that a worker has received.                     *)

Present(w) == row[w].status # "absent"

Drops(r, msg) == Reject(r, msg) \/ Redrive(r, msg) \/ Skip(r, msg)
Runs(r, msg) == Work(r, msg) \/ WorkFails(r, msg) \/ LastPass(r, msg)

LEMMA DropKeeps ==
    ASSUME NEW r, NEW msg, Drops(r, msg)
    PROVE  Ack(r, msg) /\ UNCHANGED <<row, event, deps, report, outages,
                                     workedIn, crossed, replaced>>
  BY DEF Drops, Reject, Redrive, Skip, services, history

\* The messages a run of w hands to its children.
Handed(w) == {[work |-> t, owner |-> OwnerOf(row[w].owner, row[w].created)] : t \in Dispatched(w)}

\* Every way a run ends has one form.
LEMMA RunLeaves ==
    ASSUME NEW r, NEW msg, Runs(r, msg)
    PROVE  /\ Claims(r, msg)
           /\ \E status \in Status \ {"absent"}, kept \in BOOLEAN,
                 handed \in SUBSET Dispatched(msg.work) :
                    Leaves(r, msg, status, handed, kept)
<1>1. /\ {"FAILED_RETRYABLE", "WORKER_PROCESSING", "FAILED_PERMANENT", "RESULT_READY",
          Outcome(msg.work)} \subseteq Status \ {"absent"}
      /\ {TRUE, FALSE} = BOOLEAN
      /\ {} \in SUBSET Dispatched(msg.work)
      /\ Dispatched(msg.work) \in SUBSET Dispatched(msg.work)
  BY DEF Status, Outcome
<1>2. CASE Work(r, msg)
  BY <1>1, <1>2 DEF Work
<1>3. CASE LastPass(r, msg)
  BY <1>1, <1>3 DEF LastPass
<1>4. CASE WorkFails(r, msg)
  <2>1. PICK handed \in SUBSET Dispatched(msg.work) :
            \/ \E s \in {"FAILED_RETRYABLE", "WORKER_PROCESSING"} :
                  Leaves(r, msg, s, handed, TRUE)
            \/ Leaves(r, msg, "FAILED_PERMANENT", handed, FALSE)
    BY <1>4 DEF WorkFails
  <2>2. QED
    BY <1>1, <1>4, <2>1 DEF WorkFails
<1>5. QED
  BY <1>2, <1>3, <1>4 DEF Runs

\* A run without a fault hands over all children, unless it does not complete.
LEMMA CleanRunLeaves ==
    ASSUME NEW r, NEW msg, Work(r, msg) \/ LastPass(r, msg)
    PROVE  \E status \in {"completed", "FAILED_PERMANENT", "RESULT_READY"},
              handed \in SUBSET Dispatched(msg.work) :
              /\ Leaves(r, msg, status, handed, FALSE)
              /\ msg.work \notin Matches => status = "completed"
              /\ status = "completed" => handed = Dispatched(msg.work)
<1>1. CASE Work(r, msg)
  <2>1. /\ Outcome(msg.work) \in {"completed", "FAILED_PERMANENT", "RESULT_READY"}
        /\ msg.work \notin Matches => Outcome(msg.work) = "completed"
        /\ Leaves(r, msg, Outcome(msg.work), Dispatched(msg.work), FALSE)
    BY <1>1 DEF Work, Outcome
  <2>2. Dispatched(msg.work) \in SUBSET Dispatched(msg.work)
    OBVIOUS
  <2>3. QED
    BY <2>1, <2>2
<1>2. CASE LastPass(r, msg)
  <2>1. Leaves(r, msg, "RESULT_READY", {}, FALSE) /\ msg.work \in Matches
    BY <1>2 DEF LastPass
  <2>2. {} \in SUBSET Dispatched(msg.work)
    OBVIOUS
  <2>3. QED
    BY <2>1, <2>2
<1>3. QED
  BY <1>1, <1>2

LEMMA RunKeeps ==
    ASSUME NEW r, NEW msg, Runs(r, msg)
    PROVE  /\ UNCHANGED <<event, dead, deps, report, outages, crossed, replaced>>
           /\ workedIn' = [workedIn EXCEPT ![msg.work] = @ \cup {r}]
  BY RunLeaves DEF Claims, services

LEMMA ClaimIsPresent ==
    ASSUME NEW r, NEW msg, Runs(r, msg)
    PROVE  Present(msg.work) /\ Authorized(r, msg.work)
  BY RunLeaves DEF Claims, claimable_statuses, Present

\* A run changes statuses only, of records that are there.
LEMMA RowsAfterRun ==
    ASSUME NEW r, NEW msg, Runs(r, msg)
    PROVE  /\ row' = [x \in Works |-> row'[x]]
           /\ \A x \in Works :
                \/ row'[x] = row[x]
                \/ /\ Present(x)
                   /\ \E s \in Status \ {"absent"} : row'[x] = [row[x] EXCEPT !.status = s]
<1>1. PICK status \in Status \ {"absent"}, kept \in BOOLEAN,
           handed \in SUBSET Dispatched(msg.work) : Leaves(r, msg, status, handed, kept)
  BY RunLeaves
<1>2. row' = [x \in Works |->
            CASE x = msg.work -> [row[x] EXCEPT !.status = status]
              [] x \in handed -> [row[x] EXCEPT !.status = "processing"]
              [] OTHER -> row[x]]
  BY <1>1 DEF Leaves
<1>3. Present(msg.work) /\ \A x \in handed : Present(x)
  BY ClaimIsPresent DEF Dispatched, Present
<1>4. "processing" \in Status \ {"absent"}
  BY DEF Status
<1>5. ASSUME NEW x \in Works
      PROVE  \/ row'[x] = row[x]
             \/ /\ Present(x)
                /\ \E s \in Status \ {"absent"} : row'[x] = [row[x] EXCEPT !.status = s]
  <2>1. CASE x = msg.work /\ x \notin handed
    <3>1. row'[x] = [row[x] EXCEPT !.status = status]
      BY <1>2, <2>1
    <3>2. QED
      BY <1>3, <2>1, <3>1
  <2>2. CASE x # msg.work /\ x \in handed
    <3>1. row'[x] = [row[x] EXCEPT !.status = "processing"]
      BY <1>2, <2>2
    <3>2. QED
      BY <1>3, <1>4, <2>2, <3>1
  <2>3. CASE x # msg.work /\ x \notin handed
    BY <1>2, <2>3
  <2>4. x = msg.work => x \notin handed
    BY Constants DEF Dispatched, Children
  <2>5. QED
    BY <2>1, <2>2, <2>3, <2>4
<1>6. row' = [x \in Works |-> row'[x]]
  BY <1>2
<1>7. QED
  BY <1>5, <1>6

LEMMA QueueAfterRun ==
    ASSUME NEW r, NEW msg, Runs(r, msg)
    PROVE  \E sent \in SUBSET Handed(msg.work), kept \in BOOLEAN :
              queue' = [queue EXCEPT ![r] = (IF kept THEN @ ELSE @ \ {msg}) \cup sent]
<1>1. PICK status \in Status \ {"absent"}, kept \in BOOLEAN,
           handed \in SUBSET Dispatched(msg.work) : Leaves(r, msg, status, handed, kept)
  BY RunLeaves
<1> DEFINE sent == {[work |-> t, owner |-> OwnerOf(row[msg.work].owner, row[msg.work].created)] :
                       t \in handed}
<1>2. queue' = [queue EXCEPT ![r] = (IF kept THEN @ ELSE @ \ {msg}) \cup sent]
  BY <1>1 DEF Leaves
<1>3. sent \in SUBSET Handed(msg.work)
  BY DEF Handed
<1>4. QED
  BY <1>2, <1>3

-----------------------------------------------------------------------------
(* Types, action by action.                                                  *)

LEMMA RowsTyped == ASSUME TypeOK, NEW r \in Sites, SiteStep(r)
                   PROVE  row' \in [Works -> RowType]
<1> USE Constants
<1>0. row \in [Works -> RowType] /\ r \in MaybeRegion
  BY DEF TypeOK, RowType, MaybeRegion
<1>1. ASSUME NEW m \in Matches, NEW o \in Overrides(r), SubmitMatch(r, m, o)
      PROVE  row' \in [Works -> RowType]
  <2> DEFINE new(status) == [status |-> status, owner |-> OwnerOf(None, r), created |-> r]
  <2>1. new("QUEUED_PENDING_DISPATCH") \in RowType /\ new("waiting") \in RowType
    BY <1>0, OwnerIsRegion DEF RowType, Status, MaybeRegion
  <2>2. row' = [row EXCEPT ![m] = new("QUEUED_PENDING_DISPATCH"),
                           ![Tailoring[m]] = new("waiting")]
    BY <1>1 DEF SubmitMatch
  <2> HIDE DEF new
  <2>3. QED
    BY <1>0, <2>1, <2>2
<1>2. ASSUME NEW a \in Analyses, NEW o \in Overrides(r), SubmitAnalysis(r, a, o)
      PROVE  row' \in [Works -> RowType]
  <2>1. [status |-> "QUEUED_PENDING_DISPATCH", owner |-> OwnerOf(o, r), created |-> r]
            \in RowType
    BY <1>0, OwnerIsRegion, OverrideIsMaybe DEF RowType, Status, MaybeRegion
  <2>2. QED
    BY <1>0, <1>2, <2>1 DEF SubmitAnalysis
<1>3. ASSUME NEW m \in Matches, ReplaceChild(r, m)
      PROVE  row' \in [Works -> RowType]
  <2>1. [status |-> "waiting", owner |-> OwnerOf(None, r), created |-> r] \in RowType
    BY <1>0, OwnerIsRegion DEF RowType, Status, MaybeRegion
  <2>2. QED
    BY <1>0, <1>3, <2>1 DEF ReplaceChild
<1>4. ASSUME NEW m \in Matches, TailorResume(r, m)
      PROVE  row' \in [Works -> RowType]
  <2>1. "QUEUED_PENDING_DISPATCH" \in Status /\ Tailoring[m] \in Works
    BY DEF Status
  <2>2. QED
    BY <1>4, <2>1, StatusUpdate DEF TailorResume
<1>5. ASSUME NEW w \in Works, PublishEvent(r, w)
      PROVE  row' \in [Works -> RowType]
  BY <1>0, <1>5 DEF PublishEvent
<1>6. ASSUME NEW a \in Analyses, DispatchAnalysis(r, a)
      PROVE  row' \in [Works -> RowType]
  <2>1. "QUEUED" \in Status
    BY DEF Status
  <2>2. QED
    BY <1>0, <1>6, <2>1, StatusUpdate DEF DispatchAnalysis
<1>7. ASSUME NEW msg \in queue[r], Drops(r, msg)
      PROVE  row' \in [Works -> RowType]
  BY <1>0, <1>7, DropKeeps
<1>8. ASSUME NEW msg \in queue[r], Runs(r, msg)
      PROVE  row' \in [Works -> RowType]
  <2>1. \A x \in Works, s \in Status : [row[x] EXCEPT !.status = s] \in RowType
    BY <1>0 DEF RowType
  <2>2. ASSUME NEW x \in Works PROVE row'[x] \in RowType
    <3>1. row'[x] = row[x] \/ \E s \in Status : row'[x] = [row[x] EXCEPT !.status = s]
      BY <1>8, RowsAfterRun
    <3>2. QED
      BY <1>0, <2>1, <3>1
  <2>3. row' = [x \in Works |-> row'[x]]
    BY <1>8, RowsAfterRun
  <2>4. QED
    BY <2>2, <2>3
<1>9. ASSUME NEW w \in Works, PublishFails(r, w)
      PROVE  row' \in [Works -> RowType]
  BY <1>0, <1>9 DEF PublishFails
<1>10. ASSUME NEW d \in Dependencies, Outage(r, d) \/ Restore(r, d)
       PROVE  row' \in [Works -> RowType]
  BY <1>0, <1>10 DEF Outage, Restore
<1>11. ASSUME Probe(r) PROVE row' \in [Works -> RowType]
  BY <1>0, <1>11 DEF Probe
<1>12. QED
  BY <1>1, <1>2, <1>3, <1>4, <1>5, <1>6, <1>7, <1>8, <1>9, <1>10, <1>11
     DEF SiteStep, Drops, Runs

LEMMA EventsTyped == ASSUME TypeOK, NEW r \in Sites, SiteStep(r)
                     PROVE  event' \in [Works -> EventType]
<1> USE Constants
<1>0. event \in [Works -> EventType]
  BY DEF TypeOK, EventType
<1>1. ASSUME NEW w \in Works, NEW o \in MaybeRegion,
             event' = [event EXCEPT ![w] = [status |-> "PENDING", owner |-> OwnerOf(o, r)]]
      PROVE  event' \in [Works -> EventType]
  <2>1. [status |-> "PENDING", owner |-> OwnerOf(o, r)] \in EventType
    BY OwnerIsRegion DEF EventType, MaybeRegion
  <2>2. QED
    BY <1>0, <1>1, <2>1
<1>2. ASSUME NEW m \in Matches, NEW o \in Overrides(r), SubmitMatch(r, m, o)
      PROVE  event' \in [Works -> EventType]
  BY <1>1, <1>2, OverrideIsMaybe DEF SubmitMatch
<1>3. ASSUME NEW m \in Matches, TailorResume(r, m)
      PROVE  event' \in [Works -> EventType]
  BY <1>1, <1>3 DEF TailorResume
<1>4. ASSUME NEW w \in Works, PublishEvent(r, w) \/ PublishFails(r, w)
      PROVE  event' \in [Works -> EventType]
  <2>1. \A s \in {"DELIVERED", "FAILED_PERMANENT"} : [event[w] EXCEPT !.status = s] \in EventType
    BY <1>0 DEF EventType
  <2>2. QED
    BY <1>0, <1>4, <2>1 DEF PublishEvent, PublishFails, SetEvent
<1>5. ASSUME event' = event PROVE event' \in [Works -> EventType]
  BY <1>0, <1>5
<1>6. ASSUME NEW msg \in queue[r], Drops(r, msg) \/ Runs(r, msg)
      PROVE  event' = event
  BY <1>6, DropKeeps, RunKeeps
<1>7. QED
  BY <1>2, <1>3, <1>4, <1>5, <1>6
     DEF SiteStep, SubmitAnalysis, ReplaceChild, DispatchAnalysis, Outage, Restore, Probe,
         Drops, Runs

LEMMA PublishTarget ==
    ASSUME TypeOK, NEW r \in Sites, NEW w \in Works, PublishEvent(r, w)
    PROVE  LET target == publish(r, event[w].owner, Reachable) IN
           /\ target \in Sites
           /\ event[w].owner \in MaybeRegion
           /\ event[w].owner # None => target = event[w].owner
           /\ Send(target, w, event[w].owner)
<1>1. event[w].owner \in MaybeRegion
  BY DEF TypeOK
<1>2. Reachable \subseteq Sites /\ Reachable \in SUBSET Regions
  BY Constants DEF Reachable
<1>3. publish(r, event[w].owner, Reachable) # None
  BY DEF PublishEvent
<1>4. QED
  BY <1>1, <1>2, <1>3, PublishReachesOwner, Constants DEF PublishEvent

LEMMA HandedTyped ==
    ASSUME TypeOK, NEW w \in Works PROVE Handed(w) \subseteq Message
<1>1. OwnerOf(row[w].owner, row[w].created) \in MaybeRegion
  BY DEF TypeOK, OwnerOf
<1>2. Dispatched(w) \subseteq Works
  BY Constants DEF Dispatched
<1>3. QED
  BY <1>1, <1>2 DEF Handed, Message

LEMMA QueuesTyped == ASSUME TypeOK, NEW r \in Sites, SiteStep(r)
                     PROVE  queue' \in [Sites -> SUBSET Message]
<1> USE Constants
<1>0. queue \in [Sites -> SUBSET Message]
  BY DEF TypeOK
<1>1. ASSUME NEW w \in Works, PublishEvent(r, w)
      PROVE  queue' \in [Sites -> SUBSET Message]
  BY <1>1, PublishTarget, SendTyped
<1>2. ASSUME NEW a \in Analyses, DispatchAnalysis(r, a)
      PROVE  queue' \in [Sites -> SUBSET Message]
  <2>1. row[a].owner \in MaybeRegion
    BY DEF TypeOK
  <2>2. QED
    BY <1>2, <2>1, SendTyped DEF DispatchAnalysis
<1>3. ASSUME NEW msg \in queue[r], Drops(r, msg)
      PROVE  queue' \in [Sites -> SUBSET Message]
  BY <1>0, <1>3, DropKeeps DEF Ack
<1>4. ASSUME NEW msg \in queue[r], Runs(r, msg)
      PROVE  queue' \in [Sites -> SUBSET Message]
  <2>1. PICK sent \in SUBSET Handed(msg.work), kept \in BOOLEAN :
            queue' = [queue EXCEPT ![r] = (IF kept THEN @ ELSE @ \ {msg}) \cup sent]
    BY <1>4, QueueAfterRun
  <2>2. Handed(msg.work) \subseteq Message
    BY MessageIs, HandedTyped
  <2>3. QED
    BY <1>0, <2>1, <2>2
<1>5. ASSUME queue' = queue PROVE queue' \in [Sites -> SUBSET Message]
  BY <1>0, <1>5
<1>6. QED
  BY <1>1, <1>2, <1>3, <1>4, <1>5
     DEF SiteStep, SubmitMatch, SubmitAnalysis, ReplaceChild, TailorResume, PublishFails,
         Drops, Runs, Outage, Restore, Probe

LEMMA DeadTyped == ASSUME TypeOK, NEW r \in Sites, SiteStep(r)
                   PROVE  dead' \in [Sites -> SUBSET Message]
<1>0. dead \in [Sites -> SUBSET Message]
  BY DEF TypeOK
<1>1. ASSUME NEW msg \in queue[r], Reject(r, msg) \/ Redrive(r, msg)
      PROVE  dead' \in [Sites -> SUBSET Message]
  BY <1>0, <1>1, MessageIs DEF Reject, Redrive
<1>2. ASSUME dead' = dead PROVE dead' \in [Sites -> SUBSET Message]
  BY <1>0, <1>2
<1>3. ASSUME NEW msg \in queue[r], Runs(r, msg)
      PROVE  dead' = dead
  BY <1>3, RunKeeps
<1>4. QED
  BY <1>1, <1>2, <1>3
     DEF SiteStep, SubmitMatch, SubmitAnalysis, ReplaceChild, TailorResume, PublishEvent,
         PublishFails, DispatchAnalysis, Skip, Runs, Outage, Restore, Probe

LEMMA ServicesTyped == ASSUME TypeOK, NEW r \in Sites, SiteStep(r)
                       PROVE  /\ deps' \in [Sites -> SUBSET Dependencies]
                              /\ report' \in [Sites -> Report]
                              /\ outages' \in 0..MaxOutages
<1> DEFINE P == /\ deps' \in [Sites -> SUBSET Dependencies]
                /\ report' \in [Sites -> Report]
                /\ outages' \in 0..MaxOutages
<1>0. /\ deps \in [Sites -> SUBSET Dependencies]
      /\ report \in [Sites -> Report]
      /\ outages \in 0..MaxOutages
  BY DEF TypeOK, Report, Health
<1>1. ASSUME NEW d \in Dependencies, Outage(r, d) PROVE P
  BY <1>0, <1>1, PlacementAssumption DEF Outage
<1>2. ASSUME NEW d \in Dependencies, Restore(r, d) PROVE P
  BY <1>0, <1>2 DEF Restore
<1>3. ASSUME Probe(r) PROVE P
  BY <1>0, <1>3, ReadyIsHealthy DEF Probe
<1>4. ASSUME UNCHANGED services PROVE P
  BY <1>0, <1>4 DEF services
<1>5. ASSUME NEW msg \in queue[r], Drops(r, msg) \/ Runs(r, msg)
      PROVE  UNCHANGED services
  BY <1>5, DropKeeps, RunKeeps DEF services
<1> HIDE DEF P
<1>6. P
  BY <1>1, <1>2, <1>3, <1>4, <1>5
     DEF SiteStep, SubmitMatch, SubmitAnalysis, ReplaceChild, TailorResume, PublishEvent,
         PublishFails, DispatchAnalysis, Drops, Runs
<1>7. QED
  BY <1>6 DEF P

LEMMA HistoryTyped == ASSUME TypeOK, NEW r \in Sites, SiteStep(r)
                      PROVE  /\ workedIn' \in [Works -> SUBSET Sites]
                             /\ crossed' \subseteq Works
                             /\ replaced' \in 0..MaxReplaced
                             /\ faults' \in 0..MaxFaults
<1> DEFINE P == /\ workedIn' \in [Works -> SUBSET Sites]
                /\ crossed' \subseteq Works
                /\ replaced' \in 0..MaxReplaced
                /\ faults' \in 0..MaxFaults
<1> USE Constants
<1>0. /\ workedIn \in [Works -> SUBSET Sites]
      /\ crossed \subseteq Works
      /\ replaced \in 0..MaxReplaced
      /\ faults \in 0..MaxFaults
      /\ Fault => faults' \in 0..MaxFaults
  BY FaultTyped DEF TypeOK
<1>1. ASSUME NEW m \in Matches, NEW o \in Overrides(r), SubmitMatch(r, m, o) PROVE P
  BY <1>0, <1>1 DEF SubmitMatch, Cross
<1>2. ASSUME NEW m \in Matches, ReplaceChild(r, m) PROVE P
  BY <1>0, <1>2, PlacementAssumption DEF ReplaceChild, Cross
<1>3. ASSUME NEW m \in Matches, TailorResume(r, m) PROVE P
  BY <1>0, <1>3 DEF TailorResume, Cross
<1>4. ASSUME NEW msg \in queue[r], Runs(r, msg) PROVE P
  <2>1. faults' = faults \/ Fault
    BY <1>4 DEF Runs, Work, WorkFails, LastPass
  <2>2. QED
    BY <1>0, <1>4, <2>1, RunKeeps
<1>5. ASSUME UNCHANGED history, faults' = faults \/ Fault PROVE P
  BY <1>0, <1>5 DEF history
<1>6. ASSUME NEW w \in Works, PublishEvent(r, w) \/ PublishFails(r, w)
      PROVE  UNCHANGED history /\ (faults' = faults \/ Fault)
  BY <1>6 DEF PublishEvent, PublishFails
<1>7. ASSUME NEW a \in Analyses, DispatchAnalysis(r, a)
      PROVE  UNCHANGED history /\ (faults' = faults \/ Fault)
  BY <1>7 DEF DispatchAnalysis
<1>8. ASSUME NEW msg \in queue[r], Drops(r, msg)
      PROVE  UNCHANGED history /\ (faults' = faults \/ Fault)
  BY <1>8, DropKeeps DEF Drops, Reject, Redrive, Skip, history
<1> HIDE DEF P
<1>9. P
  BY <1>1, <1>2, <1>3, <1>4, <1>5, <1>6, <1>7, <1>8
     DEF SiteStep, SubmitAnalysis, Drops, Runs, Outage, Restore, Probe
<1>10. QED
  BY <1>9 DEF P

LEMMA StepTyped == TypeOK /\ [Next]_vars => TypeOK'
<1> SUFFICES ASSUME TypeOK, [Next]_vars PROVE TypeOK'
  OBVIOUS
<1>1. ASSUME NEW r \in Sites, SiteStep(r) PROVE TypeOK'
  BY <1>1, RowsTyped, EventsTyped, QueuesTyped, DeadTyped, ServicesTyped, HistoryTyped
     DEF TypeOK, RowType, EventType, Report, Health
<1>2. CASE UNCHANGED vars
  BY <1>2 DEF vars, TypeOK
<1>3. QED
  BY <1>1, <1>2 DEF Next

\* Every variable of Placement keeps its type.
THEOREM TypeCorrect == Spec => []TypeOK
<1>1. QED
  BY InitTyped, StepTyped, PTL DEF Spec

-----------------------------------------------------------------------------
(* What a step does to the owners, the events, the messages and the workers  *)
(* of a work.                                                                *)

SameOwner(w) == row'[w].owner = row[w].owner /\ (Present(w)' <=> Present(w))

\* A record keeps its owner, unless it is a child that is created again.
RowChange(w) ==
    /\ Present(w) => Present(w)'
    /\ \/ SameOwner(w)
       \/ ~Present(w) /\ Present(w)' /\ row'[w].owner # None /\ workedIn'[w] = workedIn[w]
       \/ w \in Children /\ w \in crossed' /\ workedIn'[w] = {} /\ row'[w].owner # None

LEMMA StatusChange ==
    ASSUME TypeOK, NEW w \in Works, Present(w), NEW s \in Status \ {"absent"},
           row' = [row EXCEPT ![w].status = s]
    PROVE  \A x \in Works : SameOwner(x)
<1>1. \A x \in Works : row[x] \in RowType
  BY DEF TypeOK, RowType
<1>2. row'[w].status = s /\ row'[w].owner = row[w].owner
  BY <1>1 DEF TypeOK, RowType
<1>3. \A x \in Works \ {w} : row'[x] = row[x]
  BY DEF TypeOK
<1>4. QED
  BY <1>2, <1>3 DEF SameOwner, Present

\* A match and its child are submitted together.
Together == \A m \in Matches : Present(m) <=> Present(Tailoring[m])

LEMMA RowsChange ==
    ASSUME TypeOK, Together, NEW r \in Sites, SiteStep(r), NEW w \in Works
    PROVE  RowChange(w)
<1> USE Constants
<1>0. row \in [Works -> RowType] /\ workedIn \in [Works -> SUBSET Sites]
  BY DEF TypeOK, RowType
<1>1. ASSUME NEW m \in Matches, NEW o \in Overrides(r), SubmitMatch(r, m, o)
      PROVE  RowChange(w)
  <2>1. CASE w \in {m, Tailoring[m]}
    <3>1. row'[w].owner = r /\ Present(w)' /\ ~Present(w)
      BY <1>0, <1>1, <2>1, OwnerIsRegion DEF SubmitMatch, IsNew, Present, Together
    <3>2. workedIn'[w] = workedIn[w]
      BY <1>1 DEF SubmitMatch
    <3>3. QED
      BY <3>1, <3>2 DEF RowChange
  <2>2. CASE w \notin {m, Tailoring[m]}
    <3>1. row'[w] = row[w]
      BY <1>0, <1>1, <2>2 DEF SubmitMatch
    <3>2. QED
      BY <3>1 DEF RowChange, SameOwner, Present
  <2>3. QED
    BY <2>1, <2>2
<1>2. ASSUME NEW a \in Analyses, NEW o \in Overrides(r), SubmitAnalysis(r, a, o)
      PROVE  RowChange(w)
  <2>1. OwnerOf(o, r) # None
    BY OwnerIsRegion, OverrideIsMaybe, RegionsAssumption
  <2>2. CASE w = a
    <3>1. row'[w].owner # None /\ Present(w)' /\ ~Present(w)
      BY <1>0, <1>2, <2>1, <2>2 DEF SubmitAnalysis, IsNew, Present
    <3>2. workedIn'[w] = workedIn[w]
      BY <1>2 DEF SubmitAnalysis, history
    <3>3. QED
      BY <3>1, <3>2 DEF RowChange
  <2>3. CASE w # a
    <3>1. row'[w] = row[w]
      BY <1>0, <1>2, <2>3 DEF SubmitAnalysis
    <3>2. QED
      BY <3>1 DEF RowChange, SameOwner, Present
  <2>4. QED
    BY <2>2, <2>3
<1>3. ASSUME NEW m \in Matches, ReplaceChild(r, m)
      PROVE  RowChange(w)
  <2>1. CASE w = Tailoring[m]
    <3>1. row'[w].owner = r /\ Present(w)' /\ Present(w)
      BY <1>0, <1>3, <2>1, OwnerIsRegion DEF ReplaceChild, Present, Together
    <3>2. workedIn'[w] = {} /\ w \in Children
      BY <1>0, <1>3, <2>1 DEF ReplaceChild, Children
    <3>3. row[w].owner # r => w \in crossed'
      BY <1>3, <2>1 DEF ReplaceChild, Cross
    <3>4. QED
      BY <3>1, <3>2, <3>3 DEF RowChange, SameOwner
  <2>2. CASE w # Tailoring[m]
    <3>1. row'[w] = row[w]
      BY <1>0, <1>3, <2>2 DEF ReplaceChild
    <3>2. QED
      BY <3>1 DEF RowChange, SameOwner, Present
  <2>3. QED
    BY <2>1, <2>2
<1>4. ASSUME NEW x \in Works, Present(x), NEW s \in Status \ {"absent"},
             row' = [row EXCEPT ![x].status = s]
      PROVE  RowChange(w)
  BY <1>4, StatusChange DEF RowChange, SameOwner
<1>5. ASSUME NEW m \in Matches, TailorResume(r, m) PROVE RowChange(w)
  <2>1. Present(Tailoring[m]) /\ Tailoring[m] \in Works
    BY <1>5 DEF TailorResume, Present
  <2>2. "QUEUED_PENDING_DISPATCH" \in Status \ {"absent"}
    BY DEF Status
  <2>3. QED
    BY <1>4, <1>5, <2>1, <2>2 DEF TailorResume
<1>6. ASSUME row' = row PROVE RowChange(w)
  BY <1>6 DEF RowChange, SameOwner, Present
<1>7. ASSUME NEW a \in Analyses, DispatchAnalysis(r, a) PROVE RowChange(w)
  <2>1. Present(a) /\ "QUEUED" \in Status \ {"absent"}
    BY <1>7 DEF DispatchAnalysis, Present, Status
  <2>2. QED
    BY <1>4, <1>6, <1>7, <2>1 DEF DispatchAnalysis
<1>8. ASSUME NEW msg \in queue[r], Runs(r, msg) PROVE RowChange(w)
  <2>1. CASE row'[w] = row[w]
    BY <2>1 DEF RowChange, SameOwner, Present
  <2>2. CASE /\ Present(w)
             /\ \E s \in Status \ {"absent"} : row'[w] = [row[w] EXCEPT !.status = s]
    <3>1. row'[w].status # "absent" /\ row'[w].owner = row[w].owner
      BY <1>0, <2>2 DEF RowType
    <3>2. QED
      BY <2>2, <3>1 DEF RowChange, SameOwner, Present
  <2>3. QED
    BY <1>8, <2>1, <2>2, RowsAfterRun
<1>9. ASSUME NEW msg \in queue[r], Drops(r, msg) PROVE RowChange(w)
  BY <1>6, <1>9, DropKeeps
<1>10. QED
  BY <1>1, <1>2, <1>3, <1>5, <1>6, <1>7, <1>8, <1>9
     DEF SiteStep, PublishEvent, PublishFails, Drops, Runs, Outage, Restore, Probe

\* An event is written by a request, for a record of its region or one that is
\* crossed, or by the publisher.
EventChange(w) ==
    \/ event'[w] = event[w]
    \/ event[w].status = "PENDING" /\ event'[w].owner = event[w].owner
    \/ Present(w)' /\ event'[w].owner # None
         /\ (w \in crossed' \/ ~Owned(w)' \/ event'[w].owner = row'[w].owner)

LEMMA EventsChange ==
    ASSUME TypeOK, NEW r \in Sites, SiteStep(r), NEW w \in Works
    PROVE  EventChange(w)
<1> USE Constants
<1>0. row \in [Works -> RowType] /\ event \in [Works -> EventType] /\ r # None
  BY DEF TypeOK, RowType, EventType
<1>1. ASSUME NEW m \in Matches, NEW o \in Overrides(r), SubmitMatch(r, m, o)
      PROVE  EventChange(w)
  <2>1. CASE w = m
    <3>1. event'[w].owner = OwnerOf(o, r) /\ OwnerOf(o, r) # None
      BY <1>0, <1>1, <2>1, OwnerIsRegion, OverrideIsMaybe, RegionsAssumption DEF SubmitMatch
    <3>2. row'[w].owner = r /\ Present(w)'
      BY <1>0, <1>1, <2>1, OwnerIsRegion DEF SubmitMatch, Present
    <3>3. OwnerOf(o, r) # r => w \in crossed'
      BY <1>1, <2>1 DEF SubmitMatch, Cross
    <3>4. QED
      BY <3>1, <3>2, <3>3 DEF EventChange
  <2>2. CASE w # m
    BY <1>0, <1>1, <2>2 DEF SubmitMatch, EventChange
  <2>3. QED
    BY <2>1, <2>2
<1>2. ASSUME NEW m \in Matches, TailorResume(r, m) PROVE EventChange(w)
  <2>1. CASE w = Tailoring[m]
    <3>1. event'[w].owner = r
      BY <1>0, <1>2, <2>1, OwnerIsRegion DEF TailorResume
    <3>2. row'[w].owner = row[w].owner /\ Present(w)'
      BY <1>0, <1>2, <2>1 DEF TailorResume, Present, RowType
    <3>3. row[w].owner \notin {None, r} => w \in crossed'
      BY <1>2, <2>1 DEF TailorResume, Cross
    <3>4. QED
      BY <1>0, <3>1, <3>2, <3>3 DEF EventChange, Owned
  <2>2. CASE w # Tailoring[m]
    BY <1>0, <1>2, <2>2 DEF TailorResume, EventChange
  <2>3. QED
    BY <2>1, <2>2
<1>3. ASSUME NEW x \in Works, PublishEvent(r, x) \/ PublishFails(r, x) PROVE EventChange(w)
  <2>1. CASE w = x
    <3>1. event[w].status = "PENDING"
      BY <1>3, <2>1 DEF PublishEvent, PublishFails
    <3>2. event'[w].owner = event[w].owner
      BY <1>0, <1>3, <2>1 DEF PublishEvent, PublishFails, SetEvent, EventType
    <3>3. QED
      BY <3>1, <3>2 DEF EventChange
  <2>2. CASE w # x
    BY <1>0, <1>3, <2>2 DEF PublishEvent, PublishFails, SetEvent, EventChange
  <2>3. QED
    BY <2>1, <2>2
<1>4. ASSUME event' = event PROVE EventChange(w)
  BY <1>4 DEF EventChange
<1>5. ASSUME NEW msg \in queue[r], Drops(r, msg) \/ Runs(r, msg)
      PROVE  event' = event
  BY <1>5, DropKeeps, RunKeeps
<1>6. QED
  BY <1>1, <1>2, <1>3, <1>4, <1>5
     DEF SiteStep, SubmitAnalysis, ReplaceChild, DispatchAnalysis, Drops, Runs, Outage,
         Restore, Probe

\* Messages of w enter the queue of site s in three ways.
Published(s, msg) ==
    /\ event[msg.work].status = "PENDING"
    /\ msg.owner = event[msg.work].owner
    /\ msg.owner # None => msg.owner = s

DispatchedAt(s, msg) ==
    /\ msg.owner = s
    /\ row[msg.work].owner = s
    /\ Present(msg.work)

HandedAt(s, msg) ==
    \E m \in Matches :
        /\ msg.work = Tailoring[m]
        /\ Present(m) /\ Present(msg.work)
        /\ row[m].owner \in {None, s}
        /\ row[m].owner = s => msg.owner = s

Entered(s, msg) ==
    msg.work \in Works /\ (Published(s, msg) \/ DispatchedAt(s, msg) \/ HandedAt(s, msg))

LEMMA MessagesEnter ==
    ASSUME TypeOK, NEW r \in Sites, SiteStep(r), NEW s \in Sites,
           NEW msg \in queue'[s], msg \notin queue[s]
    PROVE  Entered(s, msg)
<1> USE Constants
<1>0. queue \in [Sites -> SUBSET Message] /\ \A x \in Sites : x # None /\ x \in Regions
  BY DEF TypeOK
<1>1. ASSUME NEW w \in Works, NEW target \in Sites, NEW o, Send(target, w, o)
      PROVE  s = target /\ msg.work = w /\ msg.owner = o
  BY <1>0, <1>1 DEF Send
<1>2. ASSUME NEW w \in Works, PublishEvent(r, w) PROVE Entered(s, msg)
  <2> DEFINE target == publish(r, event[w].owner, Reachable)
  <2>1. /\ target \in Sites
        /\ event[w].owner # None => target = event[w].owner
        /\ Send(target, w, event[w].owner)
    BY <1>2, PublishTarget
  <2> HIDE DEF target
  <2>2. s = target /\ msg.work = w /\ msg.owner = event[w].owner
    BY <1>1, <2>1
  <2>3. event[w].status = "PENDING"
    BY <1>2 DEF PublishEvent
  <2>4. QED
    BY <2>1, <2>2, <2>3 DEF Entered, Published
<1>3. ASSUME NEW a \in Analyses, DispatchAnalysis(r, a) PROVE Entered(s, msg)
  <2>1. Send(r, a, r) /\ row[a].owner = r /\ Present(a)
    BY <1>3 DEF DispatchAnalysis, Present
  <2>2. s = r /\ msg.work = a /\ msg.owner = r
    BY <1>1, <2>1
  <2>3. QED
    BY <2>1, <2>2 DEF Entered, DispatchedAt
<1>4. ASSUME NEW x \in queue[r], Runs(r, x) PROVE Entered(s, msg)
  <2> DEFINE w == x.work
  <2>1. PICK sent \in SUBSET Handed(w), kept \in BOOLEAN :
            queue' = [queue EXCEPT ![r] = (IF kept THEN @ ELSE @ \ {x}) \cup sent]
    BY <1>4, QueueAfterRun
  <2>2. s = r /\ msg \in Handed(w)
    BY <1>0, <2>1
  <2>3. PICK t \in Dispatched(w) :
            msg = [work |-> t, owner |-> OwnerOf(row[w].owner, row[w].created)]
    BY <2>2 DEF Handed
  <2>4. w \in Matches /\ t = Tailoring[w] /\ Present(t) /\ t \in Works
    BY <2>3 DEF Dispatched, Present
  <2>5. Present(w) /\ Authorized(r, w)
    BY <1>4, ClaimIsPresent
  <2>6. row[w].owner \in {None, r}
    BY <2>4, <2>5, AuthorizedIsOwner DEF Authorized, TypeOK
  <2>7. row[w].owner = r => msg.owner = r
    BY <1>0, <2>3 DEF OwnerOf
  <2> HIDE DEF w
  <2>8. QED
    BY <2>2, <2>3, <2>4, <2>5, <2>6, <2>7 DEF Entered, HandedAt
<1>5. ASSUME NEW x \in queue[r], Drops(r, x) PROVE FALSE
  BY <1>0, <1>5, DropKeeps DEF Ack
<1>6. QED
  BY <1>2, <1>3, <1>4, <1>5
     DEF SiteStep, SubmitMatch, SubmitAnalysis, ReplaceChild, TailorResume, PublishFails,
         Drops, Runs, Outage, Restore, Probe

LEMMA DeadWereQueued ==
    ASSUME TypeOK, NEW r \in Sites, SiteStep(r), NEW s \in Sites
    PROVE  dead'[s] \subseteq dead[s] \cup queue[s]
<1>1. ASSUME NEW msg \in queue[r], Reject(r, msg) \/ Redrive(r, msg)
      PROVE  dead'[s] \subseteq dead[s] \cup queue[s]
  BY <1>1 DEF Reject, Redrive, TypeOK
<1>2. ASSUME NEW msg \in queue[r], Runs(r, msg)
      PROVE  dead' = dead
  BY <1>2, RunKeeps
<1>3. QED
  BY <1>1, <1>2
     DEF SiteStep, SubmitMatch, SubmitAnalysis, ReplaceChild, TailorResume, PublishEvent,
         PublishFails, DispatchAnalysis, Skip, Runs, Outage, Restore, Probe

\* A site that begins to work on w may.
WorkedChange(r, w) ==
    \/ workedIn'[w] = workedIn[w]
    \/ workedIn'[w] = {} /\ w \in crossed' \cup Children
    \/ /\ workedIn'[w] = workedIn[w] \cup {r}
       /\ row[w].owner \in {None, r}
       /\ Present(w)

LEMMA WorkersChange ==
    ASSUME TypeOK, NEW r \in Sites, SiteStep(r), NEW w \in Works
    PROVE  WorkedChange(r, w)
<1> USE Constants
<1>0. workedIn \in [Works -> SUBSET Sites]
  BY DEF TypeOK
<1>1. ASSUME NEW m \in Matches, ReplaceChild(r, m) PROVE WorkedChange(r, w)
  <2>1. w = Tailoring[m] => workedIn'[w] = {} /\ w \in Children
    BY <1>0, <1>1 DEF ReplaceChild, Children
  <2>2. w # Tailoring[m] => workedIn'[w] = workedIn[w]
    BY <1>0, <1>1 DEF ReplaceChild
  <2>3. QED
    BY <2>1, <2>2 DEF WorkedChange
<1>2. ASSUME NEW msg \in queue[r], Runs(r, msg)
      PROVE  WorkedChange(r, w)
  <2>1. workedIn' = [workedIn EXCEPT ![msg.work] = @ \cup {r}]
    BY <1>2, RunKeeps
  <2>2. CASE w = msg.work
    <3>1. workedIn'[w] = workedIn[w] \cup {r}
      BY <1>0, <2>1, <2>2
    <3>2. Present(w) /\ Authorized(r, w)
      BY <1>2, <2>2, ClaimIsPresent
    <3>3. row[w].owner \in {None, r}
      BY <3>2, AuthorizedIsOwner DEF Authorized, TypeOK
    <3>4. QED
      BY <3>1, <3>2, <3>3 DEF WorkedChange
  <2>3. CASE w # msg.work
    BY <1>0, <2>1, <2>3 DEF WorkedChange
  <2>4. QED
    BY <2>2, <2>3
<1>3. ASSUME UNCHANGED workedIn PROVE WorkedChange(r, w)
  BY <1>3 DEF WorkedChange
<1>4. ASSUME NEW msg \in queue[r], Drops(r, msg) PROVE UNCHANGED workedIn
  BY <1>4, DropKeeps
<1>5. QED
  BY <1>1, <1>2, <1>3, <1>4
     DEF SiteStep, SubmitMatch, SubmitAnalysis, TailorResume, PublishEvent, PublishFails,
         DispatchAnalysis, Drops, Runs, Outage, Restore, Probe, history

LEMMA CrossedGrows ==
    ASSUME NEW r \in Sites, SiteStep(r) PROVE crossed \subseteq crossed'
<1>1. ASSUME NEW msg \in queue[r], Drops(r, msg) \/ Runs(r, msg)
      PROVE  crossed' = crossed
  BY <1>1, DropKeeps, RunKeeps
<1>2. QED
  BY <1>1
     DEF SiteStep, SubmitMatch, SubmitAnalysis, ReplaceChild, TailorResume, PublishEvent,
         PublishFails, DispatchAnalysis, Drops, Runs, Outage, Restore, Probe, history, Cross

-----------------------------------------------------------------------------
(* The inductive invariant.                                                  *)

\* What has not been submitted has no event, no message and no worker.
Fresh ==
    \A w \in Works : ~Present(w) =>
        /\ event[w].status = "none"
        /\ workedIn[w] = {}
        /\ \A s \in Sites : \A msg \in queue[s] \cup dead[s] : msg.work # w

\* Unless its work has been crossed, an event names the owner of the record.
EventOwner ==
    \A w \in Works :
        event[w].status # "none" /\ Owned(w) /\ w \notin crossed
            => event[w].owner = row[w].owner

\* Unless it has been crossed, a child has the owner of its match.
ChildOwner ==
    \A m \in Matches :
        Owned(Tailoring[m]) /\ Tailoring[m] \notin crossed
            => row[Tailoring[m]].owner = row[m].owner

\* Only workers of the owner have claimed the work.
WorkedAtHome == \A w \in Works : Owned(w) => workedIn[w] \subseteq {row[w].owner}

IInv ==
    /\ TypeOK
    /\ Together
    /\ Fresh
    /\ EventOwner
    /\ ChildOwner
    /\ WorkedAtHome
    /\ StrandedNeedsCrossing
    /\ MessagesReachOwner

LEMMA InitIInv == Init => IInv
<1> SUFFICES ASSUME Init PROVE IInv
  OBVIOUS
<1> USE Constants
<1>0. PICK legacy \in SUBSET Matches :
        \E created \in [legacy -> Sites] : InitialRecords(legacy, created)
  BY DEF Init
<1>1. PICK created \in [legacy -> Sites] : InitialRecords(legacy, created)
  BY <1>0
<1>2. \A w \in Works : row[w].owner = None
  BY <1>1 DEF InitialRecords, LegacyRow, NoRow
<1>3. \A w \in legacy : Present(w)
  BY <1>1 DEF InitialRecords, LegacyRow, Present
<1>4. \A w \in Works : ~Present(w) => event[w].status = "none"
  BY <1>1, <1>3 DEF InitialRecords
<1>5. Together
  <2> SUFFICES ASSUME NEW m \in Matches PROVE Present(m) <=> Present(Tailoring[m])
    BY DEF Together
  <2>1. Tailoring[m] \notin legacy /\ \A n \in Matches : m # Tailoring[n]
    BY DEF Children
  <2>2. CASE m \in legacy
    BY <1>1, <1>3, <2>1, <2>2 DEF InitialRecords, LegacyRow, Present
  <2>3. CASE m \notin legacy
    <3>1. ~\E n \in legacy : Tailoring[m] = Tailoring[n]
      BY <2>3
    <3>2. row[m] = NoRow /\ row[Tailoring[m]] = NoRow
      BY <1>1, <2>1, <2>3, <3>1 DEF InitialRecords
    <3>3. QED
      BY <3>2 DEF NoRow, Present
  <2>4. QED
    BY <2>2, <2>3
<1>6. Fresh
  BY <1>4 DEF Init, Fresh
<1>7. EventOwner /\ ChildOwner /\ WorkedAtHome
  BY <1>2 DEF EventOwner, ChildOwner, WorkedAtHome, Owned
<1>8. StrandedNeedsCrossing /\ MessagesReachOwner
  BY DEF Init, StrandedNeedsCrossing, MessagesReachOwner
<1>9. QED
  BY InitTyped, <1>5, <1>6, <1>7, <1>8 DEF IInv

LEMMA StepTogether ==
    ASSUME IInv, NEW r \in Sites, SiteStep(r) PROVE Together'
<1> SUFFICES ASSUME NEW m \in Matches PROVE Present(m)' <=> Present(Tailoring[m])'
  BY DEF Together
<1>0. TypeOK /\ Together /\ row \in [Works -> RowType]
  BY DEF IInv, TypeOK, RowType
<1>a. m \in Works /\ Tailoring[m] \in Works
  BY Constants
<1>b. \A x \in Analyses \cup Matches : Tailoring[m] # x
  BY Constants DEF Children
<1>c. /\ \A a \in Analyses : m # a
      /\ \A n \in Matches : Tailoring[n] # m /\ (Tailoring[n] = Tailoring[m] => n = m)
  BY Constants DEF Children
<1>1. CASE Present(m)
  BY <1>0, <1>1, <1>a, RowsChange DEF RowChange, Together
<1>2. CASE ~Present(m)
  <2>1. ~Present(Tailoring[m])
    BY <1>0, <1>2 DEF Together
  <2>2. ASSUME NEW n \in Matches, NEW o \in Overrides(r), SubmitMatch(r, n, o)
        PROVE  Present(m)' <=> Present(Tailoring[m])'
    <3>1. CASE m = n
      BY <1>0, <1>a, <1>b, <1>c, <2>2, <3>1 DEF SubmitMatch, Present
    <3>2. CASE m # n
      <4>1. row'[m] = row[m] /\ row'[Tailoring[m]] = row[Tailoring[m]]
        BY <1>0, <1>a, <1>b, <1>c, <2>2, <3>2 DEF SubmitMatch
      <4>2. QED
        BY <1>2, <2>1, <4>1 DEF Present
    <3>3. QED
      BY <3>1, <3>2
  <2>3. ASSUME row'[m] = row[m] /\ row'[Tailoring[m]] = row[Tailoring[m]]
        PROVE  Present(m)' <=> Present(Tailoring[m])'
    BY <1>2, <2>1, <2>3 DEF Present
  <2>4. ASSUME NEW a \in Analyses, NEW o \in Overrides(r), SubmitAnalysis(r, a, o)
        PROVE  row'[m] = row[m] /\ row'[Tailoring[m]] = row[Tailoring[m]]
    BY <1>0, <1>a, <1>b, <1>c, <2>4 DEF SubmitAnalysis
  <2>5. ASSUME NEW n \in Matches, ReplaceChild(r, n)
        PROVE  row'[m] = row[m] /\ row'[Tailoring[m]] = row[Tailoring[m]]
    <3>1. n # m
      BY <1>2, <2>5 DEF ReplaceChild, Present
    <3>2. QED
      BY <1>0, <1>a, <1>b, <1>c, <2>5, <3>1 DEF ReplaceChild
  <2>6. ASSUME NEW n \in Matches, TailorResume(r, n)
        PROVE  row'[m] = row[m] /\ row'[Tailoring[m]] = row[Tailoring[m]]
    <3>1. n # m
      BY <1>2, <2>6 DEF TailorResume, Present
    <3>2. QED
      BY <1>0, <1>a, <1>b, <1>c, <2>6, <3>1 DEF TailorResume
  <2>7. ASSUME NEW a \in Analyses, DispatchAnalysis(r, a)
        PROVE  row'[m] = row[m] /\ row'[Tailoring[m]] = row[Tailoring[m]]
    BY <1>0, <1>a, <1>b, <1>c, <2>7 DEF DispatchAnalysis
  <2>8. ASSUME NEW msg \in queue[r], Drops(r, msg) \/ Runs(r, msg)
        PROVE  row'[m] = row[m] /\ row'[Tailoring[m]] = row[Tailoring[m]]
    BY <1>2, <1>a, <2>1, <2>8, DropKeeps, RowsAfterRun
  <2>9. QED
    BY <2>2, <2>3, <2>4, <2>5, <2>6, <2>7, <2>8
       DEF SiteStep, PublishEvent, PublishFails, Drops, Runs, Outage, Restore, Probe
<1>3. QED
  BY <1>1, <1>2

\* Every message that is there after a step was there before it or entered.
LEMMA MessageOrigin ==
    ASSUME TypeOK, NEW r \in Sites, SiteStep(r), NEW s \in Sites,
           NEW msg \in (queue[s] \cup dead[s])'
    PROVE  msg \in queue[s] \cup dead[s] \/ Entered(s, msg)
<1>1. CASE msg \in queue'[s]
  BY <1>1, MessagesEnter
<1>2. CASE msg \in dead'[s]
  BY <1>2, DeadWereQueued
<1>3. QED
  BY <1>1, <1>2

LEMMA StepFresh ==
    ASSUME IInv, NEW r \in Sites, SiteStep(r) PROVE Fresh'
<1>0. TypeOK /\ Together /\ Fresh
  BY DEF IInv
<1> SUFFICES ASSUME NEW w \in Works, ~Present(w)'
             PROVE  /\ event'[w].status = "none"
                    /\ workedIn'[w] = {}
                    /\ \A s \in Sites : \A msg \in (queue[s] \cup dead[s])' : msg.work # w
  BY DEF Fresh
<1>1. ~Present(w)
  BY <1>0, RowsChange DEF RowChange
<1>2. event[w].status = "none" /\ workedIn[w] = {}
  BY <1>0, <1>1 DEF Fresh
<1>3. event'[w] = event[w]
  BY <1>0, <1>2, EventsChange DEF EventChange
<1>4. workedIn'[w] = {}
  BY <1>0, <1>1, <1>2, WorkersChange DEF WorkedChange
<1>5. ASSUME NEW s \in Sites, NEW msg \in (queue[s] \cup dead[s])', msg.work = w
      PROVE  FALSE
  <2>1. msg \notin queue[s] \cup dead[s]
    BY <1>0, <1>1, <1>5 DEF Fresh
  <2>2. Entered(s, msg)
    BY <1>0, <2>1, <1>5, MessageOrigin
  <2>3. QED
    BY <1>1, <1>2, <1>5, <2>2 DEF Entered, Published, DispatchedAt, HandedAt
<1>6. QED
  BY <1>2, <1>3, <1>4, <1>5

LEMMA StepEventOwner ==
    ASSUME IInv, NEW r \in Sites, SiteStep(r) PROVE EventOwner'
<1>0. TypeOK /\ Together /\ Fresh /\ EventOwner
  BY DEF IInv
<1> SUFFICES ASSUME NEW w \in Works, event'[w].status # "none", Owned(w)', w \notin crossed'
             PROVE  event'[w].owner = row'[w].owner
  BY DEF EventOwner
<1>1. EventChange(w) /\ RowChange(w) /\ w \notin crossed
  BY <1>0, EventsChange, RowsChange, CrossedGrows
<1>2. CASE \/ event'[w] = event[w]
           \/ event[w].status = "PENDING" /\ event'[w].owner = event[w].owner
  <2>1. event[w].status # "none" /\ event'[w].owner = event[w].owner
    BY <1>2
  <2>2. Present(w)
    BY <1>0, <2>1 DEF Fresh
  <2>3. row'[w].owner = row[w].owner
    BY <1>1, <2>2 DEF RowChange, SameOwner
  <2>4. QED
    BY <1>0, <1>1, <2>1, <2>3 DEF EventOwner, Owned
<1>3. CASE Owned(w)' /\ event'[w].owner = row'[w].owner
  BY <1>3
<1>4. QED
  BY <1>1, <1>2, <1>3 DEF EventChange

LEMMA StepChildOwner ==
    ASSUME IInv, NEW r \in Sites, SiteStep(r) PROVE ChildOwner'
<1>0. TypeOK /\ Together /\ ChildOwner
  BY DEF IInv
<1> SUFFICES ASSUME NEW m \in Matches, Owned(Tailoring[m])', Tailoring[m] \notin crossed'
             PROVE  row'[Tailoring[m]].owner = row'[m].owner
  BY DEF ChildOwner
<1> DEFINE t == Tailoring[m]
<1>1. /\ m \in Works /\ t \in Works /\ m \notin Children
      /\ t \notin Matches /\ t \notin Analyses
  BY Constants DEF Children
<1>2. RowChange(m) /\ RowChange(t) /\ t \notin crossed
  BY <1>0, <1>1, RowsChange, CrossedGrows
<1>3. CASE SameOwner(m) /\ SameOwner(t)
  BY <1>0, <1>2, <1>3 DEF SameOwner, ChildOwner, Owned
<1>4. CASE ~(SameOwner(m) /\ SameOwner(t))
  <2>1. ~Present(m) /\ ~Present(t) /\ (Present(m)' \/ Present(t)')
    BY <1>0, <1>1, <1>2, <1>4 DEF RowChange, Together
  <2>2. Present(m)'
    BY <2>1, StepTogether DEF Together
  <2>3. ASSUME NEW n \in Matches, NEW o \in Overrides(r), SubmitMatch(r, n, o)
        PROVE  row'[t].owner = row'[m].owner
    <3>1. m = n
      <4>1. SUFFICES ASSUME m # n PROVE FALSE
        OBVIOUS
      <4>2. Tailoring[n] # m
        BY <1>1 DEF Children
      <4>3. row'[m] = row[m]
        BY <1>0, <1>1, <2>3, <4>1, <4>2 DEF SubmitMatch, TypeOK
      <4>4. QED
        BY <2>1, <2>2, <4>3 DEF Present
    <3>2. row \in [Works -> RowType] /\ t # m
      BY <1>0, <1>1 DEF TypeOK, RowType
    <3>3. row'[m].owner = OwnerOf(None, r) /\ row'[t].owner = OwnerOf(None, r)
      BY <1>1, <2>3, <3>1, <3>2 DEF SubmitMatch
    <3>4. QED
      BY <3>3
  <2>4. ASSUME row'[m] = row[m] PROVE FALSE
    BY <2>1, <2>2, <2>4 DEF Present
  <2>5. ASSUME NEW x \in Works, Present(x), NEW s, row' = [row EXCEPT ![x].status = s]
        PROVE  row'[m] = row[m]
    BY <1>0, <1>1, <2>1, <2>5 DEF TypeOK
  <2>6. ASSUME NEW a \in Analyses, NEW o \in Overrides(r), SubmitAnalysis(r, a, o)
        PROVE  row'[m] = row[m]
    <3>1. a # m
      BY Constants
    <3>2. QED
      BY <1>0, <1>1, <2>6, <3>1 DEF SubmitAnalysis, TypeOK
  <2>7. ASSUME NEW n \in Matches, ReplaceChild(r, n) PROVE row'[m] = row[m]
    <3>1. Tailoring[n] # m
      BY <1>1 DEF Children
    <3>2. QED
      BY <1>0, <1>1, <2>7, <3>1 DEF ReplaceChild, TypeOK
  <2>8. ASSUME NEW n \in Matches, TailorResume(r, n) PROVE row'[m] = row[m]
    <3>1. Present(Tailoring[n]) /\ Tailoring[n] \in Works
      BY <2>8, Constants DEF TailorResume, Present
    <3>2. QED
      BY <2>5, <2>8, <3>1 DEF TailorResume
  <2>9. ASSUME NEW a \in Analyses, DispatchAnalysis(r, a) PROVE row'[m] = row[m]
    <3>1. Present(a) /\ a \in Works
      BY <2>9, Constants DEF DispatchAnalysis, Present
    <3>2. QED
      BY <2>5, <2>9, <3>1 DEF DispatchAnalysis
  <2>10. ASSUME NEW msg \in queue[r], Drops(r, msg) \/ Runs(r, msg) PROVE row'[m] = row[m]
    BY <1>1, <2>1, <2>10, DropKeeps, RowsAfterRun
  <2>11. QED
    BY <2>3, <2>4, <2>6, <2>7, <2>8, <2>9, <2>10, Constants
       DEF SiteStep, PublishEvent, PublishFails, Drops, Runs, Outage, Restore, Probe
<1>5. QED
  BY <1>3, <1>4

LEMMA StepWorkedAtHome ==
    ASSUME IInv, NEW r \in Sites, SiteStep(r) PROVE WorkedAtHome'
<1>0. TypeOK /\ Together /\ Fresh /\ WorkedAtHome
  BY DEF IInv
<1> SUFFICES ASSUME NEW w \in Works, Owned(w)' PROVE workedIn'[w] \subseteq {row'[w].owner}
  BY DEF WorkedAtHome
<1>1. RowChange(w) /\ WorkedChange(r, w)
  BY <1>0, RowsChange, WorkersChange
<1>2. CASE SameOwner(w)
  <2>1. Owned(w) /\ row'[w].owner = row[w].owner
    BY <1>2 DEF SameOwner, Owned
  <2>2. workedIn[w] \subseteq {row[w].owner}
    BY <1>0, <2>1 DEF WorkedAtHome
  <2>3. row[w].owner \in {None, r} => row[w].owner = r
    BY <2>1 DEF Owned
  <2>4. QED
    BY <1>1, <2>1, <2>2, <2>3 DEF WorkedChange
<1>3. CASE ~Present(w) /\ workedIn'[w] = workedIn[w]
  BY <1>0, <1>3 DEF Fresh
<1>4. CASE workedIn'[w] = {}
  BY <1>4
<1>5. QED
  BY <1>1, <1>2, <1>3, <1>4 DEF RowChange

LEMMA StepStranded ==
    ASSUME IInv, NEW r \in Sites, SiteStep(r) PROVE StrandedNeedsCrossing'
<1>0. TypeOK /\ Together /\ Fresh /\ EventOwner /\ ChildOwner /\ StrandedNeedsCrossing
  BY DEF IInv
<1> SUFFICES ASSUME NEW s \in Sites, NEW msg \in (queue[s] \cup dead[s])',
                    Owned(msg.work)', row'[msg.work].owner # s, msg.work \notin crossed'
             PROVE  FALSE
  BY DEF StrandedNeedsCrossing
<1> DEFINE w == msg.work
<1>1. ASSUME w \in Works, Present(w) PROVE Owned(w) /\ row[w].owner # s /\ w \notin crossed
  BY <1>0, <1>1, RowsChange, CrossedGrows DEF RowChange, SameOwner, Owned
<1>2. CASE msg \in queue[s] \cup dead[s]
  <2>1. w \in Works
    BY <1>0, <1>2 DEF TypeOK, Message
  <2>2. Present(w)
    BY <1>0, <1>2, <2>1 DEF Fresh
  <2>3. QED
    BY <1>0, <1>1, <1>2, <2>1, <2>2 DEF StrandedNeedsCrossing
<1>3. CASE Entered(s, msg)
  <2>1. w \in Works
    BY <1>3 DEF Entered
  <2>2. CASE Published(s, msg)
    <3>1. event[w].status # "none"
      BY <2>2 DEF Published
    <3>2. Present(w)
      BY <1>0, <2>1, <3>1 DEF Fresh
    <3>3. event[w].owner = row[w].owner
      BY <1>0, <1>1, <2>1, <3>1, <3>2 DEF EventOwner
    <3>4. QED
      BY <1>1, <2>1, <2>2, <3>2, <3>3 DEF Published, Owned
  <2>3. CASE DispatchedAt(s, msg)
    BY <1>1, <2>1, <2>3 DEF DispatchedAt
  <2>4. CASE HandedAt(s, msg)
    <3>1. PICK m \in Matches : w = Tailoring[m] /\ Present(w) /\ row[m].owner \in {None, s}
      BY <2>4 DEF HandedAt
    <3>2. Owned(w) /\ row[w].owner # s /\ w \notin crossed
      BY <1>1, <2>1, <3>1
    <3>3. row[w].owner = row[m].owner
      BY <1>0, <3>1, <3>2 DEF ChildOwner
    <3>4. QED
      BY <3>1, <3>2, <3>3 DEF Owned
  <2>5. QED
    BY <1>3, <2>2, <2>3, <2>4 DEF Entered
<1>4. QED
  BY <1>0, <1>2, <1>3, MessageOrigin

LEMMA StepReachOwner ==
    ASSUME IInv, NEW r \in Sites, SiteStep(r) PROVE MessagesReachOwner'
<1>0. TypeOK /\ Together /\ MessagesReachOwner
  BY DEF IInv
<1> SUFFICES ASSUME NEW s \in Sites, NEW msg \in queue'[s]
             PROVE  \/ msg.owner \in {None, s}
                    \/ \E m \in Matches : msg.work = Tailoring[m] /\ Legacy(m)'
  BY DEF MessagesReachOwner
<1>1. ASSUME NEW m \in Matches, Legacy(m) PROVE Legacy(m)'
  <2>1. m \in Works /\ m \notin Children
    BY Constants
  <2>2. RowChange(m)
    BY <1>0, <2>1, RowsChange
  <2>3. QED
    BY <1>1, <2>1, <2>2 DEF RowChange, SameOwner, Legacy, Owned, Present
<1>2. CASE msg \in queue[s]
  BY <1>0, <1>1, <1>2 DEF MessagesReachOwner
<1>3. CASE Entered(s, msg)
  <2>1. CASE Published(s, msg) \/ DispatchedAt(s, msg)
    BY <2>1 DEF Published, DispatchedAt
  <2>2. CASE HandedAt(s, msg)
    <3>1. PICK m \in Matches :
            /\ msg.work = Tailoring[m] /\ Present(m)
            /\ row[m].owner \in {None, s} /\ (row[m].owner = s => msg.owner = s)
      BY <2>2 DEF HandedAt
    <3>2. row[m].owner = None => Legacy(m)
      BY <3>1 DEF Legacy, Owned, Present
    <3>3. QED
      BY <1>1, <3>1, <3>2
  <2>3. QED
    BY <1>3, <2>1, <2>2 DEF Entered
<1>4. QED
  BY <1>0, <1>2, <1>3, MessagesEnter

LEMMA StutterIInv == IInv /\ UNCHANGED vars => IInv'
  BY DEF IInv, vars, TypeOK, Together, Fresh, EventOwner, ChildOwner, WorkedAtHome,
         StrandedNeedsCrossing, MessagesReachOwner, Present, Owned, Legacy

\* The inductive invariant holds in every reachable state.
THEOREM InvariantHolds == Spec => []IInv
<1>1. IInv /\ [Next]_vars => IInv'
  <2> SUFFICES ASSUME IInv, [Next]_vars PROVE IInv'
    OBVIOUS
  <2>1. ASSUME NEW r \in Sites, SiteStep(r) PROVE IInv'
    <3>1. TypeOK'
      BY <2>1, StepTyped DEF IInv
    <3>2. Together' /\ Fresh' /\ EventOwner' /\ ChildOwner'
      BY <2>1, StepTogether, StepFresh, StepEventOwner, StepChildOwner
    <3>3. WorkedAtHome' /\ StrandedNeedsCrossing' /\ MessagesReachOwner'
      BY <2>1, StepWorkedAtHome, StepStranded, StepReachOwner
    <3>4. QED
      BY <3>1, <3>2, <3>3 DEF IInv
  <2>2. QED
    BY <2>1, StutterIInv DEF Next
<1>2. QED
  BY InitIInv, <1>1, PTL DEF Spec

\* A message that names its owner is in the owner's queue, whichever region
\* submitted the work and whichever one published it.
THEOREM OwnersGetTheirMessages == Spec => []MessagesReachOwner
<1>1. IInv => MessagesReachOwner
  BY DEF IInv
<1>2. QED
  BY <1>1, InvariantHolds, PTL

\* A message is where no worker may take it only for work that was asked for in
\* another region than its row names.
THEOREM StrandingNeedsCrossing == Spec => []StrandedNeedsCrossing
<1>1. IInv => StrandedNeedsCrossing
  BY DEF IInv
<1>2. QED
  BY <1>1, InvariantHolds, PTL

\* Work that names an owner is only ever claimed by workers of the owner.
THEOREM OwnedWorkStaysHome == Spec => []WorkedAtHome
<1>1. IInv => WorkedAtHome
  BY DEF IInv
<1>2. QED
  BY <1>1, InvariantHolds, PTL

-----------------------------------------------------------------------------
(* The readiness endpoint, in every state.                                   *)

\* A site answers 200 exactly when it calls itself healthy.
THEOREM ReadinessIsHealth == Spec => []ReadyMeansHealthy
<1>1. Init => ReadyMeansHealthy
  BY ReadyIsHealthy DEF Init, ReadyMeansHealthy
<1>2. ReadyMeansHealthy /\ TypeOK /\ [Next]_vars => ReadyMeansHealthy'
  <2> SUFFICES ASSUME ReadyMeansHealthy, TypeOK, [Next]_vars PROVE ReadyMeansHealthy'
    OBVIOUS
  <2>1. ASSUME NEW r \in Sites, Probe(r) PROVE ReadyMeansHealthy'
    <3>1. deps[r] \in SUBSET Dependencies
      BY DEF TypeOK
    <3>2. QED
      BY <2>1, <3>1, ReadyIsHealthy DEF Probe, ReadyMeansHealthy, TypeOK
  <2>2. ASSUME report' = report PROVE ReadyMeansHealthy'
    BY <2>2 DEF ReadyMeansHealthy
  <2>3. ASSUME NEW r \in Sites, NEW msg \in queue[r], Drops(r, msg) \/ Runs(r, msg)
        PROVE  report' = report
    BY <2>3, DropKeeps, RunKeeps
  <2>4. QED
    BY <2>1, <2>2, <2>3
       DEF Next, SiteStep, SubmitMatch, SubmitAnalysis, ReplaceChild, TailorResume,
           PublishEvent, PublishFails, DispatchAnalysis, Drops, Runs, Outage, Restore,
           services, vars
<1>3. QED
  BY <1>1, <1>2, TypeCorrect, PTL DEF Spec

-----------------------------------------------------------------------------
(* Work without an owner is worked on in one region as long as nothing fails. *)

Mail(w) == {x \in Sites \X Message : x[2] \in queue[x[1]] /\ x[2].work = w}

Worked(w) == workedIn[w] # {}
Waits(w) == row[w].status = "waiting"
Pending(w) == event[w].status = "PENDING"

OnceAt(w) ==
    /\ \A x, y \in Mail(w) : x = y
    /\ Mail(w) # {} => ~Pending(w) /\ ~Waits(w)
    /\ Mail(w) # {} \/ Pending(w) \/ Waits(w) => ~Worked(w)
    /\ Pending(w) => ~Waits(w)
    /\ \A s, u \in workedIn[w] : s = u
    /\ w \in Children => ~Pending(w) /\ row[w].status \in {"waiting", "processing", "completed"}
    /\ \A m \in Matches : w = Tailoring[m] /\ row[m].status = "completed" => ~Waits(w)

Once == faults = 0 => \A w \in Works : Legacy(w) => OnceAt(w)

LEMMA MailIs ==
    ASSUME TypeOK, NEW w, NEW s \in Sites, NEW msg \in queue[s], msg.work = w
    PROVE  <<s, msg>> \in Mail(w)
  BY DEF TypeOK, Mail

LEMMA InitOnce == Init => Once
<1> SUFFICES ASSUME Init, NEW w \in Works, Legacy(w) PROVE OnceAt(w)
  BY DEF Once
<1>0. PICK legacy \in SUBSET Matches :
        \E created \in [legacy -> Sites] : InitialRecords(legacy, created)
  BY DEF Init
<1>1. PICK created \in [legacy -> Sites] : InitialRecords(legacy, created)
  BY <1>0
<1>2. Mail(w) = {} /\ workedIn[w] = {}
  BY DEF Init, Mail
<1>3. \A m \in Matches : row[m].status # "completed"
  BY <1>1, Constants DEF InitialRecords, LegacyRow, NoRow
<1>4. CASE w \in legacy
  <2>1. row[w].status = "QUEUED_PENDING_DISPATCH" /\ w \notin Children
    BY <1>1, <1>4, Constants DEF InitialRecords, LegacyRow
  <2>2. QED
    BY <1>2, <1>3, <2>1 DEF OnceAt, Worked, Waits
<1>5. CASE w \notin legacy
  <2>1. row[w].status = "waiting" /\ event[w].status = "none"
    BY <1>1, <1>5 DEF InitialRecords, LegacyRow, NoRow, Legacy
  <2>2. QED
    BY <1>2, <1>3, <2>1 DEF OnceAt, Worked, Waits, Pending
<1>6. QED
  BY <1>4, <1>5

\* Nothing of w moves.
Unmoved(w) ==
    /\ Mail(w)' = Mail(w)
    /\ event'[w] = event[w]
    /\ row'[w].status = row[w].status
    /\ workedIn'[w] = workedIn[w]
    /\ \A m \in Matches : w = Tailoring[m] /\ row'[m].status = "completed" =>
          row[m].status = "completed" \/ ~Waits(w)

LEMMA UnmovedOnce == ASSUME NEW w, OnceAt(w), Unmoved(w) PROVE OnceAt(w)'
  BY DEF OnceAt, Unmoved, Worked, Waits, Pending

LEMMA MailAfterSend ==
    ASSUME TypeOK, NEW x \in Works, NEW target \in Sites, NEW o \in MaybeRegion,
           Send(target, x, o), NEW w \in Works
    PROVE  /\ w # x => Mail(w)' = Mail(w)
           /\ w = x => Mail(w)' = Mail(w) \cup {<<target, [work |-> x, owner |-> o]>>}
<1>1. [work |-> x, owner |-> o] \in Message
  BY DEF Message
<1> DEFINE msg == [work |-> x, owner |-> o]
<1>2. queue \in [Sites -> SUBSET Message]
        /\ queue' = [queue EXCEPT ![target] = @ \cup {msg}]
  BY DEF Send, TypeOK
<1>3. msg.work = x
  OBVIOUS
<1> HIDE DEF msg
<1>4. \A s \in Sites : queue'[s] = IF s = target THEN queue[s] \cup {msg} ELSE queue[s]
  BY <1>2
<1>5. ASSUME w # x PROVE Mail(w)' = Mail(w)
  BY <1>3, <1>4, <1>5 DEF Mail
<1>6. ASSUME w = x PROVE Mail(w)' = Mail(w) \cup {<<target, msg>>}
  <2>1. ASSUME NEW y \in Mail(w)' PROVE y \in Mail(w) \cup {<<target, msg>>}
    <3>1. PICK s \in Sites, n \in Message : y = <<s, n>> /\ n \in queue'[s] /\ n.work = w
      BY <2>1 DEF Mail
    <3>2. n \in queue[s] \/ (s = target /\ n = msg)
      BY <1>4, <3>1
    <3>3. QED
      BY <3>1, <3>2 DEF Mail
  <2>2. <<target, msg>> \in Mail(w)'
    BY <1>1, <1>3, <1>4, <1>6 DEF Mail, msg
  <2>3. Mail(w) \subseteq Mail(w)'
    BY <1>4 DEF Mail
  <2>4. QED
    BY <2>1, <2>2, <2>3
<1>7. QED
  BY <1>5, <1>6 DEF msg

LEMMA StepOnce ==
    ASSUME IInv, Once, NEW r \in Sites, SiteStep(r) PROVE Once'
<1>0. TypeOK /\ Together /\ row \in [Works -> RowType]
        /\ event \in [Works -> EventType] /\ queue \in [Sites -> SUBSET Message]
        /\ workedIn \in [Works -> SUBSET Sites]
  BY DEF IInv, TypeOK, RowType, EventType
<1> SUFFICES ASSUME faults' = 0, NEW w \in Works, Legacy(w)' PROVE OnceAt(w)'
  BY DEF Once
<1>1. ~Fault
  BY <1>0 DEF Fault, TypeOK
<1>2. faults = 0
  <2>1. ASSUME NEW msg \in queue[r], Drops(r, msg) \/ Runs(r, msg) PROVE faults' = faults
    BY <1>1, <2>1 DEF Drops, Reject, Redrive, Skip, Runs, Work, WorkFails, LastPass
  <2>2. QED
    BY <1>1, <2>1
       DEF SiteStep, SubmitMatch, SubmitAnalysis, ReplaceChild, TailorResume, PublishEvent,
           PublishFails, DispatchAnalysis, Drops, Runs, Outage, Restore, Probe
<1>3. Legacy(w)
  <2>1. RowChange(w)
    BY <1>0, RowsChange
  <2>2. QED
    BY <2>1 DEF RowChange, SameOwner, Legacy, Owned, Present
<1>4. OnceAt(w)
  BY <1>2, <1>3 DEF Once
<1>5. r # None /\ r \in Regions /\ \A n \in Matches : Tailoring[n] \in Children
  BY Constants DEF Children
<1>6. Matches \subseteq Works /\ Children \subseteq Works /\ Analyses \subseteq Works
        /\ Children \cap Matches = {} /\ Children \cap Analyses = {}
        /\ Analyses \cap Matches = {}
  BY Constants
<1>7. ASSUME queue' = queue PROVE Mail(w)' = Mail(w)
  BY <1>7 DEF Mail
<1>11. ASSUME NEW m \in Matches, NEW o \in Overrides(r), SubmitMatch(r, m, o)
       PROVE  OnceAt(w)'
  <2>1. w # m /\ w # Tailoring[m]
    BY <1>0, <1>3, <1>5, <1>6, <1>11 DEF SubmitMatch, IsNew, Together, Present, Legacy
  <2>2. row'[w] = row[w] /\ event'[w] = event[w] /\ workedIn' = workedIn
    BY <1>0, <1>11, <2>1 DEF SubmitMatch
  <2>3. \A n \in Matches : row'[n].status = "completed" => row[n].status = "completed"
    BY <1>0, <1>5, <1>6, <1>11 DEF SubmitMatch
  <2>4. Mail(w)' = Mail(w)
    BY <1>7, <1>11 DEF SubmitMatch
  <2>5. QED
    BY <1>4, <2>2, <2>3, <2>4, UnmovedOnce DEF Unmoved
<1>12. ASSUME NEW a \in Analyses, NEW o \in Overrides(r), SubmitAnalysis(r, a, o)
       PROVE  OnceAt(w)'
  <2>1. w # a
    BY <1>3, <1>12 DEF SubmitAnalysis, IsNew, Legacy
  <2>2. row'[w] = row[w] /\ event' = event /\ workedIn' = workedIn
    BY <1>0, <1>12, <2>1 DEF SubmitAnalysis, history
  <2>3. \A n \in Matches : row'[n] = row[n]
    BY <1>0, <1>6, <1>12 DEF SubmitAnalysis
  <2>4. Mail(w)' = Mail(w)
    BY <1>7, <1>12 DEF SubmitAnalysis
  <2>5. QED
    BY <1>4, <2>2, <2>3, <2>4, UnmovedOnce DEF Unmoved
<1>13. ASSUME NEW m \in Matches, ReplaceChild(r, m) PROVE OnceAt(w)'
  <2>1. w # Tailoring[m]
    <3>1. SUFFICES ASSUME w = Tailoring[m] PROVE FALSE
      OBVIOUS
    <3>2. row'[w].owner = r
      BY <1>0, <1>13, <3>1, OwnerIsRegion DEF ReplaceChild, MaybeRegion
    <3>3. QED
      BY <1>5, <3>2 DEF Legacy, Owned
  <2>2. row'[w] = row[w] /\ event' = event /\ workedIn'[w] = workedIn[w]
    BY <1>0, <1>13, <2>1 DEF ReplaceChild
  <2>3. \A n \in Matches : row'[n] = row[n]
    BY <1>0, <1>5, <1>6, <1>13 DEF ReplaceChild
  <2>4. Mail(w)' = Mail(w)
    BY <1>7, <1>13 DEF ReplaceChild
  <2>5. QED
    BY <1>4, <2>2, <2>3, <2>4, UnmovedOnce DEF Unmoved
<1>14. ASSUME NEW m \in Matches, TailorResume(r, m) PROVE OnceAt(w)'
  <2>1. w # Tailoring[m]
    BY <1>4, <1>14 DEF TailorResume, OnceAt, Waits
  <2>2. row'[w] = row[w] /\ event'[w] = event[w] /\ workedIn' = workedIn
    BY <1>0, <1>14, <2>1 DEF TailorResume
  <2>3. \A n \in Matches : row'[n] = row[n]
    BY <1>0, <1>5, <1>6, <1>14 DEF TailorResume
  <2>4. Mail(w)' = Mail(w)
    BY <1>7, <1>14 DEF TailorResume
  <2>5. QED
    BY <1>4, <2>2, <2>3, <2>4, UnmovedOnce DEF Unmoved
<1>15. ASSUME NEW x \in Works, PublishEvent(r, x) PROVE OnceAt(w)'
  <2> DEFINE target == publish(r, event[x].owner, Reachable)
             o == event[x].owner
  <2>1. target \in Sites /\ o \in MaybeRegion /\ Send(target, x, o)
    BY <1>0, <1>15, PublishTarget
  <2>2. row' = row /\ workedIn' = workedIn /\ Pending(x)
    BY <1>15 DEF PublishEvent, history, Pending
  <2>3. event' = [event EXCEPT ![x].status = "DELIVERED"]
    BY <1>1, <1>15 DEF PublishEvent, SetEvent
  <2> HIDE DEF target, o
  <2>4. CASE w # x
    <3>1. Mail(w)' = Mail(w) /\ event'[w] = event[w]
      BY <1>0, <2>1, <2>3, <2>4, MailAfterSend
    <3>2. QED
      BY <1>4, <2>2, <3>1, UnmovedOnce DEF Unmoved
  <2>5. CASE w = x
    <3>1. Mail(w) = {} /\ ~Worked(w) /\ ~Waits(w) /\ w \notin Children
      BY <1>4, <2>2, <2>5 DEF OnceAt
    <3>2. Mail(w)' = {<<target, [work |-> x, owner |-> o]>>}
      BY <1>0, <2>1, <2>5, <3>1, MailAfterSend
    <3>3. ~Pending(w)' /\ ~Worked(w)' /\ ~Waits(w)' /\ workedIn'[w] = {}
      BY <1>0, <2>2, <2>3, <2>5, <3>1 DEF Pending, Worked, Waits, EventType
    <3>4. QED
      BY <3>1, <3>2, <3>3 DEF OnceAt
  <2>6. QED
    BY <2>4, <2>5
<1>16. ASSUME NEW a \in Analyses, DispatchAnalysis(r, a) PROVE OnceAt(w)'
  <2>1. w # a /\ Send(r, a, r) /\ r \in MaybeRegion
    BY <1>3, <1>5, <1>16 DEF DispatchAnalysis, Legacy, Owned, MaybeRegion
  <2>2. row'[w] = row[w] /\ event' = event /\ workedIn' = workedIn
    BY <1>0, <1>16, <2>1 DEF DispatchAnalysis, history
  <2>3. \A n \in Matches : row'[n] = row[n]
    BY <1>0, <1>6, <1>16 DEF DispatchAnalysis
  <2>4. Mail(w)' = Mail(w)
    BY <1>0, <1>6, <2>1, MailAfterSend
  <2>5. QED
    BY <1>4, <2>2, <2>3, <2>4, UnmovedOnce DEF Unmoved
<1>17. ASSUME NEW msg \in queue[r], Drops(r, msg) PROVE OnceAt(w)'
  <2>1. row' = row /\ event' = event /\ workedIn' = workedIn
    BY <1>17, DropKeeps
  <2>2. \A s \in Sites : queue'[s] \subseteq queue[s]
    BY <1>0, <1>17, DropKeeps DEF Ack
  <2>3. Mail(w)' \subseteq Mail(w)
    BY <2>2 DEF Mail
  <2>4. QED
    BY <1>4, <2>1, <2>3 DEF OnceAt, Worked, Waits, Pending
<1>18. ASSUME NEW msg \in queue[r], Work(r, msg) \/ LastPass(r, msg) PROVE OnceAt(w)'
  <2> DEFINE x == msg.work
  <2>0. PICK status \in {"completed", "FAILED_PERMANENT", "RESULT_READY"},
             handed \in SUBSET Dispatched(x) :
              /\ Leaves(r, msg, status, handed, FALSE)
              /\ x \notin Matches => status = "completed"
              /\ status = "completed" => handed = Dispatched(x)
    BY <1>18, CleanRunLeaves
  <2> DEFINE sent == {[work |-> t, owner |-> OwnerOf(row[x].owner, row[x].created)] : t \in handed}
  <2>1. x \in Works /\ msg \in Message
    BY <1>0, MessageIs
  <2>2. event' = event /\ workedIn' = [workedIn EXCEPT ![x] = @ \cup {r}]
    BY <1>18, RunKeeps DEF Runs
  <2>3. row' = [y \in Works |->
            CASE y = x -> [row[y] EXCEPT !.status = status]
              [] y \in handed -> [row[y] EXCEPT !.status = "processing"]
              [] OTHER -> row[y]]
    BY <2>0 DEF Leaves
  <2>4. queue' = [queue EXCEPT ![r] = (@ \ {msg}) \cup sent]
    BY <2>0 DEF Leaves
  <2>5. x \notin handed /\ handed \cap Matches = {} /\ handed \subseteq Dispatched(x)
    BY <1>5, <1>6 DEF Dispatched
  <2>6. \A h \in sent : h.work \in handed
    OBVIOUS
  <2>7. \A h \in sent :
            h = [work |-> h.work, owner |-> OwnerOf(row[x].owner, row[x].created)]
    OBVIOUS
  <2>8. <<r, msg>> \in Mail(x)
    BY <1>0, MailIs
  <2> HIDE DEF x, sent
  <2>9. CASE w = x
    <3>1. Mail(w) = {<<r, msg>>} /\ ~Worked(w) /\ ~Pending(w)
      BY <1>4, <2>8, <2>9 DEF OnceAt
    <3>2. \A s \in Sites : \A n \in queue'[s] : n.work # w
      <4> SUFFICES ASSUME NEW s \in Sites, NEW n \in queue'[s], n.work = w PROVE FALSE
        OBVIOUS
      <4>1. n \in queue[s] /\ <<s, n>> # <<r, msg>>
        BY <1>0, <2>4, <2>5, <2>6, <2>9
      <4>2. <<s, n>> \in Mail(w)
        BY <1>0, <4>1, MailIs
      <4>3. QED
        BY <3>1, <4>1, <4>2
    <3>3. Mail(w)' = {}
      BY <3>2 DEF Mail
    <3>4. workedIn'[w] = {r} /\ ~Pending(w)'
      BY <1>0, <2>1, <2>2, <2>9, <3>1 DEF Worked, Pending
    <3>5. row'[w] = [row[w] EXCEPT !.status = status]
      BY <2>1, <2>3, <2>5, <2>9
    <3>6. row'[w].status = status
      BY <1>0, <3>5 DEF RowType
    <3>7. w \in Children => status = "completed"
      BY <1>6, <2>0, <2>9
    <3>8. QED
      BY <3>3, <3>4, <3>6, <3>7 DEF OnceAt, Waits
  <2>10. CASE w # x /\ w \in handed
    <3>1. Waits(w) /\ w \in Children
      BY <1>4, <2>5, <2>10 DEF Dispatched, OnceAt, Waits
    <3>2. Mail(w) = {} /\ ~Worked(w) /\ ~Pending(w)
      BY <1>4, <3>1 DEF OnceAt
    <3>3. workedIn'[w] = {} /\ ~Pending(w)'
      BY <1>0, <2>2, <2>10, <3>2 DEF Worked, Pending
    <3>4. row'[w] = [row[w] EXCEPT !.status = "processing"]
      BY <2>3, <2>10
    <3>5. row'[w].status = "processing"
      BY <1>0, <3>4 DEF RowType
    <3>6. ASSUME NEW s \in Sites, NEW n \in queue'[s], n.work = w
          PROVE  s = r /\ n = [work |-> w, owner |-> OwnerOf(row[x].owner, row[x].created)]
      <4>1. n \notin queue[s]
        BY <1>0, <3>2, <3>6, MailIs
      <4>2. s = r /\ n \in sent
        BY <1>0, <2>4, <4>1
      <4>3. QED
        BY <2>7, <3>6, <4>2
    <3>7. \A y, z \in Mail(w)' : y = z
      BY <3>6 DEF Mail
    <3>8. QED
      BY <3>3, <3>5, <3>7 DEF OnceAt, Waits, Worked
  <2>11. CASE w # x /\ w \notin handed
    <3>1. row'[w] = row[w] /\ workedIn'[w] = workedIn[w]
      BY <1>0, <2>2, <2>3, <2>11
    <3>2. \A s \in Sites : \A n \in Message :
            n.work = w => (n \in queue'[s] <=> n \in queue[s])
      BY <1>0, <2>4, <2>6, <2>11 DEF x
    <3>3. Mail(w)' = Mail(w)
      BY <3>2 DEF Mail
    <3>4. ASSUME NEW m \in Matches, w = Tailoring[m], row'[m].status = "completed", Waits(w)
          PROVE  row[m].status = "completed"
      <4>1. m # x
        <5>1. SUFFICES ASSUME m = x PROVE FALSE
          OBVIOUS
        <5>2. row'[x] = [row[x] EXCEPT !.status = status]
          BY <2>1, <2>3, <2>5
        <5>3. status = "completed"
          BY <1>0, <2>1, <3>4, <5>1, <5>2 DEF RowType
        <5>4. QED
          BY <1>5, <2>0, <2>11, <3>4, <5>1, <5>3 DEF Dispatched, Waits
      <4>2. row'[m] = row[m]
        BY <1>6, <2>3, <2>5, <4>1
      <4>3. QED
        BY <3>4, <4>2
    <3>5. QED
      BY <1>4, <2>2, <3>1, <3>3, <3>4, UnmovedOnce DEF Unmoved
  <2>12. QED
    BY <2>9, <2>10, <2>11
<1>19. ASSUME NEW msg \in queue[r], WorkFails(r, msg) PROVE OnceAt(w)'
  BY <1>1, <1>19 DEF WorkFails
<1>20. ASSUME UNCHANGED <<row, event, queue, history>> PROVE OnceAt(w)'
  BY <1>4, <1>7, <1>20, UnmovedOnce DEF Unmoved, history
<1>21. ASSUME NEW x \in Works, PublishFails(r, x) PROVE OnceAt(w)'
  <2>1. row' = row /\ workedIn' = workedIn /\ Mail(w)' = Mail(w) /\ Pending(x)
    BY <1>7, <1>21 DEF PublishFails, history, Pending
  <2>2. Pending(w)' => Pending(w)
    BY <1>0, <1>21 DEF PublishFails, SetEvent, EventType, Pending
  <2>3. QED
    BY <1>4, <2>1, <2>2 DEF OnceAt, Worked, Waits
<1>22. QED
  BY <1>11, <1>12, <1>13, <1>14, <1>15, <1>16, <1>17, <1>18, <1>19, <1>20, <1>21
     DEF SiteStep, Drops, Outage, Restore, Probe

LEMMA HomeMeansOneRegion == TypeOK /\ WorkedAtHome /\ Fresh /\ Once => OneRegionPerWork
<1> SUFFICES ASSUME TypeOK, WorkedAtHome, Fresh, Once, NEW w \in Works,
                    ~(Legacy(w) /\ faults > 0)
             PROVE  Cardinality(workedIn[w]) <= 1
  BY DEF OneRegionPerWork
<1>1. \A s, u \in workedIn[w] : s = u
  <2>1. CASE Owned(w)
    BY <2>1 DEF WorkedAtHome
  <2>2. CASE ~Present(w)
    BY <2>2 DEF Fresh
  <2>3. CASE Legacy(w)
    <3>1. faults = 0
      BY <2>3 DEF TypeOK
    <3>2. QED
      BY <2>3, <3>1 DEF Once, OnceAt
  <2>4. QED
    BY <2>1, <2>2, <2>3 DEF Legacy, Present
<1>2. CASE workedIn[w] = {}
  BY <1>2, FS_EmptySet
<1>3. CASE workedIn[w] # {}
  <2>1. PICK s \in workedIn[w] : workedIn[w] = {s}
    BY <1>1, <1>3
  <2>2. Cardinality({s}) = 1
    BY FS_Singleton
  <2>3. QED
    BY <2>1, <2>2
<1>4. QED
  BY <1>2, <1>3

\* The workers of one region only work on a row; only the duplicated message of a
\* row without an owner can be taken in two.
THEOREM OneRegionWorks == Spec => []OneRegionPerWork
<1>1. IInv /\ Once /\ [Next]_vars => Once'
  <2> SUFFICES ASSUME IInv, Once, [Next]_vars PROVE Once'
    OBVIOUS
  <2>1. CASE UNCHANGED vars
    BY <2>1 DEF vars, Once, OnceAt, Legacy, Owned, Mail, Worked, Waits, Pending
  <2>2. QED
    BY <2>1, StepOnce DEF Next
<1>2. IInv /\ Once => OneRegionPerWork
  BY HomeMeansOneRegion DEF IInv
<1>3. QED
  BY InitOnce, <1>1, <1>2, InvariantHolds, PTL DEF Spec
=============================================================================
