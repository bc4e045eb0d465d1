# Verification models of AI Resume Coach

TLA+ models of the server side of AI Resume Coach: the HTTP submission of work,
the durable outbox and its publishers, the dispatcher of uploaded analyses, the
worker Lambda behind the regional processing queues, the placement of work in the
regions, and the life of a match's records until they are deleted. TLC checks the
models on small instances; TLAPS proves the safety properties of every component for
every instance. Paths
below are relative to `src/src/`; `docs/` and `tests/` are in `src/`.

## 1. The system

All state is in one DynamoDB table (a strongly consistent global table without
transactions) and in the SQS queues of each region. Every region is active: it
takes requests, publishes, dispatches and works. The code runs in three Lambdas
per region and keeps nothing in memory between invocations, so every
protocol is a sequence of conditional updates with failures between any two.

    client -> API Lambda --put/update--> table
                             |  outbox rows (gsi1)       analysis rows (gsi2)
       schedule -> publisher Lambda: outbox publisher, workflow dispatcher
                             |  send
                             v
                 regional processing queue --> worker Lambda --> providers
                     |      ^                       |   |
                     v      '--- child jobs --------'   '--> terminal-failure queue
                 dead-letter queue

| Component | State it keeps | Operations | What is hard |
|---|---|---|---|
| API idempotency (`core/idempotency.py`) | one record per user, operation, key: status, request hash, resource id | reserve, reacquire, complete, mark retryable | overlapping retries; a call applied but reported as failed |
| Job-match submission (`features/job_matching.py`, `core/storage.py`) | outbox event, match row, two child rows | staged create (prepare event, put records, activate), resume of an earlier try | crash between stages; two requests creating the same records |
| Outbox publisher (`core/outbox_publisher.py`, `core/outbox_replay.py`) | status, version, attempt, lease, delivery count, sparse index keys of an event | list, claim, send, mark delivered / failed, replay | overlapping invocations of both regions, lost responses, expired leases |
| Workflow dispatcher (`core/workflow_dispatch.py`) | dispatch state and index keys inside the analysis row | recover expired claims, claim, send, mark dispatched, release | the worker changes the same row as soon as the message is out; bounded queries |
| Worker (`lambdas/worker/handler.py`) | status, version, attempt, lease, failure mark of a job | claim, store result, mark failed, announce failure | duplicated messages, redelivery against leases, receive counts, partial batches |
| Job-match workflow (same file) | the match row between its two steps, the rows of its children | store result, dispatch children, complete | a child's worker running while its parent still dispatches it |
| Resume tailoring (`features/resume_tailoring.py`, `core/storage.py`) | the tailoring row, its outbox event, the idempotency key | staged update (prepare event, update row, activate) | requests under several keys meet in one event; a retry carries another request id |
| Deletion of a match (`features/job_matching.py`) | match row, children | list and delete the children, delete the match by version | retries of the submission, tailor requests and workers in between; a failure half-way |
| Placement (`core/work_placement.py`, `core/region_routing.py`, `core/regional_transport.py`, `core/processing_ownership.py`, `core/synthetic_placement.py`) | owner regions in rows, events and messages | resolve the owner, route, deliver, authorize a worker | the places that name an owner can disagree; records from before ownership |
| Regional health (`core/regional_health.py`, `core/health.py`) | none | classify observations, readiness endpoint | two classifications of the same checks |
| State machine, retry policy (`core/workflow_state.py`, `core/retry_policy.py`) | none | pure decisions | boundaries: last attempt, terminal statuses |

Not part of the models (section 7): profile and target career, routing of HTTP
requests, key and text formatting, configuration, the AI providers, the browser
code, infrastructure and operations scripts.

What makes each part correct:

* **Idempotency and submission** - one key names one match; a completed key has its
  records and stays completed; the publisher sees an event only after its records.
* **Outbox** - one invocation works on an event at a time; the index agrees with the
  status; delivered is final and true; duplicates only after faults; every event
  gets an outcome.
* **Dispatcher** - the same for analyses, and it never pulls back a row that a worker
  has taken.
* **Worker** - one run works on a job at a time; terminal is final; statuses follow
  the transition matrix; acknowledged work is settled or a dead run holds it; announced
  failures are real.
* **Job match** - a completed match has handed its children over, and its writes never
  pull a child back from the child's own worker.
* **Tailoring and deletion** - an active event belongs to a request whose update was
  applied; a tailoring is neither stranded nor blocked unless something failed; no
  child outlives its match, and no match is kept without its children unless the deletion
  says so.
* **Placement and health** - messages go to the owner; one region works on a piece of
  work; work never hangs, whatever region took the request: it is completed, or given
  up after a failure; a region that is not healthy says so.

## 2. Modules

| Module | Models | State | Actions |
|---|---|---|---|
| `Outbox` | publisher Lambda over the outbox rows, activation, replay | `outbox` rows; `task[p][e]`, what invocation p remembers of event e; `runLeft`; `sent` | one per DynamoDB or SQS call: `BeginRun` is the listing, `Claim`.. the conditional claims, `Publish`.., `MarkDelivered`.., `MarkFailed`..; `*Lost` is the same call applied (or not) with an exception; `*Stale`, `Skip*` are refused conditions |
| `AtLeastOnce` | what the outbox promises its writers | `state`, `accepted` per event | publish, accept, deliver, abandon, reopen |
| `Submission` | `match_job_description` with reservation and staged create | `idem`, `outbox`, `rows`, `failed`; `req[r]`, the point request r has reached; `reply` | one per call; `CallFails`, `Resend` (a write applied twice by the SDK), `Crash` at any call |
| `WorkflowState`, `RetryPolicy` | the transition matrix, claimable statuses, the retry decision | none | operators |
| `Worker` | `process_record` behind an SQS queue | `job` rows, `msg` (queue), `run[m]`, `runLeft`, `envelopes` | queue: `Receive`, `Redrive`, `Return`; run: `Read`, `Claim`, ..., `MarkPublished`; faults; `Delete`, `MarkDispatched` by others |
| `JobMatch` | the two-step workflow, composed with the workers of its children | `Worker`'s and `dispatch[m][c]` | `StoreResult`, the five calls of `dispatch_child_job`, `CompleteMatch`, each of them also raising (`*Lost`), and all of `Worker`'s |
| `WorkflowDispatch` | `dispatch_pending` | `row`, `index` (the two gsi2 partitions as sequences), `run[p]`, `sent` | `Recover`, `Claim`, `Send`, `MarkDispatched`, `Release`, ...; the workers change `row` |
| `Tailoring` | `tailor_resume` with `update_item_and_put_outbox` on one tailoring, next to the dispatch of the children by the worker of the match | `match`, `child`, `event`, `idem` rows; `req[r]`; `dispatch`, the point the dispatch has reached, and `sent`, the children whose message was sent; `applied` (history: whose update took effect) | `Check`, `Reserve`, `Read`, `Prepare`, `Update`, `Compare`, `Activate`, `Reread`, `Complete`, `MarkRetryable`: one per call; `CallFails`, `Crash`; `BeginDispatch`, then `ReadChild`, `PendChild`, `SendChild`, `MarkChild`, `ReadAgain` of `dispatch_child_job`, one per call, `DispatchFails` at any of them, `CompleteMatch`; the worker of the tailoring by what it does to the row |
| `MatchRecords` | `Tailoring` composed with deletions and retries of the submission | `Tailoring`'s and `del[d]`, `resub[s]`; `remade` (history: a child was created again) | `BeginDelete`, `ListChildren`, `DeleteChild`, `DeleteMatch`, `DeleteFails`; `ReadMatch`, `EnsureChild` |
| `Regions` | the decisions about regions: `resolve`, `decide`, `evaluate`, `deliver`, `publish`, `evaluate_processing_ownership`, `OwnerOf` (`item_with_owner_region`), `AllowedOverrides` | none | operators named after the functions |
| `RegionalHealth` | `classify_observations`, the readiness endpoint `ready` | none | operators |
| `Placement` | work across regions, from request to completion, using the two above | `row`, `event` with owners; `queue[r]`, `dead[r]`; `deps[r]` (services that answer), `report[r]`; `workedIn`, `crossed` (history) | requests to a site, publisher, dispatcher, worker of a site, each invocation for one row a step; `PublishFails`, `Redrive`, `WorkFails`, `LastPass` are attempts that fail, the last ones included; `Outage`, `Restore`, `Probe` |
| `*Proofs` | theorems about `Outbox` and its refinement of `AtLeastOnce`, `Submission`, `Worker`, `JobMatch`, `WorkflowDispatch`, `MatchRecords`, `Placement` (section 6) | | |
| `MC*` | model values and symmetry for TLC | | |

`JobMatch` extends `Worker`, `MatchRecords` extends `Tailoring`, `Placement` extends
`Regions`, `RegionalHealth` and `WorkflowState`; `Worker` uses `WorkflowState` and
`RetryPolicy`; `Outbox` instantiates `AtLeastOnce`. `Placement` is coarse in time and fine in
space: how one publisher or one worker treats one row, call by call, is in
`Outbox`, `WorkflowDispatch` and `Worker`, so there an invocation is a step, and what
it leaves open (a duplicate, a redelivery, a failed run) is a nondeterministic
outcome of the step. The limits of the deployment (delivery attempts of an event,
processing attempts, receives of a message) are counted in `Outbox` and `Worker`;
`Placement` counts nothing and lets any attempt that fails be the last one.

`PROJECT.json` maps every definition to the lines it stands for.

Conventions. Deadlines are countdowns and `Tick` decrements them all; an
invocation is killed before its timeout is exceeded (`runLeft`). An attempt id
(uuid4) is a fresh number. A call that raises is a fault, whether it was applied or
not, and so is the death of an invocation; `MaxFaults` bounds them. Row versions
and attempt ids are not bounded: attempts, deliveries and faults bound them.

The `X_Something` operators marked "Seeded bug" before a definition `X` are
plausible mistakes in it (a dropped condition, a forgotten index key). They are
not used by the specifications; `PROJECT.json` pairs each property with one that
breaks it, so that no property passes for lack of content.

## 3. What the runs check

Passing runs; every property has a seeded bug that breaks it.

* **`outbox`** (`MCOutbox.cfg`). Two invocations, two events, one
  fault, lease longer than an invocation. A listing reads and takes one row of a
  partition, so that a row that is not due yet hides one that is; `outbox_slow` has
  batches of two. Safety: `OneHolder`, `ClaimOutlivesRun`,
  `DuplicateNeedsFault`, `AttemptBudget`, `IndexMatchesStatus`. Under
  fairness: `Settles` (an activated event is delivered or given up) and
  `ImplementsPromise` (every behaviour is one of `AtLeastOnce`, its liveness
  included, under the refinement mapping at the end of `Outbox`).
* **`outbox_slow`**. The lease is shorter than an invocation, so a claim can be
  taken over while its holder still works: `DeliveredWasSent`, `DeliveredIsFinal`
  and `HolderKeepsRow` do not depend on the timing. Two events in batches of two, three
  claims of each, one fault, one operator replay.
* **`submission`**. A request, two retries with its body and one that reuses the
  key for another body, overlapping in any order, with three faults:
  `OneMatchPerKey`, `DispatchAfterRecords`, `CompletedHasRecords`,
  `LossNeedsFault`, `CompletedIsFinal`.
* **`worker`**. Two messages for one job (the outbox may deliver twice), three
  deliveries each, two faults, the timeouts in their deployed order (run < visibility
  < lease): `OneWorker`, `AckedSettledOrAbandoned`, `EnvelopesAreTrue`, `EnvelopeBudget`,
  `FollowsMatrix` and, under fairness, `Concludes`. With these timeouts a message may be
  acknowledged because of the lease of a run that has died. The job is then `Abandoned`,
  and the two properties say that nothing else loses acknowledged work: not a
  failure, a race, a duplicate or a lost announcement, and never without a fault.
  `FollowsMatrix` is about the writes of the row's own worker.
* **`job_match`**. A match and its tailoring child on one queue, the child with three
  possible messages, two faults: `CompletedMatchHandedOver`, `ChildSentOnce`,
  `ParentRespectsWorker` (the parent writes the child's status without asking the matrix and
  beside the child's worker; a late write never pulls the child back). The second property
  excepts a child whose sibling has failed for good. Its first form, one message and one
  more per fault, is false of a match with two children of which one has failed: every
  retry of the match stops at that one with a retryable error, and until it does it
  sends the sibling again if that waits in FAILED_RETRYABLE.
* **`dispatch`**. Two overlapping dispatchers over two analyses, queries that return
  every listed row, a worker that races, a fault: `OneDispatcher`,
  `IndexMatchesDispatch`, `DispatchedWasSent`, `SentOnce`, `DispatchOnlyAdvances`
  and, under fairness, `EventuallySent`. That rows nobody can claim fill a page cannot happen
  with such queries; only `dispatch_starved` shows it.
* **`match_records`**. Three tailor requests under two keys (so that two race and a
  third retries), two deletions, a retry of the submission, the dispatch of the children,
  the worker of the tailoring, and a fault at any call: `DispatchAfterUpdate`,
  `StuckNeedsFault`, `BlockedNeedsCause`, `OrphanNeedsResubmission`,
  `StrippedNeedsAnswer`. `StuckNeedsFault` is about rows that a request has queued
  (`QueuedByRequest`): between two of its calls the dispatch of the match worker leaves a
  child QUEUED_PENDING_DISPATCH without an event, and sends the message itself.
* **`placement`**. Two sites and a witness region, an analysis, a match and its
  tailoring. Requests reach either site, with or without a validation override; the
  match may be of the time before `ownerRegion`; a child may be created again at
  the other site; a dependency fails and comes back; runs fail, die or lose their results,
  and each failure may exhaust a limit: `MessagesReachOwner`, `OneRegionPerWork`,
  `StrandedNeedsCrossing`, `ReadyMeansHealthy` and, under fairness, `OwnedWorkEnds`: work
  that is not crossed is completed or given up (its event or its row failed for good, its
  message dead-lettered or acknowledged over the row of a run that has gone), and given
  up only after an outage or a fault.

Runs that find a disagreement between the code and what a comment or document
says of it:

* **`submission_resume`** violates `AcceptedIsDispatched`. The first request dies
  after creating the match row; the retry finds the row, ensures the children and
  completes the key, and nobody activates the event. "A retry can safely resume
  after any stage" (`core/storage.py:268`).
* **`worker_deployed`** violates `AckedMeansSettled` with the deployed timeouts in
  units of 60 s: worker timeout 2, visibility 3, lease 5. After a crash the queue
  redelivers while the lease is live; `claim_job` skips, the message is deleted and
  the job stays WORKER_PROCESSING. `AckedMeansSettled`, and `Concludes` without its
  exception, would take a visibility timeout of at least the lease and a run together;
  the deployed values are far from it (180 s against 300 s + 120 s), so neither is claimed
  of the deployed system. What holds of it is in the run `worker`.
* **`job_match_stranded`** violates `AckedMeansSettled`. `process_job_match` names
  `message_context`, which it does not define: every first pass stores the result
  and then fails, and the next delivery continues. On the last delivery there is
  no next one, the terminal decision cannot be stored on a row that is no longer
  claimed, and the message is acknowledged.
* **`dispatch_starved`** violates `EventuallySent`. When a worker claims the
  analysis before `mark_dispatched`, the row goes back to the PENDING partition,
  where no claim ever takes it again; enough of them fill every query.

Observations without a run of their own:

* With `BatchSize = 1` expired claims of `WorkflowDispatch` are not always recovered:
  DISPATCHED rows stay in the CLAIMED partition and hide them.
* `FollowsMatrix` fails of `JobMatch`'s specification: `dispatch_child_job` writes
  QUEUED_PENDING_DISPATCH -> processing, which MR-013 does not list. `ParentRespectsWorker`
  allows this write and FAILED_RETRYABLE -> QUEUED_PENDING_DISPATCH, and no other.
* `update_item_and_put_outbox` "recognizes the same updatedByRequestId and finishes
  activating the event" (`core/storage.py:310`), but a retry of a client carries
  a new request id. After a crash between the preparation of the event and the
  update, every later request finds another request's event and fails, so the
  tailoring can be started no more; after a crash between the update and the activation
  retries are answered with success while no publisher sees the event. This is why
  `StuckNeedsFault` and `BlockedNeedsCause` except faults.
* The event of a tailoring has a deterministic identity and outlives the row. A
  tailoring that was deleted and created again by a retry of the submission
  starts as `waiting` next to the old event, and each request for it fails (`remade` in
  `BlockedNeedsCause`).
* A deletion with an outdated version deletes the children of a match before its
  own deletion is refused (`features/job_matching.py:735`): the match is kept without
  them. `StrippedNeedsAnswer` says that the user is always told.
* A tailoring requested in another region than its row names is sent to that
  region's queue, where the worker refuses it on every delivery until it is
  dead-lettered. The same holds of a match submitted with a validation override. This is
  `crossed` in `StrandedNeedsCrossing` and `OwnedWorkEnds`.
* `classify_observations` looks at the configuration only if there is no runtime
  observation: an invalid configuration with passing dependencies would be HEALTHY.
  The readiness endpoint never gets there, since it answers 503 as soon as its
  configuration cannot be loaded.

## 4. Bounds, and why they are enough

* **Actors.** The conflicts in this code are between pairs: two claims of one row,
  a stale holder and its successor, a worker and the dispatcher. Two invocations,
  or two messages of one job, show them; a second event or analysis shows order
  and batch effects. Submission takes four requests so that two retries can race
  while a third is still failing, next to a conflicting one. `match_records` takes two
  keys, since two requests under one key exclude each other, and a third request
  that retries one of them; two deletions, since the second finds what the first left.
* **Regions.** Two sites are what the code distinguishes: the region itself and
  another one. The third region name is the witness, which no override may name.
* **Time.** Only the order of deadlines matters: timeout < lease, or the reverse,
  or timeout < visibility < lease as deployed. One to five ticks give each order.
* **Attempts and deliveries.** A limit of two or three distinguishes first, middle
  and last.
* **Faults.** `MaxFaults` of one to three; the properties that count faults state
  how many are needed to break what they promise.
* **Replacements, outages.** `MaxReplaced` and `MaxOutages` are one in `placement`: one
  puts the child and its match at different sites, one makes each dependency of each
  site fail at some point of some behaviour.
* **Submitted work.** `MaxSubmitted` is one in `placement`: an analysis, or a match with
  its tailoring, in a behaviour. Works share the services of the sites and nothing else,
  and no property relates two of them but a match and its child.
* **Claims.** `MaxClaims` stops the listing of an event in `outbox_slow`, where
  claims may be stolen without end; elsewhere it is never reached.
* **Symmetry** over interchangeable invocations, retries or messages, only in
  runs without liveness properties.

Deadlock is checked in every run but `match_records`, whose requests, deletions and
worker runs are finitely many: it ends when they have ended. `Submission` ends when
all requests are answered, which `Terminated` states.

The type invariants are proved instead of run.

The largest runs are `match_records` (5.6 million distinct states, three minutes),
`outbox_slow` (2 million) and `worker` (560 000, two minutes with its liveness).

## 5. Fairness

Weak fairness of the clock, of the start of an invocation (the EventBridge
schedule, the event source mapping of SQS) and of the next call of a running one
(Lambda runs it until it returns or is killed, and a call returns or raises).
`Placement` has the same at its grain: weak fairness of the restoration of services
(`Restores`), of publishers with an event to publish (`Publishes`), of dispatchers with an
analysis to send (`Dispatches`), and of the queues that deliver what they hold
(`Receives`). It is stated of all sites together: it does not promise that a
particular region recovers first, and a failed run (`WorkFails`) is not a way to be fair.
Nothing is assumed of faults, of clients, of operators or of users. Deaths are
bounded by `MaxFaults` in the liveness runs: with unboundedly many of them nothing
could be promised.

## 6. What is proved

The theorems hold for every value of the constants that the named assumptions
allow: any sets of events, publishers, requests, keys, regions and works, any limits
and timeouts, and any number of faults (`MaxFaults` is an arbitrary natural number).

**`OutboxProofs`.** Assumed: events are ordered (naturals), positive batch,
attempts, timeout and lease, a natural retry delay.

* `TypeCorrect`. The lemmas before it say once what a step does to one task and
  that the rows a step writes are rows; the rest is one step per action.
* `IndexCorrect`: a row is in exactly the partition of its status. Inductive with
  the type invariant; one step per row-writing update.
* `AtMostOneHolder`, `ClaimsOutliveRuns`, for `RunTimeout < Lease`. Neither is
  inductive alone: `ExclusiveInv` is both, and `ListedDispatchable` (a listing
  contains dispatchable rows only). A claim needs the row as it was listed, so a
  held row would have to be DISPATCHING with its lease at 0; but a claim sets the
  lease above what is left of the run and `Tick` lowers both, hence the lease is
  positive while the holder runs.
* `DuplicatesNeedFaults`, under the same assumption. `SentInv` charges each message
  to the one delivery in course or to a fault: `sent <= faults + 1`, and
  `sent <= faults` while the row does not account for a delivery in course.
* `AttemptsAreBudgeted`, under the same assumption: attempts beyond the limit are charged to
  faults, as messages are.
* `DeliveriesWereSent`, `DeliveriesAreFinal` and `HoldersKeepTheirRows`, without timing. A
  message comes before each outcome (`SentBeforeOutcome`), listings contain no delivered
  rows, and attempt ids are never reused (`UniqueAttempts`), so a late outcome finds the
  claim it belongs to or none.
* `SafetyOfPromise`, for `RunTimeout < Lease`: the initial states and the steps of `Outbox`
  are those of `AtLeastOnce` under the mapping at the end of `Outbox`, or stutters. The
  step that a late holder could spoil is the outcome: it must not abandon what
  another holder delivers.

**`SubmissionProofs`.** Assumed: each request has a body hash, and "absent" is none.

* `TypeCorrect`. `ActShape` summarises every action of a request: it makes the one
  conditional write its phase allows or none (`Writes`) and moves only its own run.
  The other proofs treat the records through `Writes`, seven cases, and the run of
  the request action by action.
* `KeyNamesOneMatch` and `CompletionIsFinal`. `KeyInv` adds to the property that a
  run past the reservation works for the match and the body of the key
  (`KeyAt`): a retry that reacquires takes over the stored match id, and its own
  proposal is forgotten.
* `RecordsBeforeDispatch` and `CompletionHasRecords`. `RowsInv` says for each phase
  which records exist for the body of the run (`Made`); records are never
  overwritten (`RowsStay`), so other requests cannot spoil it.
* `LossesNeedFaults`. `Progress` describes a system without faults: the reservation
  belongs to one running request, whose event and records are as far as its run.

**`MatchRecordsProofs`.** Assumed: each request has a key, and "no request" is none.

* `TypeCorrect`, one step per action.
* `ActiveEventsHaveTheirUpdate`, `StrandingNeedsAFault`, `BlockingNeedsACause`,
  `OrphansNeedAResubmission` and `StrippingIsAnswered`, from one inductive invariant `IInv`. None of them is
  inductive alone. `SendersAreApplied`: a request between its event and its activation owns
  the event, and about to activate it its update has been applied (this is what the
  comparison of `updatedByRequestId` achieves). `PendingIsSenders`: a row in
  QUEUED_PENDING_DISPATCH was written by the request of the event, so the one that
  moved the row is the one that activates. `UpdateIsSeen`: without faults and
  re-creations a request past its update never finds the row waiting again, so it
  cannot leave a taken event behind. `ListingIsComplete`: a deletion that works through
  its list has every remaining child on it, so the match goes last.

**`PlacementProofs`.** Assumed: sites are configured regions, blank is no region, the
sets of works are disjoint and each match has its own child.

* `PublishReachesOwner`, `OneRegionIsAuthorized`, `ReadyIsHealthy`: what the operators of
  `Regions` and `RegionalHealth` decide, for every topology and every set of
  dependencies that answer.
* `TypeCorrect`. Every way a run ends, a duplicate, a failure or the last pass, has one
  form (`RunLeaves`), which the other proofs use.
* `OwnersGetTheirMessages`, `StrandingNeedsCrossing`, `OwnedWorkStaysHome`, from the inductive invariant `IInv`: what is not submitted has no event, message or
  worker (`Fresh`); the event and the child of work that is not crossed name the owner
  of the row (`EventOwner`, `ChildOwner`); only the owner's workers have claimed it
  (`WorkedAtHome`). A message is then where its event, its row or the row of its match
  says, and those agree. The lemmas before it say once what a step does to a row, an
  event, the messages and the workers of one work; the invariant is proved from them.
* `OneRegionWorks`: owned work by `WorkedAtHome`; work without an owner by `Once`, which
  says that without faults it is in one place only: pending, in one queue, or
  already worked on.
* `ReadinessIsHealth`: the readiness endpoint answers 200 exactly for a healthy region.

**`WorkerProofs`.** Assumed: finitely many messages, each for a job, the initial
statuses in the vocabulary, positive limits, timeout and lease, timeout < visibility. One lemma per
group of actions says what a step does to a message, its run, its row and its envelopes
(`MessageMoves`, fourteen kinds of step); every proof after it is over those.

* `TypeCorrect`; `StatusFollowsMatrix`, without timing: a claim is made at the status and
  the version that were read (`ReadInv`), and an outcome only over WORKER_PROCESSING.
* `AtMostOneWorker`, for `RunTimeout < Lease`. `OneWorker` is not inductive: a second claim
  could succeed. `ClaimHeld` says that a working run owns its row under a lease longer
  than what is left of it, or that the row is deleted, or completed by the run itself
  with the answer lost. `ReadInv` adds that a claim which may succeed on a
  WORKER_PROCESSING row meets a lease that has run out, as it had when it was read.
* `EnvelopesTrue` and `EnvelopesInBudget`, without timing. The first carries that who
  announces or marks has a failed row; the second charges each envelope to a message of the
  job or to a fault, and counts, from the mark on, the runs that may still announce.
* `AcknowledgedWorkIsSettledOrAbandoned`, for `RunTimeout < Lease` only, which the
  deployed values meet (120 s < 300 s). A duplicate is acknowledged because of a live
  lease. `AckInv` says that a lease is held by a working run or follows a fault
  (`LeasesHaveWorkers`), that a run which lost the claim finds the lease of the winner
  when it reads again (`LosersMeetLeases`), and that an unsettled job that is not abandoned
  has a message that will be returned to (`UnsettledIsPending`).

**`JobMatchProofs`.** Assumed besides: the match is created QUEUED_PENDING_DISPATCH and its
children waiting. It extends `WorkerProofs`, whose lemmas describe the steps that are
not calls of `process_job_match`; `MatchMoves` describes those.

* `MatchTypeCorrect`.
* `OneRunPerMatch`, for `RunTimeout < Lease`. `OneWorker` itself fails here: a run that has
  stored the result gives the row up, fails, and meets the next run already dispatching.
  `MatchRunsInv` is what holds: attempts of runs differ, a *working* run owns the row
  unless it is deleted, and the lease of an owner outlasts it.
* `MatchHandsOver`, under the same assumption. `HandInv`: a child is past `waiting` and
  QUEUED_PENDING_DISPATCH only if a message of it was sent, and a dispatch counts it as done
  only when it is past them. That no other dispatch pulls it back (FAILED_RETRYABLE to
  QUEUED_PENDING_DISPATCH) meanwhile or after the completion is `OneRunPerMatch`.
* `ParentsRespectWorkers`, without timing: the parent's writes are conditional on the status
  of the child, and the other steps are those of `StepFollowsMatrix` (`WorkerProofs`).
* `ChildrenAreSentOnce`, under the same assumption; with a lease as short as the timeout
  TLC finds a child sent twice. `OnceInv`: a run that still has to send a child
  may (`MaySend`: no more messages than faults, or a sibling has failed for good), and an
  open match may be dispatched again only if nothing is `Spent`, by a dispatch
  past its send or by a run about to record a permanent failure.

**`DispatchProofs`.** Assumed: finitely many analyses and dispatchers, positive limits and
timings, a largest delay that the last try reaches; and that a power of two is a number
(`PowersAssumption`), arithmetic the prover does not have.

* `TypeCorrect`; `IndexMatches`, `OnlyAdvances` and `DispatchesWereSent` without timing. The
  index is two ordered sequences, and the lemmas about `Without`, `With` and `MoveTo` (what
  they contain, and that they stay ordered and without repetition) carry the first.
* `DispatchersAreExclusive` and `DispatchedOnce`, for `RunTimeout < Lease`: the claim of a
  running dispatcher is current and its lease outlasts it (`ClaimsAreHeld`); messages are charged
  as in the outbox.

**Only model-checked.** Liveness: `Settles`, `EventuallySent`, `Concludes`, `OwnedWorkEnds`,
and the fairness half of `ImplementsPromise` (its safety half is `SafetyOfPromise`). The
prover has neither ENABLED nor reasoning about fairness. Every safety and action
property of a passing run is proved.

## 7. What is not modelled, and what is abstracted

* **Outbox.** A routing decision is a send that succeeds or is refused; which region
  it reaches is in `Placement`. Expiry of DELIVERED rows by the TTL and the eventual
  consistency of gsi1 reads beyond a listing that is stale when used are left out.
* **Submission.** Nobody deletes the match while its submission is in course, except for
  the retries that find the row (`MatchRecords`). A refused conditional put and the
  strong read after it are one action, because what the read compares never changes.
  `mark_request_retryable` does not say which request it speaks for: a resent call may
  give back a key that another retry holds. That step is in the model (`Resend`) and the
  properties hold with it.
* **Tailoring.** The reservation of the key is one step, its calls are in `Submission`. The
  rows of a match start as a submission leaves them: waiting children below a match that
  a worker has, or below a completed one, as in
  `tests/test_resume_tailoring_idempotency.py:83-95`. The tests of the owner (403 and the
  like) are left out: the requests are those of the user of the match. (The 403 for a
  tailoring of somebody else returns from inside the try block and leaves the key
  IN_PROGRESS; the match, read before the reservation, makes it unreachable for
  rows the code itself writes.) Of the interview preparation only its existence and its
  dispatch matter. One dispatch is in course at a time (`OneRunPerMatch`); which
  messages its worker receives, and how often, is in `JobMatch`.
* **Deletion.** `delete_all_job_matches` is the deletion of each match it finds; one
  match is modelled.
* **Placement.** Attempts, receives and leases are not counted: any failed attempt may
  be the last, so an event or a row may fail for good, and a message may be dead-lettered,
  earlier than in the deployment, but never without an outage or a fault. A row that a
  dead run has left (WORKER_PROCESSING) may be skipped or claimed by the next delivery, as if
  its lease were live or over. The sites share one configured topology. Who may use the override header
  is not modelled, only what it may ask for. The interview preparation is left out
  (no request starts it), so is the claim of a row in one region by two runs
  (`Worker`). Route 53 sends requests to any site whose last probe answered 200.
* **Worker.** A provider answers or raises an error of a class. In which region a worker
  may claim is in `Placement`.
* **Workflow dispatcher.** Rows are not deleted while they wait, gsi2 is read as it
  is, and sort keys are distinct.
* **Timings.** The deployed ones are: worker 120 s, visibility timeout 180 s, worker
  lease 300 s, publisher 30 s, outbox lease 300 s, five receives before the
  dead-letter queue, five processing attempts, twenty delivery attempts, batches of
  25. `OneHolder` and `OneWorker` need timeout < lease, which holds;
  lease + timeout <= visibility, which `AckedMeansSettled` would take, does
  not hold of the deployed values (run `worker_deployed`), and no theorem assumes it.
* **Not modelled.** Profile and target-career updates: optimistic updates of single rows
  with a version, and a generation job that no worker supports. HTTP routing, keys,
  configuration, registration notification, providers, frontend, infrastructure and
  operations tooling keep no state of their own or are external.

## 8. Plan

Done: the outbox, the submission, the worker, the job-match workflow, the dispatcher,
resume tailoring with deletion, placement with regional health, and the theorems of
section 6. Next, in this order:

1. Theorems about `RetryPolicy` and `WorkflowState` as a whole: every status but the
   terminal ones has a successor, a decision is terminal exactly at the last attempt.
2. A child that fails before its parent marks it dispatched makes the parent fail
   although its result is stored (`MarkChildAgain`): a property of the parent status.
3. What the acknowledgement of `JobMatch` does promise when the match is not on its last
   delivery (`job_match_stranded`), with the invariant it needs.
4. The versioned updates of profile and target career.
5. Outbox and worker composed: a job whose event is delivered at least once is
   worked on to the end, by one worker at a time.
