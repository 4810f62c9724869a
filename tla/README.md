# VocabLens in TLA+

VocabLens is an async FastAPI application over Postgres.  Requests, and the
workers that run beside them, share a user's rows and meet only there: nothing
but row locks, unique indexes and the order of commits keeps them apart.  That
is the part of the program that unit tests with fake units of work do not
reach, and it is what is modelled here, service by service.

* `*.tla`, `*.cfg`: the modules and the TLC configurations
* `PROJECT.json`: components, runs, the map from definitions to source lines,
  the hazards with the properties that cover them, findings, theorems

To check one: `tlc -config CorePromise.cfg MCCoreMutations.tla`; to prove:
`tlapm CoreMutationsProofs.tla`.

## 1. Inventory

Paths are below `src/vocablens/`.  "Hard" names the behaviours worth a model,
"correct" the properties that make the component right.

| Component | State | Operations | Hard | Correct | Module |
|---|---|---|---|---|---|
| **Core mutations** `services/mutator.py`, `mutations.py` | `user_core_state`, `mutation_ledger`, `outbox_events` | `Mutator.mutate` | same key twice at once, retry after an error | one credit per key; state, ledger and event commit together | `CoreMutations` |
| **Hot queue** `services/hot_user_service.py` | `user_mutation_queue`, `user_queue_seq`, `user_command_receipts` | `enqueue`: reject, drop, coalesce, insert | overload, coalescing into a row that is being flushed, retries | no accepted command lost or doubled | `CoreMutations` |
| **Flush worker** `workers/hot_user_worker.py` | `user_queue_progress`, core state, ledger | `flush_user`, `run_once`, `run_forever` | several workers, gaps, stale `last_applied_seq`, aborted flushes | rows applied once and in the end, progress means "applied up to" | `CoreMutations` |
| **State API** `api/routers/state_router.py` | receipts, `user_execution_mode` | `mutate_xp`, `read_core_state` | receipt after the commit, polling, mode switch | a read after a command sees it | `CoreMutations` |
| **Outbox** `workers/outbox_worker.py` | `outbox_events` | claim, publish, settle | locks end before publishing, crash after publishing, lost retry counts | published means delivered; every row is settled | `Outbox` |
| **Consumer contract** `services/event_consumer_contract.py` | `_seen` | `consume_once` | duplicates, a handler that raises | handled once | `Outbox` |
| **Learning worker** `workers/learning_worker.py` | `learning_state_cursors`, `learning_worker_failures` | `_advance_user_cursor`, `run_batch` | ids that commit out of order, concurrent runs, partial commits, quarantine | no attempt skipped, cursor only advances | `LearningCursor` |
| **Unit of work** `infrastructure/unit_of_work.py` | one session | enter, commit, exit | repositories that commit the shared session | one transaction | all |
| **Sessions** `services/session_engine.py` | `learning_sessions`, `learning_session_attempts` | start, submit, expire | two submissions, expiry racing completion, commits in mid-evaluation | completed once, one result per submission | `LearningSession` |
| **Learning engine** `services/learning_engine.py`, `learning_session_updater.py`, `learning_state_projector.py` | vocabulary, learning, engagement and progress rows | apply result, project | lost updates, half of a projection | a result is applied once or not at all | `LearningSession` |
| **Daily loop** `services/daily_loop_service.py`, `retention_engine.py` | `daily_missions`, `reward_chests`, engagement, profile and progress rows | issue, complete, claim, use shield | concurrent requests, midnight, a race that fails late | one mission a day, one reward a mission, one shield a week | `DailyLoop` |
| **Lifecycle** `services/lifecycle_*` | stage row, transition log, policy in the notification row | evaluate, two remediations | two transactions, concurrent evaluations | log, row and policy agree | `Lifecycle` |
| **Notifications** `services/notification_*` | delivery rows, notification row, preferences | decide, send, record | crash between sending and recording, lost counts, midnight | daily limit, cooldown | `Notifications` |
| **Offers** `services/adaptive_paywall_*`, `monetization_*`, `global_decision_engine.py` | `user_monetization_states` and its events | evaluate, dismiss, accept, trial, upgrade, decide | who evaluates counts as shown; one answer takes seven evaluations | counts agree with events, cooldown | `Offers` |
| **Subscriptions** `services/subscription_service.py`, `virality_service.py`, `onboarding_flow_*` | `subscriptions`, `onboarding_flow_states` | features, trial, upgrade, referral; start, next | read and write in different transactions | what was paid or granted stays | `Subscriptions` |
| **Practice** `services/vocabulary_service.py`, `conversation_*`, `learning_event_service.py`, `event_processors/` | `vocabulary`, `learning_events`, edges of the graph | add by text, batch, conversation; review | reads before writes, processors in the middle of a request | each review counted, one row and one edge a word | `Practice` |
| **Personalization** `services/personalization_service.py` | `user_profiles` | learn from events, choose difficulty | "events since `updated_at`" as the only mark of what was used | an event counts once | `Personalization` |
| **Gamification, sharing, progress** `services/gamification_service.py`, `progress_service.py`, `virality_service.py` | badges and milestones as events | refresh, share | what was awarded is read from events written later or never | awarded once | `Awards` |
| **Content** `services/learning_engine.py`, `learning_policy.py`, `session_engine.py`, `lesson_generation_service.py`, `content_quality_gate_service.py`, `exercise_template_registry_service.py` | `content_quality_checks`, exercise templates | recommend, build, rewrite by a model, check | a model's answer, data that changes between reads | only what passes the gate is served | `Content` |
| **Experiments** `services/experiment_service.py`, `experiment_attribution_service.py` | assignments, exposures, attributions | assign, record event | registry changes between read and assignment | variant sticky, exposed and attributed once | `Experiments` |
| **Registries** `services/experiment_registry_service.py`, `notification_policy_registry_service.py`, `exercise_template_registry_admin_service.py` | one row each, audit rows | upsert, pause, resume, kill, archive | a command built or validated on a stale row | decisions stick, audit explains the row | `Registry` |
| **Events** `services/event_service.py` | bounded queue, tasks, `events`, `interaction_stats` | track, flush, close | overflow, order, close racing track | flush means written | `EventIngest` |
| **Health signals** `services/*_health_signal_service.py` | one row a scope, signals | evaluate | evaluations overlap, write and tell are two steps | every alarm told once, worse is not healthier | `HealthSignals` |
| **Reports and remediation** `services/decision_trace_service.py`, `operator_remediation_service.py` | `decision_traces` | trace, report, check, repair | several transactions compared by several statements | no alarm without a cause, repairs end the drift | `Oversight` |
| **Admission** `main.py`, `infrastructure/rate_limit.py`, `resilience.py`, `services/cached_translator.py`, `infrastructure/jobs/` | windows, `usage_logs`, breakers, translations, Celery's queue | limit, count, call, retry, run a job | check and log are two transactions, redelivery, timeouts | quota overrun bounded, nothing paid for twice | `Admission` |
| Analytics, tutor, habits and wow moments | none of their own | read, score, format | little | arithmetic of one request | |
| HTTP, auth, schemas, providers | none | parse, format, call | little | | |

How they meet:

```
POST /state/mutate-xp --cold--> Mutator ------------> user_core_state, ledger, outbox
                      --hot---> HotUserService ---> queue --> HotUserWorker --^ (not the outbox)
GET /state/core  <-- receipts, last_applied_seq, user_core_state
outbox --> OutboxWorker --> broker --> IdempotentConsumer
SessionEngine --> attempts --> LearningWorker (cursor)
              \-> LearningEngine --> vocabulary, learning, engagement, progress rows
DailyLoop, EventService, RetentionEngine --> engagement, progress and profile rows
recommendation --> SessionEngine, LessonGeneration --> gate --> content_quality_checks
Onboarding, Paywall, GlobalDecision, Lifecycle --> Monetization (offer row), Subscription (trial)
Lifecycle --> notification row <-- Notifications, RetentionProcessor
learning events --> processors: retention, personalization, review schedule, graph, enrichment job
every service --> EventService --> events --> attribution to experiments
every service --> decision traces --> reports --> remediation; health signals
middleware (rate, quota, usage log) around every request
```

## 2. What is modelled

Conventions of all modules:

* A transaction is READ COMMITTED.  Where the code reads in one statement and
  writes in another, these are two actions; what a transaction writes appears
  in the action that commits it.  A row lock, or the wait for a unique index, is
  there where the code takes or meets one.
* An `UPDATE` by the ORM writes the columns that differ from the row that was
  loaded, and so do the models: a change by another request to a column that was
  loaded before is overwritten only if the own value differs.
* A request that fails, times out or dies is one action that can happen at any
  of its steps (`...Dies`, `...Fails`, `Fault`, `Crash`).
* A variable marked "not in the code" records history for a property: how often
  something happened, or that two requests overlapped (`...Raced`, `disturbed`,
  `contested`, `unsettled`).  Properties of what nothing locks say that it holds
  unless such an overlap took place, and the overlap is recorded as narrowly as
  it is true.

### `CoreMutations`: the XP write path of one user

Users share no rows, so one is modelled.  Each operation is a READ COMMITTED
transaction that takes the lock on the user's core row before it writes; the
model has one action per statement at which another transaction can get in
between, and a transaction's writes appear in the action that commits it.

| Code | Model |
|---|---|
| `user_core_state.xp` | `xp`: for each *submission* `<<key, n>>`, how often its delta is in the sum.  A sum cannot tell a lost delta from a doubled one; this can. |
| `mutation_ledger`, `outbox_events`, queue, `user_queue_seq`, `user_queue_progress`, receipts | `ledger`, `outbox`, `queue`, `nextSeq`, `lastApplied`, `receipts` |
| row lock of `get_for_update` | `coreLock` |
| row locks of `claim_batch` | `worker[w].held` |
| `mutate_xp`: choosing the mode | `Submit` |
| `enqueue` | `LockForRequest`, then `EnqueueDrop`, `EnqueueCoalesce` or `EnqueueInsert` |
| `mutate` | `LockForRequest`, then `Mutate` or `MutateReplay`; the receipt is `ReceiptCold` |
| every error, timeout or crash of a request | `RequestFails` |
| `flush_user` | `Claim`, `ReadProgress`, `GapFound` or `GapSkip`, `LockForFlush`, `FlushCommit` or `FlushConflict`; `FlushAborts` at any step |
| `read_core_state` | `ReadReceipt`, `ReadWaits`, `ReadState`, `ReadEnds` |

Left out: the level, which is a function of xp; metrics; the age of the oldest
row, so that a long queue may or may not count as overloaded; and the sizes
that `_adapt_controls` computes, so that a batch has any size of `BatchSizes`.
Taken for granted: the user's core, progress and sequence rows exist (the first
request of a user may lose the race to insert them, rolls back and succeeds
when it is sent again); `get_for_update` returns the row as it is once the lock
is granted (the session keeps no reference to the row read just before, so
SQLAlchemy loads it again).

### `ExactlyOnce`: what the write path promises

Submissions are accepted, wait as `pending`, and are credited at most once for
each key, alone or in batches.  `CoreMutations` implements it under the mapping
`pending <- SendsInQueue, credits <- xp` as long as the queue is never
overloaded.

### `Outbox`: `OutboxWorker`, the outbox repository and the consumer contract

`Claim` is the first transaction of `run_once`; its locks are gone when it
commits.  `PublishOk` and `PublishRaises` publish the batch in id order, outside
any transaction; a publisher that raises may have delivered.  `ReadRetryCounts`
and `Settle` are the second transaction: the counts are read in one statement
and written in later ones, and neither update looks at what the row has become.
`Crash` stands for a dead process and for a settling transaction that fails.
`next_attempt_at` is a flag, `due`, that `BecomeDue` sets.  The broker is
external: it delivers each publish, and again what a consumer raised on.

### `LearningSession`: `SessionEngine` and what an evaluation writes

One user, because requests of different users share no row.  `Start` is
`start_session`; `Expires` is the clock.  `evaluate_session` is a request in
`req`, which takes these steps:

| Code | Model |
|---|---|
| first unit of work: `get`, then `get_attempt_by_submission` | `Submit`, `ReadSession`, then `AnswerPrior`, `Check` or `Reject` |
| `mark_expired` and its commit | `MarkExpired` |
| `create_attempt_once` | `CreateAttempt`, or `AnswerExisting` when the unique index refuses the row |
| `mark_completed_once` | `MarkCompleted`, or `AlreadyCompleted` |
| `LearningSessionUpdater.apply` reads the engagement and progress rows | `ReadEngagement`, `ReadProgress` |
| `vocab.update`, `learning_events.record`, `skill_tracking.record`, each of which commits the shared session | `FirstCommit`, `LaterCommit` |
| projections, feedback, events, trace, `commit` | `LastCommit` |
| return | `Answer` |
| an exception, a timeout, a dead process | `Fault`, at any step |

`attempts` holds what is committed, as pairs of a submission and the number of
the request that evaluated it, so that an answer can be traced to an
evaluation.  An insert waits for an uncommitted one of the same submission
(`Inserting`), and the updates of a session's status wait for a completion that
is not committed (`Locked`); that lock ends with `FirstCommit`, long before the
evaluation does.  `engagement` and `progress` are the sets of sessions that the
two rows count, so that a lost update is a missing session.  `overlapped` is not
in the code: it records which evaluations ended while another had read the rows.
Left out: how sessions are generated and scored, content quality, the events of
rejections, experiment attribution, and the learning-state row, which is read
and written where the other two are.  The rows of engagement and progress are
taken to exist.

### `OneResult`: what evaluations promise

A session accepts one submission, and every answer for it is the evaluation that
was accepted.  `LearningSession` implements it under `results <- attempts`.

### `Services`: what a learner meets

`Services` puts nine modules side by side.  A behaviour is about one of them,
chosen by `component` at the start and never changed.  That is enough because
tables with writers in two services have both writers in the module that owns
the table: the session projection is in `DailyLoop`, the lifecycle's policy and
the remediations in `Lifecycle`, decisions and reports in `Offers`, the
processors of events in `Practice`, the onboarding's choice in
`Personalization`.

**`DailyLoop`.**  One action per statement that others can get in between.

| Code | Model |
|---|---|
| `build_daily_loop`: look, insert mission and chest | `LookForMission`, `IssueMission`, which takes the row of whoever was first (`CreateMissionOnce`, `CreateChestOnce`) |
| `complete_daily_mission`: `record_activity` | `BeginCompletion`, `ReadProfile`, `RecordActivity` (a commit of its own) |
| lookup, `UPDATE ... WHERE status = 'issued'`, unlock, xp, commit | `LookUpMission`, `MarkCompleted` (locks), `ReadXp`, `CommitCompletion` |
| `claim_reward_chest` | `ReadChest`, `MarkClaimed` |
| `use_skip_shield` | `ReadShields`, `UseShield` |
| the session projection, another writer of both rows | `SessionReads`, `SessionWrites` |
| midnight, a failing request | `Midnight`, `RequestDies` |

`xp` counts each day's completion, so that a lost and a doubled reward differ.

**`Lifecycle`.**  `Evaluate` chooses a stage (any: the data changes all the
time), `ReadStage` and `RecordStage` are the transaction of the lifecycle row
and its log, `ReadNotification` and `ApplyPolicy` that of the notification row,
`DecideNotification` the report after them.  `Remediate` and `RepairTransition`
are the operator's repairs.  The row keeps the clock of its read
(`created_at` is taken before it), so that "the newest transition" is what the
code takes for it.

**`Notifications`.**  `ReadPreferences`, `SyncPreferences`, then `Decline` or
`Approve` are the decision; `CreateAttempt`, `BackendSends` or `BackendRaises`,
`MarkStatus` the delivery; `RecordDelivery` the row's counts.  Time goes in
slots; `PassTime` is free, so that a run may last beyond midnight.

**`Offers`.**  An answer is a plan: a list of steps of which each is an
evaluation of the paywall, a transaction on the offer row (`LoadOffers`,
`StoreOffers`) or a change of the subscription.  `EvaluatePaywall` translates
segment, thresholds and trigger; `MonetizationAction` and `DecideGlobally` the
decisions.  `LookAtPaywall`, `AskDecision`, `EvaluateOffer`, `ClickUpgrade`,
`AskForTrial` and `UpgradeTier` are the routes.

**`Practice`.**  `ProcessText`, `ProcessBatch`, `Converse` and `ReviewItem`
begin a request; its plan then runs through `CheckWord`, `ReadKnownWords`,
`InsertWord`, `RecordEvent`, `ListWords`, `DeleteEdges`, `ConnectWords`,
`ReadWord`, `WriteWord` or `KeepWord`, in the code's order: the processors of
the event are part of the plan.  A row counts how often it was scheduled.

**`Personalization`.**  `RecordSignal` and `RecordFromSession` append an event,
`RenewActivity` is the retention processor, which comes first and renews
`updated_at`; `ReadUserProfile`, `ListSignals` and `WriteUserProfile` are
`update_from_learning_signals`, with the rates in thousandths, rounded down.
`PersistPreferences` is the onboarding.  `counted` records how often an event
changed the profile.

**`Awards`.**  `ReadStanding`, `ReadDashboard`, `ReadAwards` and `Award` are
`refresh`; `ShareProgress` is the share; `WriteEvent` and `DropEvent` are what
the event service makes of tracked events, later and in any order.

**`Content`.**  `Recommend` (with or without the global decision), `BuildRound`
from a second read of the learner, `CheckRound`, then `RejectRound` or
`StoreRound` (`PassUngated` without a gate) are `start_session`; `ReadBlueprint`
renders templates, `AskModel` merges any reply of the model, `CheckLesson` and
`AnswerLesson` end the lesson.  Texts are members of small sets that keep what
the gate's critical rules can tell apart.

**`LearningCursor`** is the learning worker for one user.  Writers insert
attempts (`InsertAttempt` draws the id, `EndInsert` commits or drops it, in any
order; `overtaken` keeps the ids that a batch was read beyond meanwhile).  A run
reads the quarantine and the cursor (`ReadCursor`), the batch (`ReadAttempts`),
writes the cursor and so locks its row (`WriteCursor`), and commits in
`Succeed`.  A body that raises commits what it wrote together with the failure
(`Fail`, `RecordFailure`); a statement that fails leaves nothing (`Abort`),
because `record_failure` cannot run in an aborted transaction.  The cursor row
is taken to exist.

### `Operations`: what runs the product

`Operations` composes seven modules the same way.

**`Experiments`.**  `ReadDefinition`, `Decide` (with the assignments read then),
`Ensure` (assignment and exposure, both insert-once, in one transaction),
`Attribute` and `AnswerVariant` (trace) are `assign`; `ReadRows`, `WriteCounts`
and `WriteConversion` are `record_event`.  `Configure` changes a definition at
any time, `WindowEnds` closes an attribution window.

**`Registry`.**  One row of any of the three registries.  `UpsertExperiment`,
`UpsertPolicy` and `UpsertTemplate` are validated commands; `Pause`, `Archive`,
`Kill` and `CheckResume`, `Resume` build one from the row in a transaction of
their own; `Load` and `Save` are the upsert, which merges only the columns that
differ and appends the audit entry.  `stale` records that another request saved
in between.

**`Subscriptions`.**  `AskFeatures`, `Upgrade`, `Grant` (referral), `StartFlow`
and `NextInFlow` are requests; `Look` is the read on which one decides (a
referral takes the tier from the read of `get_features` before it, in `Grant`),
`LoadSubscription` and `WriteSubscription` the upsert, `SaveFlow` the
onboarding's row.  `ClockTicks` ends trials.

**`EventIngest`.**  One event loop and one service: `TrackUnbounded`,
`TrackBuffered`, `Spawn` and `TrackDurable` are `track_event`; `DrainTakes` is
the drain task; `ReadStats`, `Store`, `AttributionEnds` or `DropEvent` persist
an event; `Flush`, `Gather`, `FlushReturns` and `CloseReturns` are the waits,
with asyncio's `join` and `gather` modelled by what they wait for.

**`HealthSignals`.**  The nine services are copies of one another with other
metrics and thresholds, so there is one module with the metrics and thresholds
of all (`Metrics`, `Alerts`, `Status`), and `subject` says which one a behaviour
is about.  `ReadData`, `ReadRow`, `PersistRow`, `Emit` are the steps; of a row
that was there, only the columns that differ from the read are written
(`RowWritten`), as the ORM does.

**`Oversight`.**  A request is a plan of what it appends or overwrites, one
entry per transaction (`Trace`), for five kinds of requests; for the stage
`engaged` an evaluation asks for no notification.  `journal` is every
append-only table in one; a report or check reads it statement by statement
(`Read`) and computes its codes (`Issues`, `Drift`); `StartRepair`, `Repair` and
`CheckRepair` are the remediations.

**`Admission`.**  `Arrive` is the rate limit, `EvaluateRequest` the quota,
`LogUsage` or `LogFails` the end of the middleware; in between `LookUp`,
`AttemptSucceeds`, `AttemptFails`, `AttemptBlocked`, `AnswerUnusable`,
`SaveTranslation` and `SaveFails` are a translation, and `LearnWord` dispatches
a job: `StartJob`, `EnrichRow` (the repository commits the word's row itself),
`CommitJob` (the usage log), `Acknowledge`, `JobRaises`, `JobFails`,
`JobTimesOut`, `WorkerDies`, of which the last four may come before, between and
after the two commits.  Celery is external: it delivers a task again that was
not acknowledged.  It keeps one message for each job in the model; a worker that
dies between the publication of a retry and the acknowledgement of the try it
follows, and so leaves two, is not modelled.

## 3. Runs

| Run | Instance | What it shows |
|---|---|---|
| `CorePromise` | 2 keys sent twice in either mode, 2 clients, 2 workers, no overload | `KeepsPromise` (refinement of `ExactlyOnce`), `KeyCreditedOnce`, `LedgerAgrees` |
| `CoreOverload` | 3 keys and one whose delta is 0, each sent once, 1 client, 1 worker, 1 reader, overload from the first row on, fairness | `ReadYourWrites`; `AckedIsCredited`, `ReceiptsBecomeCovered` |
| `CorePoison` | a key is sent again after its flush | `AckedIsCredited` fails |
| `CoreReadStale` | 2 workers | `ReadYourWrites` fails |
| `CoreRetryCoalesced` | a coalesced key is sent again | `KeyCreditedOnce` fails |
| `OutboxWorkers` | 2 rows, 2 workers, 2 faults, fairness | `PublishedIsDelivered`, `DeadLetterEarned`, `HandledAtMostOnce`, `EventuallySettled` |
| `OutboxHandlerFails` | the handler raises once | `PublishedIsHandled` fails |
| `LearningSession` | 2 sessions, 2 submissions, 2 concurrent requests of 3, 1 fault | `KeepsPromise` (refinement of `OneResult`), `LostNeedsOverlap`, `HalfAppliedNeedsFault` |
| `SessionCrash` | 1 session, 1 request at a time, 1 fault | `EvaluationAtomic` fails |
| `RoundGate` | one round for one learner | `RoundsPassTheGate` fails |
| `Services` | 2 concurrent requests of each service, 2 to 3 in all; 4 attempts, 1 worker and 3 faults for the cursor | one property or two of each service, below |
| `Operations` | 2 concurrent requests of each service, 2 to 5 in all | one property to three of each service, below |

The properties of the two compositions:

| Property | Says |
|---|---|
| `StreakIsARun` | the streak is the run of active days that ends with the last, but for overlaps around midnight |
| `ShieldOncePerWeek` | shields are a week apart, but for two requests that overlap |
| `RewardOnce` | mission, chest, claim and xp go together, once |
| `StageAgreesOnceSettled` | row, log and notification row agree on the lifecycle stage, and what broke this is mended by the next evaluation that overlaps none |
| `NoBurst` | limit and cooldown of reminders hold between runs that do not overlap or die, across midnight and retries |
| `OffersAddUp`, `QuietAfterPaywall` | the offer row counts what happened, acceptance ends eligibility; soft paywalls are twelve hours apart |
| `PracticeAddsUp` | rows count their schedules, words have one row, events and edges match rows |
| `TaughtOnce` | no event changes the profile twice, and the choice of hard lessons stands |
| `AwardedOnce` | an award is not repeated while its event can be read, and what was answered was awarded |
| `LessonsKeepTheirTemplates`, `RefusedForCause` | a served lesson has its blueprint's exercises, a refused one has a cause |
| `NothingSkipped` | no attempt is left behind the cursor but one that was still uncommitted when a run read past its id |
| `FirstAssignmentStands`, `ExclusiveUnlessRaced`, `EventsCounted` | the first variant is the only one answered, exposed, attributed and traced; exclusion and counts hold unless requests overlap |
| `DecisionsStick`, `TrailIsTrue` | kills and archives stand; the audit trail explains the row as far as its entries continue one another |
| `LostOnlyToAnEarlierDecision` | tier, trial and place in the onboarding are lost only to a request that decided before they were given |
| `FlushDrains` | flush and close return when all earlier events are settled; order and counts hold without spawned tasks |
| `AlarmsAreRaised` | worse metrics are no better status, and each alert that rose is told once |
| `AlarmsNeedCause`, `RepairSettles` | a report that overlaps nothing has a cause for each code, and a repair ends its drift |
| `OverrunIsBounded`, `PaidForOnce` | the quota is passed by what was in progress at most; a translation is paid twice only after an overlap, a lost answer or a failed save, an enrichment only by a retry of a try that raised after its charge, or by a second delivery |

The six failures are what the code does:

* **`CorePoison`.**  `enqueue` checks a key against the queue only.  A key that
  was flushed is in the ledger and no longer in the queue, so a client's retry
  queues it again; from then on every flush of the user violates the ledger's
  primary key, `run_once` discards the exception, and the queue stands still.
* **`CoreReadStale`.**  Two workers hold neighbouring rows.  The later row's
  worker does not see the earlier one as missing forever: it waits, gives up and
  skips it, and then sets `last_applied_seq` past it.  A reader that waits for
  the earlier command is let through before it is applied.
* **`CoreRetryCoalesced`.**  A coalesced command is in no unique index, so its
  retry adds its delta again.
* **`OutboxHandlerFails`.**  The dedupe key is marked before the handler runs.
* **`SessionCrash`.**  The first repository that commits the shared session
  commits the attempt and the completed status with it.  If the evaluation is
  cut off after that, the session is completed without progress or events, and
  the retry that should repair it is answered with the stored feedback.
* **`RoundGate`.**  The payloads of a built round lack a target and fields that
  the gate treats as critical, so that with the gate, as the application is
  wired, no session can be started.

### Bounds

A counterexample to any of the safety properties needs few actors: two rows for
a gap, two workers for a stale `last_applied_seq`, two submissions of a key for
a retry, one abort at the worst moment; in the services, two requests that
overlap and a third that meets what they left.  `Max...` and `Last...` bound
what would be endless.

* `CoreMutations`: `MaxQueue` is three so that the queue fills, and
  `OverloadDepth` is 0 or at least `MaxQueue`, so that overload happens from the
  first row on or never.
* `Outbox`, `LearningCursor`: `RetryLimit` and `Threshold` are smaller than in
  the code (10 and 3), which changes only how many faults reach them.  `Limit`
  is smaller than the number of attempts, so batches split.
* `LearningCursor`: two insertions, so that ids commit out of their order, and
  two runs, so that one sets the cursor back.
* `LearningSession`: a third request is the retry that meets the other two, and
  two sessions are needed for one evaluation to undo another's projection.
* `DailyLoop`: three days and a week of two, so that shields of the same and of
  the next week and a gap of a day happen.
* `Notifications`: two slots a day and three slots, limits one and two, so that
  both limit and cooldown decide.
* `Offers`: two persons, one on each side of the thresholds; the clock has one
  step of twelve hours, which is the cooldown.
* `Awards`: a window of three events instead of 5000, so that awards leave it.
* `Personalization`: reviews of quality 1, which lower what the profile knows.
* `HealthSignals`: a population of 25, of which none, a quarter, half or all
  count, and zero, one or five single events; two changes of one count each, so
  that an alert rises and falls.
* `Oversight`: a window of one trace, so that traces leave it; two reviews, so
  that a report can follow a repair.
* `Admission`: two attempts, a threshold of one and one request per window and
  day, so that breakers open, windows and quotas are full at once.

Larger instances that were checked once, without error, and are too slow to
repeat: four to five requests of `DailyLoop`, `Experiments`, `Registry`,
`Lifecycle`; three reminders over four slots; three words and requests in
`Practice`; all 72 learners in `Content`; four attempts, or three faults, in
`LearningCursor`; two standings and three visits in `Awards` (6.8 million
states).

No run checks for deadlock: each instance stops when its bounded submissions,
requests, events or attempts are used up.

### Fairness

* Flush workers: `run_forever` polls without end and every statement ends
  within `STATEMENT_TIMEOUT_MS`, so a worker that can step does (`WF` of
  `FlushNext`).  Aborts are bounded and not fair.
* Requests: a request in flight ends, by its statements or by an error (`WF`).
  No request has to be submitted, and readers are not fair.
* Outbox: `run_forever`, time that passes (`BecomeDue`) and a broker that
  delivers are each weakly fair; faults and inserts are not.
* Learning worker: nothing calls `run_batch` in this repository, so no liveness
  is claimed for it.
* Sessions and the services of `Services` and `Operations`: no liveness is
  claimed.  Nothing retries a request but the client, who need not; that
  `flush` returns at all depends on no close in between (section 5).

`HotUserWorker` and `OutboxWorker` have `run_forever`, but nothing in the
repository starts them; the liveness properties are about deployments that do.

### Slips

A definition whose comment begins with "Slip:", or whose name begins with
`Slip`, is a variant of another one that a plausible mistake would give: a
dropped lock, an off-by-one, a missing reset, the order of two steps.  No
specification uses one.  `PROJECT.json` pairs each property with a slip that
violates it, which shows that the property says something about the code.

## 4. Proofs

| Module | Proves about | alone or composed |
|---|---|---|
| `CoreMutationsProofs` | `CoreMutations`, and that it implements `ExactlyOnce` | alone |
| `OutboxProofs` | `Outbox` | alone |
| `LearningSessionProofs` | `LearningSession`, and that it implements `OneResult` | alone |
| `ExperimentsProofs` | `Experiments`, `Registry` | in `Operations` |
| `SubscriptionsProofs` | `Subscriptions` | in `Operations` |
| `LearnerProofs` | `DailyLoop`, `LearningCursor`, `Practice`, `Personalization`, `Content`, `Awards` | in `Services` |
| `ServicesProofs` | `Lifecycle`, `Notifications`, `Offers`, and the composition `Services` | in `Services` |
| `OperationsProofs` | `Admission`, `EventIngest`, `HealthSignals`, `Oversight`, and the composition `Operations` | in `Operations` |

Every invariant and action property of the passing runs that is no temporal
formula under fairness has its theorem here.  The constants are unbounded: the
proofs assume of them what the `ASSUME` of each module says, which TLC evaluates
in every run.  Where a theorem needs more, that is its hypothesis and is named
below.

### The write path, sessions and the outbox

`CoreMutationsProofs` proves, for any sets of keys, clients, workers, readers
and batch sizes and any bounds:

* `TypeCorrect`: `Spec => []TypeOK`
* `AtMostOneCredit`: `Spec => []SendCreditedOnce`
* `RowOwnership`: `Spec => []FlushOwnsItsRows`

`SendCreditedOnce` is not inductive: a state in which a send is both credited
and in the queue satisfies it, and the next flush breaks it.  The inductive
invariant `Inv` says where a submission can be at one time.  It is a conjunction:

* `TypeOK`;
* `RowsNumbered`: rows have different numbers, all below `nextSeq`;
* `FlushOwnsItsRows` and `HeldByClaim`: a flush's batch is in the queue and
  among the rows it has locked, and idle workers hold nothing;
* `OpenOnce`: the sends of open requests are different, were submitted, and are
  neither queued nor credited, unless the request only waits for its receipt;
* `QueuedOnce`: no two rows contain the same send;
* `CreditedOnce`: a credited send is in no row, and was credited once.

There is a lemma for each group of actions, and the theorems follow from it by
temporal reasoning.  The assumptions are `ConstantsAssumption` and
`ProcessesAssumption` of `CoreMutations`, and that the sets of processes are
what the module says; nothing about the code beyond the model.

Three more theorems have the hypothesis `NeverOverloaded`, that the bound on the
queue is at most one more than the depth at which `enqueue` begins to drop and
coalesce (the run `CorePromise` satisfies it):

* `OneCreditPerKey`: `Spec => []KeyCreditedOnce`
* `LedgerIsExact`: `Spec => []LedgerAgrees`
* `WritePathKeepsPromise`: `Spec => KeepsPromise`, the refinement of
  `ExactlyOnce`

Without it they are false: the retry of a coalesced command is added again (run
`CoreRetryCoalesced`).  The invariant `KeyInv` adds to `Inv` that every row
contains one submission and has its key (`RowsKeyed`), and that different rows
have different keys (`KeysUnique`).  A poisoned row, whose key is in the ledger
already, is not excluded: its flush fails, which is a stutter of the promise.

`OwnWritesAreRead` (`Spec => []ReadYourWrites`) has the hypothesis `OneWorker`;
with two workers it is false (run `CoreReadStale`).  Receipts and reads are
watermarks, so its invariant `OwnWritesInv` relates numbers to keys: the rows of
the queue that no one has locked are numbered above `last_applied_seq`, and the
only batch is the lowest part of the queue (`OrderInv`); a row carries the keys
that were coalesced into it, and what is committed is written (`WrittenInv`);
the key of each receipt is in `xp`, or waits in a row that is numbered no later
than the receipt (`PromisesInv`).

Of `LearningCursor`, `LearnerProofs` proves three theorems.

* `NoAttemptSkipped`: `Spec => []NothingSkipped`, with any number of concurrent
  insertions, runs, failures and aborts.  An attempt that commits late is passed
  by a run that has read a higher id; the property says that this is the only
  way to be left behind.  The invariant `SkipInv` speaks of every id that is
  `Drawn`, committed or not: the next id is above it and above the cursor and
  the runs (`PositionsReached`); and each drawn id at or below the cursor, or
  the cursor that a run has read, is processed or overtaken, and each one below
  a run's batch is so, or is in the batch, or the run saw it open
  (`CursorSkipsNothing`, `RunsSkipNothing`).  `AttemptsAfterClosed` is the lemma
  about `LIMIT`.
* `CursorNeverGoesBack` and `QuarantineAfterStreak`: under `OneRun`, from
  `OneRunInv`: a run starts at the cursor, what it read of the failure row is
  still there when it commits, and the row's count is at most the streak.

Without `OneRun`, the user having one run at a time, the other two are false.

`LearningSessionProofs` proves every property of the run `LearningSession`, for
any sessions, submissions, requests and bounds, from `ConstantsAssumption` alone.

* `OneResultPerSession`: `Spec => KeepsPromise`.  Every step of the model is a
  step of `OneResult` or changes nothing it sees.  That needs `ResultInv`:
  between `UPDATE ... WHERE status = 'active'` and its first commit a request is
  the only holder of the session's row (`OneHolder`), the row is still active
  (`HeldIsActive`), and an active session has no committed attempt
  (`ActiveIsEmpty`), so that `FirstCommit` adds to an empty set; what a request
  will answer is already stored (`OwnResult`).
* `ExpiredStaysExpired`: `Spec => ExpiredIsFinal`, from `HeldIsActive`.
* `OnlyOverlapLoses`: `Spec => []LostNeedsOverlap`.  `SeenInv` adds that what a
  request has read of the rows includes every session that was counted and not
  overlapped.
* `HalfAppliedOnlyByFaults`: `Spec => []HalfAppliedNeedsFault`, from `HalfInv`:
  the half-applied sessions are finitely many and at most `faults`, and only
  `Fault` can add one.
* `TypeCorrect`: `Spec => []TypeOK`.

`OutboxProofs` proves the safety properties of the runs of the outbox, for any
events, workers and faults, from `ConstantsAssumption`.

* `PublishedMeansDelivered`: `Spec => []PublishedIsDelivered`, because what a
  worker has published was delivered (`PublishesReached`).
* `DeadLettersAreEarned`: `Spec => []DeadLetterEarned`.  That a row's retry count
  is at most its failures is not inductive: workers read a count, and write it
  back increased by one, while others do the same.  `FailuresRecorded` counts
  the workers that have still to record a failure of the row: the count, and what
  any of them has read of it, plus the number of these workers is at most the
  failures.
* `HandledOnce`: `Spec => []HandledAtMostOnce`, from `MarkedOnce`: a key that was
  not seen was not handled.
* `OutboxTypeCorrect`: `Spec => []TypeOK`.

Of `Registry`, `ExperimentsProofs` proves, for any operators and bounds, from
`RegistryAssumption`:

* `TrailExplainsRow`: `RegistrySpec => []TrailIsTrue`
* `KillsAndArchivesStand`: `RegistrySpec => DecisionsStick`
* `RegistryTypeCorrect`: `RegistrySpec => []RegistryTypeOK`

`CommandsStand` is what a command under way still knows: as long as no save has
made it stale, what it loaded is the row, and it carries a kill that is on
unless it said otherwise.  `RowFollowsTrail` says that there is no row without
an entry, and that the row is the last entry's unless that save overlapped.
`MergedUnchanged` is the lemma on the merge of columns.

Of `DailyLoop`, `LearnerProofs` proves, for any requests, any days and any length of the week,
from `DailyAssumption`:

* `RewardGivenOnce`: `DailySpec => []RewardOnce`.  `MarkedOnce` is the row lock
  of `mark_completed_once`: one request at most has marked a mission, which stays
  issued until it commits; `CopiesEarned` and `CopiesFresh` say that a copy of
  the progress row, a request's or the session projection's, counts only what was
  earned, and is the row until a write overlaps it.
* `ShieldsAWeekApart`: `DailySpec => []ShieldOncePerWeek`.  Uses are not dated in
  the row: `ShieldsKnown` says that `updated_at` is not before any use, and
  `WeekIsOver` that a request that was allowed one is a week after all others.
* `StreakCountsTheRun`: `DailySpec => []StreakIsARun`, from `RecordedMission`: the
  profile that `record_activity` has read is stored still, and is not of a later
  day.
* `DailyTypeCorrect`: `DailySpec => []DailyTypeOK`.

`ExperimentsProofs` proves, for any experiments, variants, exclusions,
prerequisites and requests, from `ExperimentsAssumption`:

* `FirstAssignmentWins`: `ExperimentsSpec => []FirstAssignmentStands`.
  `RowsAgree` and `RequestsAgree` say that the three rows, and what the requests
  carry after `Ensure`, name one variant; `CreatedOnce` that one request inserts
  an exposure and only it traces; `StillToCome` that a row or trace that is
  missing is still to be written by some request, unless one died.
* `ExclusionHolds`: `ExperimentsSpec => []ExclusiveUnlessRaced`, from
  `DecidedApart`: who was found eligible and was not raced still is.
* `EventsAreCounted`: `ExperimentsSpec => []EventsCounted`, from `ReadsCounted`.
* `ExperimentsTypeCorrect`: `ExperimentsSpec => []ExperimentsTypeOK`.

`SubscriptionsProofs` proves, for any requests and bounds, from
`SubscriptionsAssumption`:

* `NothingIsTakenAway`: `SubscriptionsSpec => LostOnlyToAnEarlierDecision`.
  `Decided` says that who is about to start a trial found the user without a paid
  tier, and is right until the next upgrade; `FlowInv` that a stored offer is as
  good as that; `Purposeful` that a trial is cleared only when the one that was
  looked at had ended; `Forward` that a flow which no save has overtaken is not
  behind the row.  `OnlyUpsertsPay` and `FlushedFits` are the lemmas about writes
  that merge columns.
* `SubscriptionsTypeCorrect`: `SubscriptionsSpec => []SubscriptionsTypeOK`.

### The services of a learner

`PracticeSumsUp` (`PracticeSpec => []PracticeAddsUp`) and `PracticeTypeCorrect`
are proved in layers, for finitely many learners: each layer assumes those
before it.

* `PracticeTypes`: what is left of a request is a suffix of one of the plans of
  its kind, and what it carries fits the step it has come to.
* `ScheduleInv`: no row counts more reviews than were scheduled, and what was
  read and is not stale is the row.
* `WordsInv`: a word that is stored twice was inserted after a look for it that
  was stale, or that was never made.
* `PracticeEventsInv`: the reviews recorded are two for each answer and one for
  each request in `HalfAnswered`; the rows are those learned and one for each
  request in `Recording`.  Once no request is under way both sets are empty.
* `GraphInv`: each stored word is linked, or some request is still to link it.

The others have one invariant each.

* `SignalsTeachOnce` (`TaughtOnce`): a signal that was used is not younger than
  the profile (`UsedAreOld`), so that an update that reads the profile now finds
  none of them; one that had read it before uses only what has been contested
  (`UsesFresh`), and writes "hard" if that is what it read (`KeepsChoice`).
* `PassedLessonsKeepTheirTemplates` and `LessonsAreRefusedForCause`: `AskerInv`
  says of every step what a request holds: a blueprint made of templates, then a
  lesson that is that blueprint or what the merge makes of it, whatever the model
  answers; with the gate on, "passed" is the verdict on that lesson.
* `AwardsAreGivenOnce`: an item of which no award is excused was awarded at most
  once, and one visitor at most is about to award it, nobody having done so
  (`TrackedOnce`); what the buffer or the log holds was tracked
  (`LoggedWereTracked`).

### Lifecycle, notifications and offers

* `StageAgrees` (`StageAgreesOnceSettled`).  `AloneInv` says what an evaluation
  that no other has written across knows at each step: what it loaded is the
  row, and no transition is dated after its own.  `Settles` takes a part out of
  `unsettled` only for such an evaluation, and `TrailInv`, `LandingInv`,
  `NotificationInv` and `LifecycleEventsInv` say of each part what then holds of
  the log, the newest entry, the notification row and the events.
* `RemindersKeepLimits` (`NoBurst`).  Sends are counted per day from rows that
  are written after sending, so nothing about the last two days is inductive by
  itself.  `Knows` says what the only run has read, for every day `w` since
  which no two runs overlapped and none died: the sends since `w` are all in the
  row it loaded, by the cooldown (`WindowInv`) and, today, by number
  (`TodayInv`), except one that was sent and not recorded yet.  That a day
  without an overlap has one run at a time is `OneAtATime`.
* `OffersAreCounted` (`OffersAddUp`) and `UserIsLeftAlone` (`QuietAfterPaywall`).
  `PlansInv` says what is left of a request's plan: a row is stored only after
  it was loaded, a decision comes after two evaluations.  `LoadedInv` says that
  what was read and is not stale is the row, and never counts more than was
  told; `QuietInv` that a request that nobody crossed and that shows a soft
  paywall does so later than the last one was shown.
* `LifecycleTypeCorrect`, `NotificationsTypeCorrect`, `OffersTypeCorrect`.

### Admission, event ingestion, health and oversight

* `OverrunStaysBounded` (`OverrunIsBounded`), for finitely many callers: the
  requests in the log and those in progress are together at most the limit, the
  other callers and what jobs have logged (`AdmittedAreCounted`).
* `NothingPaidTwice` (`PaidForOnce`): of a phrase that was not raced and whose
  answers arrived and were saved, one request at most is at the provider, and
  only while there is no translation (`TranslationsInFlight`); a job is charged
  once more at most than it raised when it had been charged, and until its
  current try commits not even that, and it raises once per retry
  (`JobsCharged`).  Of a job that was delivered twice nothing is claimed.
* `FlushAlwaysDrains` (`FlushDrains`): the events in the buffer are those the
  drain task will take, in the order of their arrival (`QueueInOrder`); what was
  accepted before a caller of `flush` joined the queue is finished, or is one of
  the tasks it gathers (`FlushersWait`); while the buffer never overflowed, what
  is stored is in order and counted (`DrainedInOrder`).
* `EveryAlarmIsRaised` (`AlarmsAreRaised`): for each kind of subject a
  lemma says that counts which only grow worse keep "warning" and "critical"
  (`SessionWorsens` and the like, put together in `WorseLooksNoBetter`).  That
  each new code is told once is a matter of counting: `Accounts` says that,
  while no check died or overlapped another, the alarms owed are exactly the
  pairs of an evaluation that has not told yet and a code new in it.
* `RepairsSettle` (`RepairSettles`): `RepairInv` says that during a repair that
  nothing overlaps no request is under way, that what it read is the columns,
  and which writes are left: a suffix of the plan, with what already agrees.
  `OversightShape` dates every row and coming write no later than the clock; that
  there is a newest row follows from the well-foundedness of `<`.
* `AlarmsHaveCauses` (`AlarmsNeedCause`): of a user whose requests and repairs
  never overlapped or died, one request at most is under way (`Uncrossed`), and a
  step is its beginning, one of its writes, one of a repair, or none
  (`StepsOfOne`).  `AlarmsInv` says for each domain what it has yet to write, and
  how the rows and columns then agree: the last transition is the newest and
  names the stage (`LifecycleInv`); the two stages differ only between two writes
  (`NoticeInv`); every monetization decision has an evaluation before it, and the
  offers have the stage of the last one unless that came later
  (`MonetizationInv`); each mission has its chest beside it, and the first
  resolution names none (`DailyInv`); whatever names a session follows its row
  (`SessionInv`).  `WindowsAre` is the lemma about the window: it holds, with a
  trace, all that are later, and all there are when these are few.
* `HealthSignalsTypeCorrect`, `OversightTypeCorrect`.

### The compositions

`ServicesAreEach` and `OperationsAreEach`: a behaviour of `Services` (of
`Operations`) is one of every service in it, because each action of one service
leaves the variables of the others alone.  What is proved of a service by itself
therefore holds in what the runs check.  `ServicesTypesCorrect` and
`OperationsTypesCorrect` put the type invariants together.

### What the proofs changed in the models

Three properties held in their runs and were false beyond the runs' bounds, which
the failed step of the proof showed.

* `StageAgreesOnceSettled` said that the last `policy_updated` event names the
  stage of the notification row whenever the row is settled.  An evaluation that
  overlaps none but finds the stage in the row already writes no event, so an
  earlier event that came out of order stays the last one.  The event log is now
  a part of its own, `"log"`, that only an evaluation that writes an event settles.
* `QuietAfterPaywall` failed when a request stored its row half a day after it
  loaded it, or recorded the start of a trial after its end: the cooldown it
  stores has then passed already.  `told.belated` remembers that this happened.
* `AlarmsNeedCause` failed when a request began during a repair, whose plan was
  then written over what the request had stored: the run allowed one repair or
  report, so that no report followed.  `crossed` now covers repairs as well as
  requests, and the run `Operations` allows two.

### What is not proved

Only model-checked: the liveness properties `EventuallySettled`,
`AckedIsCredited` and `ReceiptsBecomeCovered`, because liveness under fairness is
out of the prover's reach.

Proved and in no passing run: `SendCreditedOnce`, `FlushOwnsItsRows`,
`CursorOnlyAdvances`, `QuarantineEarned`, `ExpiredIsFinal`, and the type
correctness of `CoreMutations`, `LearningCursor` and `LearningSession`.

## 5. What the models say about the code

Not failures of a stated promise, and so no runs of their own; each is what the
code does, is in the models where its component is modelled, and is exempted by
name in a property where one would otherwise claim it.

*Daily loop, retention, subscriptions.*  Saves that follow one another in
different transactions overwrite: `use_skip_shield` twice at once uses one
shield twice, a session projection undoes the reward's xp.  Engagement writes
refresh `updated_at`, so that the shield of a user who is active every week does
not come back.  `claim_reward_chest` tracks `reward_chest_claimed`, which is not
a supported event type: a successful claim answers with `ValueError`.
`start_trial` sets the tier to "free" even for payers; `clear_trial` leaves the
trial's limits, and one that crosses `start_trial` can leave `trial_tier` NULL;
a referral that is redeemed twice at once grants twice; a crash between
`start_trial` and the save starts the trial again; an onboarding save overwrites
the whole row.

*Lifecycle and notifications.*  `created_at` of a transition is taken before the
read, so that the log's order need not be the order of the row.
`notification_states.update` skips None, so that a suppression, once written, is
never cleared.  `lifecycle_notification_stage_mismatch` can never be reported.
The decisions that an evaluation of the lifecycle makes about notifications are
reported and not sent; `PersistentNotificationSink.send` omits arguments that it
requires.

*Offers.*  Reports charge impressions and cooldowns.  The second evaluation of
`decide` falls into the cooldown that its first began, so a soft paywall is
never what it answers; an impression is recorded although the engine then
defers; a shown soft paywall makes the segment high intent; the hard threshold
of low engagement cannot be reached.

*Practice and personalization.*  One review schedules the word three times and
records two `word_reviewed` events.  The retention processor renews
`profile.updated_at` before the personalization reads the events since then
(the order of `dependencies_product.py`), so that an event served alone teaches
the profile nothing.  An onboarding choice of "easy" is "medium" after the next
event.  Two overlapping rebuilds of the graph leave edges twice.

*Content.*  The gate rejects every round that is built (run `RoundGate`), and
`start_session`'s route does not catch the `ConflictError`.  The status CHECK of
exercise templates forbids "draft", which the admin service accepts; promotion
fixtures can reject nothing, and templates of five of ten combinations have
none.

*Registries.*  The audit's action is computed after `upsert` has changed the
same ORM object, so that every change after the creation is recorded as
"updated", where tests with fake repositories expect "kill_switch_enabled" and
"status_paused".  A pause can undo a kill, and two valid commands can merge into
a row that neither validated.

*Events.*  A service is built per request and nothing closes it in production;
`close` during another caller's join can leave that flush waiting; spawned tasks
overtake the buffer and lose counts of `interaction_stats`.  `events.record`
passes None for a NOT NULL `created_at`; the models take the insert as
succeeding, as the tests do.

*Health and reports.*  `or 100.0` reads a rate of zero as a hundred in the
signals of sessions, the daily loop and learning.  Reports compare the oldest
trace of a kind in the window where their messages say "latest".  A reminder
without a reference is traced as "notification:<user>" while the row keeps
"lifecycle:<user>", a mismatch that stays.  A lifecycle evaluation without one
of the monetization is reported as a mismatch of the two.  Completion traces
carry no chest, so that `daily_loop_reward_trace_mismatch` appears only when the
window cuts.  Session reference codes can never appear; a session just before
the window with an attempt in it is a false drift whose remediation answers
"skipped".

*Admission.*  Breakers live as long as a request or job, so that with a
threshold of three and three attempts an opened one is discarded.  HTTP error
statuses count as successes of the breaker.  Streamed replies log no tokens, a
failure to log is swallowed, and jobs count against the user's quota.
`_task_failure_handler` reads `kwargs["request"]`, which Celery does not pass:
no job becomes a dead letter.  A job that raises after its commit is retried and
charged again, and so is one that is delivered again; one that ends between its
commits leaves an enriched word and no log.
Limits shown for experiment variants differ from those that are enforced.

## 6. What is not modelled

* Analytics, the tutor, habits and wow moments: sums, scores and texts of one
  request over a snapshot, read back by nothing that is modelled.
* HTTP schemas, routing, authentication, providers, prompts: parsing,
  formatting and calls.  How a model or a provider answers is nondeterministic
  where its answer matters (`Content`, `Admission`).
* Intervals of spaced repetition, levels, prices, propensities and scores:
  arithmetic of one request on its own snapshot.
* Gauges, dashboards and process metrics.
* Overflow of the 32-bit `xp`, which would make a hot row fail for ever like a
  poisoned one: sums are kept as multisets.
* Two first requests of a user that insert the same core-state row: one fails
  with a unique violation and succeeds when it is sent again; the rows are taken
  to exist, as they are in `LearningCursor` and `LearningSession`.
* The jobs of embeddings, each of which stores a vector and appends a usage log
  row, and of skill snapshots, each of which appends three scores in a commit
  each, of which the newest are read.
* The cache of the knowledge graph in Redis, which is off by default: `Practice`
  has the request's own, which is deleted before each rebuild.
