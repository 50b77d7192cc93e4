# Formal model of the benefits platform backend

TLA+ specifications of the backend in `src/apps/backend`: a NestJS application
over PostgreSQL (Prisma) that collects facts about a citizen, verifies them,
evaluates eligibility for benefit schemes, recommends schemes, plans an
application journey, re-evaluates all of that when a fact changes, and notifies
the citizen. The modules are written from the code; the documents beside it are
read only to know what it promises.

Paths below are relative to `src/apps/backend/src/modules` unless they start
with `src/`.

## 1. The system

Every module of the backend has the same shape: a controller, an orchestrator
service, helper services, and repositories whose calls are single SQL statements
or short transactions. All lasting state is in database rows. The Node process
serves many requests at once, and several processes may share the database, so
**every `await` on a repository is a point where any other request can run**.
Nothing locks across awaits; what protects a row is a unique key, a
compare-and-swap on `version`, a conditional `updateMany`, or nothing.
There is no scheduler, no queue consumer and no poller in the source: work goes
on only while the request that began it is alive.

| component | state it keeps | operations | what is hard |
|---|---|---|---|
| delivery outbox (`notification`) | `NotificationDelivery` (status, lease, retryCount, nextRetryAt, version), `NotificationDeliveryAttempt` | `processDelivery` | leases, compare-and-swap, retries, backoff, provider call in the middle, death of the worker |
| notification orchestration, supersession, action center (`notification`) | `Notification`, `ActionItem` | `handleDecisionChangeEvent`, `markNotificationAsRead`, `transitionState` | redelivered events, two handlers superseding each other, the citizen acting in between, half-done handlers |
| notification policy, channels, templates | preferences, policy and template versions | `evaluatePolicy`, `resolveChannels`, rendering, replay | three reads at different times, quiet hours across midnight |
| decision re-evaluation | `DecisionReEvaluation`, `...Step`, `DecisionImpact`, `StaleState`, events | `triggerReEvaluation`, `executePlan` | idempotency keys, jobs for several fact versions over one stale marker, failing steps |
| records of a re-evaluation | state snapshots, `DecisionDiff`, policy activations | capture, difference, activation | the state before and after is read around an engine that runs outside any transaction |
| fact verification | `CitizenFact`, runs, snapshots, reviews | `runVerification`, review assignment and completion, replay | version computed before the transaction that writes it; a whole review written back |
| citizen profile | `CitizenProfile`, `CitizenFact`, history | profile and fact operations, completeness | find-archive-write in three calls, six kinds of writers of `CitizenFact`, a parent fact checked earlier or not at all |
| onboarding | `OnboardingSession`, answers | start, `submitAnswer`, navigation, complete; choice of the next question | lists written back whole; step keys nobody checks; questions held back for ever |
| document and evidence | documents, checksums | upload pipeline, archiving | pipeline against its own lifecycle table, deduplication |
| knowledge ingestion | policy documents, versions, jobs | refresh of a source | check-then-create on the fingerprint, stale version number, a version created in two halves |
| eligibility, recommendation | facts, traces, snapshots, portfolios | evaluate, re-evaluate, generate | rule engine with unanswered questions and with units that other facts name; rows stored by separate calls from reads at different times |
| application journey | journeys, timeline, snapshots | generate, complete a step | order of the plan, steps that wait for themselves |
| authentication | users, sessions | login, refresh, logout | token rotation and failure counter under concurrent requests |
| candidate retrieval, semantic alignment | policy documents, versions, chunk vectors, semantic registry | `retrieveCandidates`, `alignCitizenFacts` | several bounded reads while versions are replaced |
| event bus, core, stubs | none of their own | publish, configuration, logging | I/O |

How they interact: a fact changes (profile, onboarding or verification) and a
client calls re-evaluation; re-evaluation calls the three engines (eligibility,
recommendation, journey) and publishes an event row; that event is handed to the
notification module, which creates one notification with its action item and
deliveries, supersedes earlier ones of the same re-evaluation, and passes each
delivery to the outbox, which calls the channel adapter. Ingestion fills the policy
documents that retrieval searches; eligibility writes the snapshots that
recommendations are generated from.

What makes each correct:

* **outbox**: one worker per row; no provider call beyond the retry budget or
  before the backoff has passed or after a success; an attempt log that agrees
  with the row; a claim that is always settled;
* **notification center**: one notification per event and one hand-over per
  channel; supersession links that agree with the statuses of notification and
  action item; terminal items and read notifications that stay as they are;
  nothing silently lost;
* **routing**: a notice goes only where its policy version and the citizen let it,
  and can be replayed;
* **re-evaluation and its records**: one executor per key; a marker cleared only by
  a job of its own version; a failed step that leaves its target stale; status,
  steps and event that tell the same story; no job left behind without a cause; no
  changed decision unreported;
* **verification and profile**: an idempotency key that acts once; a fact that can be
  traced to who made it so; reviews and runs that can be accounted for; a profile
  that says what its facts say; requests that do not wait for each other for ever;
* **onboarding**: no step lost but by overlap; a question set refused exactly when it
  is cyclic; discovery that goes on while it can;
* **document, knowledge, retrieval**: states that only move along the lifecycle, jobs
  that tell what became of them, answers that name only what was on offer;
* **eligibility, recommendation, journey**: an answer never hurts; a recommendation
  leads back to one set of facts; a plan that can be followed;
* **authentication**: a lockout whose parts agree; a session that is replaced only
  after it was revoked for good.

The hazards behind these, each at its line, are the `hazards` of `PROJECT.json`.

## 2. The modules

| module | models |
|---|---|
| `DeliveryPromise` | abstract specification: what the outbox promises each delivery |
| `NotificationOutbox` | `processDelivery`, one action per `await`; implements `DeliveryPromise` |
| `NotificationCenter` | `handleDecisionChangeEvent` with ingestion, policy, supersession; `markNotificationAsRead`; `transitionState` |
| `NotificationRouting` | `evaluatePolicy` with quiet hours, `resolveChannels`, choice of the template, preferences, replay |
| `ReEvaluation` | `triggerReEvaluation` with impact analysis, planning, `executePlan`, stale markers |
| `CitizenFact` | the row of one fact and its writers: `runVerification`, `processAnswer`, `addFactForUser`, `updateFactForUser`, `deleteFactForUser`, `reconcileConflict` |
| `CitizenProfile` | the profile row, facts that depend on a parent fact, with the writers that check it and the two that do not, completeness |
| `FactReview` | how a verification is judged, its snapshot and replay, the review it asks for |
| `OnboardingSession` | the session: start, resume, answer, navigate, complete |
| `QuestionSelection` | the next question: dependencies, documents, ranking, cycle check |
| `Authentication` | login with lockout, refresh with rotation, logout |
| `SemanticRegistry` | attribute codes, their legacy keys, resolution of keys and values, conversion of units |
| `CandidateRetrieval` | `alignCitizenFacts` and `retrieveCandidates` while documents are published and versions replaced |
| `KnowledgeIngestion` | the refresh of a knowledge source |
| `DocumentUpload` | upload pipeline, lifecycle table, deduplication, archiving |
| `Eligibility` | the rule engine; evaluation with its trace and snapshot |
| `Recommendation` | `generateRecommendations`, beside the evaluations of `Eligibility` |
| `DecisionRecords` | the three steps of `executePlan` with the engines they call and the records they leave; policy activation |
| `ApplicationJourney` | blueprint inheritance, topological sort, storing a journey, completing a step |
| `MCNotificationOutbox`, `MCNotificationCenter`, `MCReEvaluation`, `MCCitizenFact` | small instances for TLC |
| `MCIntake` | small instances of `Authentication`, `OnboardingSession`, `QuestionSelection`, `CitizenProfile`, `FactReview` and `NotificationRouting` |
| `MCPlatform` | small instances of `KnowledgeIngestion`, `DocumentUpload`, `DecisionRecords` (with `Recommendation` and `Eligibility`), `ApplicationJourney` and `CandidateRetrieval` |
| `IntakeProofs`, `PlatformProofs` | theorems about the parts of `MCIntake`, and about `DocumentUpload` and `DecisionRecords`, see 4 |
| the other `...Proofs` | theorems about the module of that name; those about `Recommendation` include `Eligibility` |

`Recommendation` extends `Eligibility`, because the two share the snapshots, and
`DecisionRecords` extends both, because a re-evaluation runs evaluations and
generations between its own calls while citizens call them too. Both `Eligibility`
and `CandidateRetrieval` extend `SemanticRegistry`. The other modules share no row
that one writes and the other reads, or share it at one step (`NotificationCenter`
hands a delivery to the outbox; `CitizenFact` writes the answer of an onboarding
session), so that each is checked with the rest as its environment. `MCIntake` and
`MCPlatform` therefore exercise one part in each behaviour: the variable `part` is
chosen at the start and the other parts stay as they began.

In each module an operator whose comment calls it a variant, a slip or the like is a
plausible mistake in the operator after it (a forgotten unique key, an off-by-one, a
stale read). No action uses it; it is there so that a run can be repeated with it and
the properties be seen to fail.

Everywhere a request is one call of a service, with a program counter and a record of
what it remembers from its earlier calls; each database call is an action; a
rejected call, a timeout or the death of the process is an action that ends the
request between two of them (`Crash`, `Fail...`, `Break`, `RejectCall`, ...). Time
stamps, ids, texts and events that no condition reads are left out. Values are model
values or small numbers, as far as the code tells them apart.

### NotificationOutbox

A worker is one running call of `processDelivery`; `pc`, `job`, `seen` and
`result` are its program counter, argument and locals. The actions are its calls:

| action | code |
|---|---|
| `Claim` | the `updateMany` of `acquireDeliveryLease` |
| `Load` | the `findUnique` after it; from here the worker trusts what it `seen` |
| `ReleaseNotDue` | early return while `nextRetryAt` is in the future |
| `Send` | `adapter.send`: success, retryable failure (an exception is one), final failure |
| `LogAttempt` | `createDeliveryAttempt` |
| `FinishSuccess`, `FinishFailure` | `updateDeliveryStatus`, compare-and-swap on the version |
| `Crash` | the process dies, or a database call is rejected: no handler gives the lease back |
| `Tick` | time passes |

Instants are kept as remaining time, so that the clock needs no bound; the lease
may run out while its owner is still waiting for the provider. `leaseOwner` is
left out because no condition reads it. The adapters are external: those in the
source are mocks that always succeed, but the code around them handles failures.

### NotificationCenter

A handler is one call of `handleDecisionChangeEvent`. The notifications of one
re-evaluation are named by their source events; all of them belong to one
citizen. Creating action item, notification and deliveries is one step (it is one
transaction); every read and every update of `processSupersession` is its own
step. A version conflict throws and ends the handler where it is (`refused`), as
a death does (`crashed`). The citizen is the environment: it reads notifications
and asks for transitions of action items, with any version the row has had;
validating a transition and writing it are two steps. Handing a delivery to the
outbox is one step, since `NotificationOutbox` has the rest, and suppression is one
choice, since `NotificationRouting` has the rest.

### NotificationRouting

A notice is one event accepted for the citizen. `ReadPolicy`, `CheckQuietHours`,
`ReadChannel` (once for each candidate channel), `RenderNotice` and `StoreNotice` are
the reads of the handler in their order; meanwhile the citizen changes preferences
(`UpdatePreference`), officers add policy and template versions, and the minute of the
day moves on. Quiet hours are computed as the code does, with the interval that spans
midnight. `onDuring` remembers which channels were not turned off at some moment since the
notice began. The text is represented by the template it comes from.

### ReEvaluation

A handler is one call of `triggerReEvaluation`: find the key (`Find`), create the
job (`CreateJob`), analyse impact target by target (`FindImpact`,
`CreateImpact`), plan (`CreateStep`), take the lease (`Lease`) and execute each
step (`StartStep`, `Evaluate`, `FindMarker`, `ClearMarker`, `FinishStep`, or
`Throw`, `FailStep`, `MarkStale`), then finish with the event (`Finalize`).
`executePlan` has no other caller, so the lease's expiry never lets a second
worker in and is left out. The dependency fingerprint is represented by the fact
version it is computed from. Markers, impacts and events are shared by all jobs of
the citizen. The snapshots and differences a step leaves are in `DecisionRecords`; that
writing them may throw is part of `Throw`.

### CitizenFact

A request is one call of one of the six operations that write the row of an
attribute; there is at most one row, by the unique key `(profileId,
attributeKey)`. Every database call of a request is an action. The statements of
a transaction take effect at its end (`Commit`, `WriteAnswer`); from the moment
it has written its idempotency key (`Begin`, `BeginAnswer`) or the fact
(`UpdateFact`) until then, others that want to write the same wait (`KeyFree`,
`FactFree`), as they do in PostgreSQL. `Snapshot` is inside the transaction in
time but not part of it, because the replay service uses its own connection.
`FindForUpsert` or `Reread`, `Archive` and `Overwrite` or `CreateFact` are
`upsertFact` and `updateFact`, which use no transaction. `Recalculate`, `Sync` and
`SaveVersion` bring the profile up to date. `Fail` is a rejected call, a timeout
or a death at any point.

A value is represented by the request that wrote it. A verification's policy,
evidence chain and freshness check are one choice of whether a review is
required: the code gives the fact the same status whether it accepts or defers.
`FactReview` says how the choice is made. `reconcileConflict` is modelled as its
endpoint would run; the upload pipeline never stores the conflict it asks for (see
`DocumentUpload`).

### CitizenProfile

Several attributes and the profile row. A request creates the profile, adds, updates or
deletes a fact: `Validate` looks at the parent attribute, `LookUp` reads the row,
`Write` or `Delete` changes it, `Count` and `Sync` bring the profile up to date from the
facts that were current when they were counted.

Two more writers ask no registry. `processAnswer` stores the citizen's answer as it came, and
creates the profile it misses, in one transaction; `reconcileConflict`, modelled as its
endpoint would run, writes a row it read before. Both begin in `Start` with what they are
going to write (`KeepUnchecked`), and `Write` is all they do: they look at no parent and count
nothing afterwards. `CitizenFact` has what they do to one row in detail, with the refusals by
source; here an answer so refused ends in `Break`.

`ground` remembers, for each fact, how often its parent had been written when it was checked,
or that nobody checked (`Unchecked`); `writes` counts that by history, because the `version`
column may repeat (see `LostUpdate` in 5).

### FactReview

`Judge` reads policy, evidence and freshness and chooses the strategy;
`TakeSnapshot` stores the snapshot, outside the transaction that `CommitVerification`
ends and `RollBack` undoes. `FindReview` and `UpdateReview` are the two calls of
`assignReview` and `completeReview`, which write back the whole row they read. The fact
ages by days, and the seeds may store the policy at any time.

### OnboardingSession and QuestionSelection

A request reads the session and later updates it by its id: `SubmitAnswer` /
`StoreAnswer`, `UpdateStep` / `StoreStep`, `CompleteOnboarding` / `StoreCompletion`,
`OpenSession` / `CreateOnboarding`, `StartOrResume` / `Resume`. The list of completed
steps is that of the session that was read, with one step more. `UpdateStep` takes what a
request names, any key (`StepKeys`, of the blueprint or not) or none, with any action or none:
nothing compares it with the blueprint, so that an unknown key becomes the current step and,
with the next navigation, a completed one, and progress may pass the blueprint's steps.
`QuestionSelection` has the pure choice of the next question (`NextQuestion`) with its
three engines as operators; the one action, `Answer`, answers the question that is
offered, for any catalogue of active questions, dependencies and evidence. `detectCycles`
is followed turn by turn of its loops (`SearchTurn`): the path is what the nested calls of
`dfs` have between them, `Enter` and `Leave` are a call and its return, and `left` are the
edges no loop has come to. After `MaxTurns` turns nothing is left to do.

### Authentication

One user and its sessions. `Login` with `CountFailure`/`StoreFailure` (the counter is
read and written by two calls) or `ResetFailures` and `CreateSession`; `Refresh` with
`CheckUser` and `Rotate`, or `EndReusedFamily` when a rotated token comes again;
`LogoutSession`, `LogoutEverywhere`, `RevokeSession`. A token is its session; a token
that does not verify never reaches the database. The clock matters only to the end of
a lockout (`LockoutEnds`).

### SemanticRegistry and CandidateRetrieval

The registry is a table of operators; `ConvertUnit` goes over the base of a unit's domain,
and leaves a number as it is whose unit it does not know. A retrieval aligns the facts and hints of the
citizen, reads documents and current versions (`FindStructured`, bounded), searches the
vectors (`SearchVectors`, or `VectorsUnavailable`), loads the versions the vectors name
and fuses, filters, ranks and truncates (`Answer`). Meanwhile documents are published and
versions retired and stored. The vector provider is external; in the source it is the
in-memory adapter the tests use. Scores are the code's, in ten-thousandths.

### KnowledgeIngestion

A refresh is one call of `triggerManualRefresh`, call by call from the job to the
chunks; `RetireVersions` and `CreateVersion` are the two halves of `createVersion`.
`CreateVersion` is refused by the unique keys on number and fingerprint. `RejectCall` leads
to the `catch` clause (`FailJob`, `Degrade`), `AbandonRefresh` is a death. The fingerprint is
taken over the instant of the fetch, so that it is that instant.

### DocumentUpload

An upload stores document and checksum and goes through the stages of the pipeline:
`SaveStage` is what a stage stores, `Transition` the check of the lifecycle table and the
status. The pipeline asks for `UPLOADED -> CLASSIFIED`, which the table does not have, so
that every upload ends there; the branch of `Transition` that succeeds is kept as the code has
it and never taken, and no evidence and no conflict is ever stored.

### Eligibility, Recommendation and DecisionRecords

`Verdict` is the rule engine: conditions, groups and children over the active rules,
with the lookup of a key under the other keys of its attribute. An answer is a number, a text,
or a number with a unit of its own. `Compared` reads a number in the canonical unit of its
attribute: from the unit of its own, or else from the first companion fact that says something
(`CompanionUnit`: the key's own unit, then `landAreaUnit`, then `incomeUnit`, whatever the
condition is about). `Evaluate` reads the facts
once, `StoreTrace` and `StoreSnapshot` write two rows, `ReportEvaluation` returns.
`AnswerFact` is the citizen. A generation reads the latest snapshot and writes
recommendation, portfolio and recommendation snapshot one after another.
In `DecisionRecords` a run executes the three targets of a job: `CaptureBefore`, the
engine's own calls (`EvaluateAgain`, `GenerateAgain`, `PlanAgain`, `CreateJourneyAgain`, under
the run's name), `Returned`, the state after and the difference, `SucceedStep` or
`FailRunStep`. `FindActivation` and `CreateActivation` are `processPolicyActivation`.

### ApplicationJourney

`InheritedSteps` resolves the blueprint's chain, `Sorted` is the topological sort with
in-degrees, `StatusOf` the status a step begins with. `GenerateJourney` makes the plan,
`CreateJourney`, `RecordCreated`, `CreateJourneySnapshot` and `PublishJourney` store it;
`CompleteStep` is the constraint engine. The source stores no steps, so that no step can
ever be completed.

## 3. What is checked

Deadlock is checked in the runs of the outbox, where the clock always ticks. It
is not in the other modules: the system stops when every event has been handled
as often as the bound allows, every key has its job, or every request has been
made. `SomeoneGoesOn` says for `CitizenFact` that requests never all wait for each
other; since a request takes a bounded number of steps, each one ends.

| run | bounds | shows |
|---|---|---|
| `NotificationOutbox` | 2 deliveries, 2 workers, `MaxRetries` 2, backoff `<<1, 2>>`, lease 1 tick, `MaxVersion` 8, `MaxDelay` 2 | `TypeOK`, `HolderOwnsRow`, `RetryBudget`, `AuditComplete`, `BackoffHonoured`, `NoCallAfterSuccess`, refinement `PromiseKept`, liveness `EveryLeaseSettles` |
| `NotificationCenter` | 2 events, 2 handlers, 2 channels, 1 citizen session, 3 handlings, item versions up to 3, at most one death | `TypeOK`, `SupersessionConsistent`, `EveryEventAccounted`, `SettledIsKept` |
| `ReEvaluation` | 4 keys (two for version 1 that quote one event, one for version 2, one without targets), 2 handlers, 2 targets, at most one death | `TypeOK`, `OneExecutor`, `FailureIsTold`, `EveryJobAccounted`, `ClearedByItsVersion` |
| `CitizenFact` | any 4 of 9 requests: 2 verifications with one key, 2 answers with one key, 2 additions, an update, a reconciliation, a deletion; each may fail anywhere | `TypeOK`, `OnceForKey`, `FactHasTrail`, `ProfileConsistent`, `SomeoneGoesOn`, `ManualKept` |
| `Intake` | account: 4 requests, limit of 2 failures; session: 4 requests, 2 steps and a key that is none; questions: 3, with every dependency relation among them; profile: 3 requests of any kind, 3 attributes; reviews: 2 verifications, 2 calls of officers; notices: 2 notices, a day of 3 minutes, 1 policy version, 1 template version, 2 texts | `TypeOK`, `LockoutConsistent`, `SuccessorReplaces`, `StepsLostOnlyByOverlap`, `CycleCheckExact`, `DiscoveryProceeds`, `ProfileHonest`, `VerificationAccountable`, `RoutedAsChosen` |
| `Platform` | knowledge: 2 refreshes; documents: 3 requests, 2 contents; rules: every rule of a family, every set of facts with at most 3 of the keys answered (`MaxAnswered`), one answer; decisions: 2 evaluations, 2 generations, 2 answers; planning: every waiting relation of 4 steps as bounded in `MCStepGraphs`; journeys: 2 requests; retrieval: 1 request over 3 documents, while versions change up to 2; records: 2 runs and 1 answer; activation: 2 officers | `TypeOK`, `JobTellsOutcome`, `ArchivedIsFinal`, `AnsweringNeverHurts`, `DecisionLineage`, `PlanFollowsPrerequisites`, `AnswerIsGrounded`, `ChangesReported` |
| `LeaseRecovery` | 1 delivery, otherwise as `NotificationOutbox`, with a poller | violated: see 5 |
| `SupersededByNewer`, `ItemSettles` | 2 events, 2 handlers, 1 channel, 2 handlings | violated: `NewerSupersedes`, `SupersededItemSettles`, see 5 |
| `OlderClears` | as `ReEvaluation` without deaths | violated: `OlderCannotClear`, see 5 |
| `LostUpdate` | any 3 of the 9 requests | violated: `NoLostUpdate`, see 5 |
| `EveryUpdateVersioned` | 2 refreshes of one source | violated: see 5 |

What the properties say, in short (each is stated at its definition):

* `HolderOwnsRow`, `RetryBudget`, `AuditComplete`, `BackoffHonoured`, `NoCallAfterSuccess`,
  `EveryLeaseSettles`: the promises of the outbox in section 1; `PromiseKept` is the
  abstract specification `DeliveryPromise` under the mapping at the end of
  `NotificationOutbox` (`INSTANCE ... WITH`).
* `SupersessionConsistent`: links, statuses and action items belong together whatever
  ran between the updates; `EveryEventAccounted`: an event is never lost or handed
  over twice; `SettledIsKept`: what is terminal or read stays so.
* `RoutedAsChosen`: policy, channels and text of a stored notice, across changes between
  its reads.
* `OneExecutor`, `ClearedByItsVersion`, `FailureIsTold`, `EveryJobAccounted`: as in section 1.
* `ChangesReported`: each step that succeeded has exactly its state before, its state
  after and the difference of the two, and no state is created unreported unless a
  step failed.
* `OnceForKey`, `FactHasTrail`, `ProfileConsistent`, `ManualKept`, `SomeoneGoesOn`: six
  kinds of writers of one row.
* `ProfileHonest`: dependent facts whose last value the registry was asked about were checked
  against the parent there was, and only a later write to the parent, checked or not, or its
  deletion can leave them without the value they need; a profile is complete only if its
  mandatory facts once were current together. Of what an answer or a reconciliation stored it
  says nothing: see 5.
* `VerificationAccountable`: a committed verification replays to what it found, and its
  review agrees with itself.
* `StepsLostOnlyByOverlap`, `CycleCheckExact`, `DiscoveryProceeds`, `LockoutConsistent`,
  `SuccessorReplaces`: onboarding and authentication. They permit what the code does: a step
  lost to an overlap, a completed session that an answer opens again, overlapping failures
  that count as one, two refreshes of one token.
* `JobTellsOutcome`: job, document, versions and health of a source, whichever call failed;
  `ArchivedIsFinal`: the pipeline, which writes by id, never revives a document;
  `AnswerIsGrounded`: offers, order, completeness and status of an answer of retrieval.
* `AnsweringNeverHurts`: monotony of the rule engine, where no rule asks for an absence and the
  answer does not change the unit in which a number answered before is read;
  `DecisionLineage`: rows of separate calls lead back to one set of facts;
  `PlanFollowsPrerequisites`: the sort is correct for every relation, and fails exactly
  on cycles.

Why the bounds are enough. The outbox needs two workers for a race, two
deliveries for a mix-up of rows, and a retry budget one above the length the
backoff table would need so that its last entry is used twice; `MaxVersion` 8
lets a delivery use its whole budget and be given back undue in between;
delays above `MaxDelay` need not be told apart, because no backoff is longer.
In the notification center two handlers over two events already include each
superseding the other, and a third handling is a redelivery during both; item
versions up to 3 allow a supersession to conflict with a citizen that acted
twice. In re-evaluation three jobs over two versions and two handlers give every
order of marking and clearing that involves an older, an equal and a newer
version; every real trigger plans both modelled targets, and the fourth key covers
the early end without targets. For a citizen's fact, one request has to create the
row; three more give every overlap of two writers and of a repeated request, with a
deletion or a creation at any point in between.

In `Intake`, four account requests give a login, a refresh, its reuse and a logout in
any overlap; three questions give every dependency graph with a cycle of length one
to three, and those in which one question is reached over two paths; three profile requests over a parent, its dependent and a
mandatory attribute give a parent changed between check and write, by an edit, an answer or a
reconciliation; days are 2 to
expiry and 1 of warning, so that each freshness occurs; a day of three minutes has a
minute outside the quiet hours and one inside, for an interval within the day and one over
midnight. In
`Platform`, a rule has up to two levels, each operator and threshold and each
combination of groups; numbers are in thousandths, so that an area in acres falls between the
areas a rule compares it with, and three answers give a number, its unit and a rule's other
attribute; the retrieval's constants are 1, 2 and 2 where the code has 2
(overfetch), 3 (headroom) and 50 (most), so that with three documents each limit is
reached; document 1 stays as it is while the other two change. In the records, two runs
overlap without failures and with one answer between any two steps, or follow each
other with up to two failures: failures during overlaps would only add states in which
less is claimed.

Symmetry is used on handlers, on events of the notification center, on the two triggers
of one event, on the requests of one kind and key in `CitizenFact` and on the requests
of each part of `Platform`, none of which the modules tell apart, only in runs without
liveness properties. In `Intake` the calls of one kind are numbered in the order in which
they begin, which does the same.

### Fairness

`NotificationOutbox!FairSpec` has weak fairness of each worker's own steps: a call
that was started goes on, because Node resumes an awaited promise. It does not
make anyone start a call, the clock tick or a worker die. `PollingSpec` adds a
poller and the clock; it is used only to show that even they do not revive a lease,
since nothing in the source polls. `NotificationCenter!FairSpec` likewise lets a
started handler run on and never makes the citizen act. The other modules state
safety only: a request that goes on comes to its end in a bounded number of steps, and
what never happens because nobody asks for it is not a matter of fairness.

## 4. What is proved

Eight modules hold theorems, for every value of the constants that satisfies the named
assumptions of the module (`OutboxAssumption`, `RoutingAssumption`,
`EligibilityAssumption` and so on; TLC evaluates them in the runs). Each has the same
frame: an inductive invariant, `... == Spec => []IInv` from `Init => IInv` and
`IInv /\ [Next]_vars => IInv'`, and the properties as consequences. Bounds that only TLC
needs stay in the modules as constants and are arbitrary in the proofs.

| module | theorems | what the invariant adds, and why it is needed |
|---|---|---|
| `NotificationOutboxProofs` | `Invariance`, `TypeCorrectness`, `Ownership`, `BoundedRetries`, `AuditIsComplete`, `BackoffIsKept`, `SuccessIsFinal`, `Refinement` | see below |
| `NotificationCenterProofs` | `CenterInvariance`, `CenterTypeCorrectness`, `SupersessionIsConsistent`, `EventsAreAccounted`, `SettledStays` | a row that still has the version somebody read is still the row that was read: an entry of a handler's list is still `CREATED`, an item a request saw open is not terminal. Who is at work on each event; what is still pending was never handed over |
| `ReEvaluationProofs` | `ReEvaluationInvariance`, `ReEvaluationTypeCorrectness`, `OneHandlerPerJob`, `FailuresAreTold`, `JobsAreAccounted`, `ClearingIsByVersion` | the one executor of a job works on rows no other touches, so that its counters agree with the steps behind it; markers, which all share, are followed from step to step: who marked last, who cleared, and where that one is in its plan |
| `CitizenFactProofs` | `CitizenFactInvariance`, `CitizenFactTypeCorrectness`, `KeyIsUsedOnce`, `FactIsTraceable`, `ProfileFollowsFacts`, `ManualStaysManual`, `NobodyWaitsForever` | what a request read may be old when it is used; that the fact exists and its source are stable, and a verified status always has its ground. A key has one holder while it is held, and none after it was accepted; the first writer creates; profile numbers are given once. Whoever waits for a key waits for one who at most waits for the fact, and whoever holds the fact waits for nobody |
| `IntakeProofs`, login | `AuthInvariance`, `AuthTypeCorrectness`, `LockoutIsConsistent`, `SuccessorsReplace` | every user row that was read was consistent when it was read, and a failure is written from such a row; a rotated session stays rotated |
| `IntakeProofs`, onboarding | `OnboardingInvariance`, `OnboardingTypeCorrectness`, `StepsAreLostOnlyByOverlap` | no request has read a later session than there is, and whoever read the present version read its steps; before there is a row there is nothing to lose. The completed steps are finitely many, whatever keys there are, so that progress is a number (`CountedInv`) |
| `IntakeProofs`, questions | `CycleCheckIsExact`, `DiscoveryAlwaysProceeds` | see below; answers stay, so that one given when its parents allowed it remains in order; the ranking is a strict total order, whatever the scores, so that of any candidates exactly one is offered |
| `IntakeProofs`, profile | `ProfileInvariance`, `ProfileTypeCorrectness`, `ProfileIsHonest` | a parent a request checked is there, written as often as when it was checked or more often, and in the first case its value is still the condition's (`Checked`); what an answer or a reconciliation carries is marked `Unchecked` until it is written (`Grounded`), and its write, like any, only adds to the count of writes; whoever counted all mandatory facts saw them current together |
| `IntakeProofs`, fact review | `FactReviewInvariance`, `FactReviewTypeCorrectness`, `VerificationIsAccountable` | how far each verification has come and what is recorded of it by then; a stored policy is never replaced, so the one that judged is there for the replay; what an officer's call read of a review agreed with itself |
| `IntakeProofs`, routing | `RoutingInvariance`, `RoutingTypeCorrectness`, `RoutingIsAsChosen` | what each reading is still worth: versions are only added, so a row that was read is still the row of its version; a channel that was kept was on at some moment since the notice began |
| `IntakeProofs`, together | `IntakeInvariance`, `IntakeTypeCorrectness` | each step of `MCIntake` is one part's step or leaves all parts alone |
| `RecommendationProofs` | `DecisionInvariance`, `DecisionTypeCorrectness`, `DecisionIsTraceable`, `AnsweringHelps` | rows are only appended, so what a request read is still there; a request remembers how many rows there were when it began, and none of them rests on newer data. `AnsweringHelps` needs no invariant: it is about the rule engine alone |
| `PlatformProofs`, uploads | `DocumentInvariance`, `DocumentTypeCorrectness`, `ArchivalIsFinal` | a checksum names one document and keeps naming it, and only the upload that stored it reaches the analysis; no upload comes further than its first stage, because the transition the pipeline expects there is not one the lifecycle table allows, so that no status is ever written over an archival |
| `PlatformProofs`, records | `RecordsInvariance`, `RecordsTypeCorrectness`, `ChangesAreReported` | what each step under way has captured by then, and that its engine creates its state after the captured one; no two runs have one generation; a snapshot nobody reported is in a run's hands or that of a step that failed |
| `PlatformProofs`, journeys | `JourneyInvariance`, `JourneyTypeCorrectness`, `PlansFollowPrerequisites` | what each request remembers is the plan of its blueprint, and a cyclic one goes no further; journeys are only added and keep their blueprint. That the sort is right is a fact about `Sorted` alone, see below |
| `PlatformProofs`, together | `PlatformInvariance`, `PlatformTypeCorrectness` | each step of `MCPlatform` is one part's step and leaves the others alone |
| `KnowledgeProofs`, ingestion | `KnowledgeInvariance`, `KnowledgeTypeCorrectness`, `JobsTellTheirOutcome` | numbers only grow and versions are only added; a version's number had been reached; without a current version somebody is between the two halves of `createVersion` or ended there |
| `KnowledgeProofs`, retrieval | `RetrievalInvariance`, `RetrievalTypeCorrectness`, `AnswersAreGrounded` | since the search began the corpus only grew, so that what was found was on offer meanwhile; a document that did not change and fits is among the rows unless they are full. That the answer lists the best candidates first is a fact about `Listing` alone, see below |

The outbox in more detail. None of its safety properties is inductive alone. `IInv`
adds to `TypeOK` and `HolderOwnsRow`

* `CountInv`: what each status says about `calls` against `retryCount`, and that
  an accepted delivery is `LEASED` or `SUCCEEDED` with one call more than
  failures. It has to cover the rows whose worker died, which are `LEASED` with
  or without the extra call: this is why no call follows a success that was
  never recorded;
* `HolderCountInv`: what a worker's program counter adds to that;
* `BackoffInv`: waiting time left plus time waited make up the backoff, so that a
  row whose wait is over has waited long enough. The clock keeps the sum.

`HolderOwnsRow` is preserved because only `Claim` makes a row someone's, only from
a `Leasable` status, and each later step touches only the row of its own worker,
so that every compare-and-swap succeeds (`HolderUpdate`). `AuditIsComplete` needs
a second invariant, `LogInv`, on the log of idle rows and of rows in work. The
refinement maps a row to the phase of its delivery (`phase`) and each action to
one step of `DeliveryPromise` or a stutter.

The rule engine. `AnsweringHelps` holds for every list of rules, with any conditions,
operators, thresholds and children, as long as none asks for an absence. The key under
which `Resolved` finds a known value is the one it found before (`FoundStays`), so that a
condition that said yes says yes later (`ConditionStays`), because the number it found is still
read in the same unit (`SameUnits`); the more of its members say yes, the
sooner a group passes, whatever its operator counts (`MoreIsBetter`); and so on over children,
rules and the verdict. Only the first step needs an induction, over the places of an
answered key (`SmallestIsThere`: a non-empty set of naturals has a least member), which is
first-order.

Three operators compute over data of any size, and their facts are proved by induction all the
same, in a form that is first-order: a set of naturals that were counterexamples would have a
least member (`WFMin` over `<` on `Nat`; `CountingUp` says it once for all).

* `topologicalSort` (`SortedFacts`, `SortedIfOrderable`). After each turn of its loop the
  list holds different steps, the queue holds different others, each listed step comes
  after those it waits for, and whatever waits only for listed steps is listed or queued
  (`SortedSoFar`). When the queue is empty the list holds everything that can be ranked:
  a step that is missing and has the least rank would wait only for listed steps.
* `detectCycles` (`SearchEnds`, `SearchIsExact`). After each turn no node the search has
  returned from is on a cycle, and the edges of such nodes lead to such nodes; the path
  never returns to a node, and each of its nodes reaches those after it (`SearchInv`). So
  a neighbour on the path closes a cycle, and a node all whose neighbours are done is on
  none: the nodes that are done are closed without it. Every turn leaves fewer edges to look
  at, nodes to enter or nodes to leave (`TurnCounts`), so that the search is over after
  `MaxTurns`.
* the order of an answer (`ListingFacts`). `Place` counts the candidates that come before
  one; since `Before` is a strict total order over candidates of different versions, the
  places are 1, 2, ... without gaps, so that the answer's first places are taken by the best.

`DiscoveryProceeds` follows from the check: among the open questions that one reaches, one
reaches the fewest questions (`Least`); were a question it depends on open, that one would
reach fewer still, because the catalogue has no cycles. So either it is held back by an
answer or a question nobody is asked, or it is a candidate (`SomeCandidate`), and then the
one that fewest candidates come before is offered (`SomeFirst`).

More lines of argument are worth naming. In `CitizenFactProofs`, `ManualStaysManual`
holds although an answer may have found no fact when it began, because it can only create
then, which the unique key refuses; and `FactIsTraceable` holds although `updateFact` writes back
a status some calls old, because a status that was ever verified keeps its ground. In
`ReEvaluationProofs`, `ClearingIsByVersion` rests on the updating call comparing
the fingerprint again; that `OlderCannotClear` fails all the same (see 5)
is because the marker itself is overwritten.

Only model-checked:

* liveness (`EveryLeaseSettles` and the temporal properties that are refuted), which is
  out of the prover's reach, as is everything about `ENABLED`.

## 5. Where documents and code disagree

Shown by a run each:

* `LeaseRecovery`: `outbox-contract.md` says another worker takes over a lease
  after 30 seconds. `acquireDeliveryLease` accepts only `PENDING` and
  `RETRY_SCHEDULED` rows; a `LEASED` row whose worker died stays so for good.
* `SupersededByNewer`: `supersession.md` says a newer decision supersedes older
  notifications. `processSupersession` compares no times, so the handler of an
  older notification that runs later supersedes the newer one.
* `ItemSettles`: `action-center.md` says non-terminal items of a superseded
  notification become `SUPERSEDED`. When the citizen touches the item between
  the read and the update, the update is refused after the notification was
  already superseded, and nothing tries again.
* `OlderClears`: `stale-state.md` says an older job cannot clear a newer marker.
  `upsertStaleState` overwrites the fingerprint, so a failing older job makes the
  newer marker its own, and the next older job clears it.
* `LostUpdate`: the documentation of fact verification says its version fields
  prevent lost updates. `runVerification` computes the next version from the row
  it read before its transaction and writes it by id alone, so an edit or a
  second verification made in between is overwritten without a trace.
* `EveryUpdateVersioned`: `policy-versioning.md` says every update generates a new
  `PolicyVersion`. The pipeline reads the number, increments it and stores the version
  under the number it read, which is taken from the second update on.

What holds in spite of the first: a delivery is never handed to the provider
again after a success that could not be recorded (`NoCallAfterSuccess`). It holds
*because* leases are never taken over; a fix of `LeaseRecovery` has to give it up
or make the provider idempotent.

Seen while modelling and part of the modules as the code has it, without a run of
their own:

* Retrieval compares raw rule keys (the seeds' `landHolding`) with canonical codes, so
  that a policy whose rule uses a legacy key is excluded as soon as the citizen has any
  canonical fact; `src/docs/s12b-final-hardening-test-matrix.md:72` says a policy
  referencing a known attribute is returned. With a state filter, a national policy
  gets no points for the state. The case `DEMOGRAPHICS.DOB` matches no code of the
  registry (`DEMOGRAPHICS.DATE_OF_BIRTH`).
* `expectedUnit` of a condition (`src/docs/v1-semantic-contract-final-verification.md:83`)
  is dropped by the compiled-rule cache.
* The unit of a number may be another fact, and `landAreaUnit` is taken before `incomeUnit`
  for incomes too. A unit answered later rescales a number answered before: with 3 as land
  area a rule that wants at least 2 passes, and once `landAreaUnit` says `ACRE` it does not.
  `AnsweringNeverHurts` without its clause on units is violated for this reason.
* `citizen/README.md:11` says that the validation engine ensures parent-child dependencies
  before facts enter the database. The answers of `POST api/v1/onboarding/answer`
  (`processAnswer`) and reconciliations store facts without it, and leave the profile's status
  and completeness as they were; `DependentsGrounded` without its exception for `Unchecked`
  facts is violated for this reason.
* The key of a step is stored as the request names it (`updateSessionStep`), so that a session
  may stand at, and complete, a step its blueprint does not have.
* A notice held back in quiet hours is due at 07:01 of the same day, although the
  comment says next morning, and nothing picks it up again.
* `DEFER` gives a fact the status `DOCUMENT_VERIFIED`; verifying a stale fact updates
  `updatedAt`, so that the next verification finds it fresh; `isValidChain` is computed and
  never used, so a conflict does not stop acceptance. A run judged under the
  built-in default policy cannot be replayed until an equal row is stored. Versions of
  a review can go backwards, because the version that was read plus one is written.
* A boolean attribute takes the text `false` for true; null bypasses the check of the
  parent; deleting a parent leaves its dependents. The replay of a profile takes a
  profile id, and its controller passes the user id.
* `computeDiff` for recommendations compares the portfolio's items with a field that is
  always absent, so a recommendation is reported as changed exactly when a portfolio
  existed before; the replay of recommendations and journeys always matches. The replay
  of a re-evaluation recomputes a checksum over JSON whose keys `jsonb` reorders, and
  looks at the first `AFTER` snapshot of the job only.
* A plan whose only step to submit is blocked by an absent step can never be finished
  (the seeds' blueprint without a domain).

## 6. Not modelled, and the plan

Left out for good: the event bus (nothing consumes it), configuration, logging,
health, storage and telemetry (I/O without a protocol), stub modules, seeds (as
initial states), analytics and reports (read-only). Value aliases of the rule
engine, the operators `REGEX` and `BOOLEAN`, explanations, scores and readiness texts are
abstracted; recommendation preferences and feedback, the journey's checklist and
deadlines, and how a controller finds the id of a user are left out. Code without a
caller is left out: `renewWorkerLease`, `createJob` of the re-evaluation repository,
`createVersion` of `FactVersionService`, `createReview` of the review service, `createSnapshot`
of the profile's replay service, the conflict and reconciliation workflow of fact verification,
the separate create methods of the notification repository, and the writing methods of
the knowledge profile's repository.

Facts about the code that the models rely on: `processDelivery` is called only right after
the delivery was created; `executePlan` is called only by the request that created its job;
the fact-usage index of re-evaluation is never built, and a trigger always names the same
attribute; the population a policy change concerns is a constant; the impact engines'
results are only returned.

Planned:

1. A composition of `NotificationCenter` and `NotificationOutbox` through the hand-over of
   deliveries, and of `CitizenFact` with `CitizenProfile` over two attributes, if their
   state spaces stay within reach.
2. An abstract specification of a versioned fact with one current row, which `CitizenFact`
   is to implement as far as the lost update allows.
3. Several citizens, for the event ids that are unique over all users while the keys they
   are made of are unique per user.
