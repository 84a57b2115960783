# Conversation intelligence: TLA+ models and proofs

This directory models the runtime of the repository (TypeScript, `src/`): what its
HTTP handlers, worker loops and file registries may do to the state they share,
step by step, and the algorithms they run. TLC checks the models on small instances;
TLAPS proves, for every number of runs, workers, requests, scopes and faults, the
safety of the lifecycle, the review workflow, the pack registry, the canary automation,
the stores, streams and analytics, the analysis calls, the sentiment tables and what is
reported of them, the exports, the applied thresholds and the HTTP API. Paths below are
those of the repository.

## The system

| Component | State it keeps | Operations | Interacts with |
|---|---|---|---|
| Job store (`store/sqlite-job-store.ts`, `store/postgres-job-store.ts`, `store/file-job-store.ts`) | rows of runs, run events, audit events | createJob, getJob, updateJob, claimNextQueuedJob, appendRunEvent, appendAuditEvent, listings | everything that touches a run |
| Run lifecycle (`service/conversation-intelligence-service.ts`, `service/analysis-worker.ts`, `runtime/standalone.ts`) | the worker's flag and loop promise, the locals of each call | submitJob, start/stop/loop, claimNextQueuedJob, processClaimedJob, boot, close | job store, pipeline, sentiment store |
| Analyst review (same service, `api/http-server.ts`) | `result.review` inside the run's row | assignment, comment, decision | job store, admin configuration, sentiment store |
| Tenant admin configuration (`admin/`) | one JSON file per tenant and use case | get, set | review, canary automation, validation |
| Tenant pack registry (`packs/`) | a file per version, `active.json`, `releases.json` | publish, approve, comment, evaluateCanary, promote, rollback | HTTP API, canary automation |
| Canary automation (`service/canary-automation-*.ts`) | none of its own: the registry's | a timer tick that evaluates every configured scope | admin configuration, job store, pack registry |
| Model validation monitoring (`service/model-validation-*.ts`, `validation/file-model-validation-report-store.ts`) | reports | a timer tick, on-demand runs, thresholds written to the configuration | job store, pack registry, admin configuration, notifiers |
| Reviewed run exports (`service/reviewed-run-export-refresh-service.ts`) | latest file, snapshots, manifest | refresh (timer or request) | job store |
| Sentiment store and calibration (`store/*sentiment*`, `service/sentiment-calibration-service.ts`) | sentiment rows, calibration samples | persist, aggregate | lifecycle, review |
| Analysis pipeline (`pipeline/`, `sentiment/`, `pii/`, `rlm/`) | none | normalize, resolve speakers, mask, analyze, verify, score | lifecycle |
| HTTP API (`api/http-server.ts`, `auth/`) | audit events, SSE connections | the routes | all of the above |
| Run console, observability, benchmarks (`ui/`, `observability/`, `validation/`, `evals/`) | none that is read back | | |

What is hard about it, and where:

- **Interleaving.** Node runs one callback at a time, but every `await` lets others
  in, and several processes may share a Postgres database or a registry directory.
  Claims race; a stopped and restarted worker overlaps itself.
- **Whole-record writes from old copies.** `updateJob` writes a full row, the
  registries rewrite whole files; the copy was read before one or more awaits.
- **Partial failure.** A row is saved and the event that tells of it is not; the
  catch block fails itself; a process dies between the files of a registry.
- **Files that are being written.** `writeFile` truncates first; a reader takes what
  it cannot parse for "no file" and falls back to a default or an empty list.
- **Liveness.** A polling loop, no lease on claimed runs, no retry.

Per component, what makes it correct: a run is processed by one loop, its row, log
and sentiment agree and it settles once (lifecycle); a review is what its history
says and policy holds of every decision (review); at most one version is active
and none skips its gate (packs); an evaluation is of the publication its metrics
are about, no more often than configured (canary automation); a report for every due
scope, and applied thresholds that do not alert about what they were recommended
from (validation); whoever reads the exports finds what was exported (exports); an
analysis that passes for verified rests on what was said, nothing that is masked
reaches the model, and a call ends (analysis); reports agree with the tables and a
recommended offset never hurts (calibration); tenants stay apart and the audit
events tell what was done (HTTP).

## Modules

### JobStore

The two tables of the store as operators, one per call. A call is one SQL statement
(for a claim one transaction), hence atomic; the operators are used inside the
actions of `RunLifecycle`. `job[j]` holds the columns the properties tell apart
(`status`, `created_at`, result, error or not, `worker_id`), `events[j]` the run
events in insertion order. `updateJob` writes every column from the record it is
given, and the record type has no worker id, so it resets `worker_id`.

### RunLifecycle, RunOutcome, RunLifecycleProofs

`submit[j]` is the HTTP handler of `POST /v1/runs` for run `j`, `process[w]` a
process with its `AnalysisWorker` (`running` flag and the loop promise that `stop()`
awaits), `loop[l]` one activation of `loop()`: a program counter per `await` and the
locals (`run`, `existing`, `result`) that survive it. One action is the code between
two awaits. A call on the store may throw with its write applied or not
(`SubmitThrows`, the second disjunct of `LogStep`, `SaveStep`, `CommitClaim`,
`LogFailed`); inside the try block of `processClaimedJob` that leads to the catch
block, elsewhere it rejects the promise of `loop()`, which nothing handles, and the
process ends (`Throw`). `Crash` ends a process at any point, `Boot` starts it again.
A claim is two steps: the row is locked (`FOR UPDATE SKIP LOCKED`), then the
transaction commits. SQLite's claim is the same two steps with nothing in between.
The oldest row is chosen by `created_at`, stamped by the clock of the submitting
process; `Timestamps` lets stamps be equal or out of order. The engine is a call
that returns one of `EngineResults` or throws. `review[a]` is an analyst's request
(`recordReviewComment`, `recordReviewDecision`, `recordReviewAssignment`): it reads a
COMPLETED run (`ReadReviewed`), may be refused, writes the whole record back with another
`result.review` (`SaveReview`, whatever the row has become meanwhile) and appends the run
events of `LogOf[a]`. `AnalysisOf[r]` is the result `r` with the review the engine left in
it; what the requests do to a review is `ReviewWorkflow`'s.

`RunOutcome` is the promise: submitted once, claimed at most once, settled once; a
completion may be withdrawn, and a withdrawn one comes back only by a call that has seen
the run COMPLETED and is about to write what it saw. A run that never was COMPLETED stays
FAILED. `OutcomeSpec` is its specification under the refinement mapping: a run has been
claimed when its row has left QUEUED, and it is `seen` by the requests in `SaveReview`.

### SequenceFilters, Totals, SequenceFilterProofs

`Kept(s, set)` is what JavaScript's `filter` leaves of a list, written as a recursive
function so that the prover can reason about it; logs, histories and evaluations are
read through it. `SumOver(f, set)` is what `reduce` adds up, written in the same way; the
averages and totals of reports, metrics and analytics are sums of this kind.

### ReviewWorkflow, ReviewWorkflowProofs

One COMPLETED run, `row`, and requests on it. A request goes through `CheckRun` (the
route's read and its 409), `FetchRun` (the copy everything is computed from), `ReadPolicy`
(the configuration file, automatic assignment, the refusal; a file that is being written
and a read that fails, whatever the error, give the default policy, which asks for
nothing), `SaveReview` (the whole record), `LogAutoAssignment`, `LogAction`, `SaveSample`,
`AppendAudit`. Two other actors take steps in between: a PUT that truncates and then
writes the configuration file, and the loop that completed the run, whose RUN_COMPLETED
event may fail and turn the run into FAILED. A calibration sample is saved only for runs
whose result has an overall sentiment; the model is of such a run. `SaveReview` writes
COMPLETED whatever the row says, because the record was read as COMPLETED: an analyst's
write may bring a run back that the worker has failed. `lenient` keeps which requests were
told a policy that neither assigns nor demands an assignment. `limit`, chosen at the
start, is how many requests may be in flight: with 1 a request ends before the next one
starts, and the properties that hold only then say so.

### TenantPackRegistry, TenantPackRegistryProofs

One tenant and use case. `pack[v]`, `active` and `releases` are the files, `Nothing`
for a missing or truncated one, `Torn` for bytes that do not parse. Each call reads
two or three files, computes the whole next list of releases (`plan`) and overwrites
the files in the order of the code; opening for writing truncates (`Open...`), the
bytes come in a second step (`Write...`), and when two writers overlap the file may
be left torn. `Abort` cuts a call short. A release keeps what gates it (mode,
required approvals, approvers, canary and its result) and its history.

### CanaryAutomation, CanaryAutomationProofs

Any number of scopes in one server process. `evaluator[Timer]` is the worker's tick
(`ListConfigs`, then each scope in turn), `evaluator[c]` a handler of
`/v1/tenant-packs/auto-evaluate-canary`; both go through `ReadConfig`, `Describe`
(what is skipped, the interval guard), `ComputeLiveMetrics`, `ReadReleases` and
`WriteReleases` (the registry's `evaluateCanary`, one read and one write of the list
here; its files are `TenantPackRegistry`'s). The worker's `running` flag guards the
tick against itself, not against a client: the HTTP server has a service of its own.
Of the list of releases the model keeps one per scope, which was published as a
canary, with its evaluations; `runs[s]` counts the runs of its version since then,
and a run that has not ended is in the sample. The rates of reviews and of uncertain
results and the average score gate a decision in the same way as the failure rate
and are left out, as is the evaluation window, which is longer than the canary. A
release published as DIRECT with a percentage has a canary without `startedAt`: the
guard lets its first check pass, so the next tick may reject it on a sample that is still
too small, and `DecisionsHaveGrounds` promises an interval only to a canary that carries
the time of its start. `Throw` is a rejected call: a client gets an
error, while the tick, which has no catch and is not awaited, ends the process.

### RunStores, RunFeeds, RunFeedsProofs

`RunStores` has the calls of the `JobStore` interface that write, in the two forms the
repository gives them. In a database a call is one statement. `FileJobStore` keeps a
JSON file per run, one for its events and one for the review queue; each read,
truncation and write is a step, and nothing keeps two calls apart (the package exports
this store; no program of the repository builds it). `asked` records what callers
asked for, so that `CallsApartLoseNothing` can say what calls about different runs
keep. `RunFeeds` adds what is told of the runs: `stream[s]` is `GET
/v1/runs/:id/stream` with its connection, its interval and polls that may overlap
(`Connect`, `AuditAndOpen`, `Tick`, `Poll`, `Flush`, `Disconnect`), `reader[q]` is
`GET /v1/review-analytics`, which reads the queue, the list of runs and one
configuration after another. A first poll that throws answers headers that were sent
already, which ends the process; a later one only writes an error event. A connection
that closes before the listener is set leaves its interval running. Events stamped
alike may come in any order from the database. The reads that Postgres makes at
different moments SQLite makes at one, which is among the behaviours.

### TranscriptText, CanonicalExtraction, SentimentScoring, AnalysisCalls, AnalysisCallsProofs

A text is a sequence of atoms for what the code's expressions look for (a piece of
personal data, a marker, a cue, the end of a sentence); a masking token is three atoms,
because a later rule may match inside it. A rule has the flags the tenant wrote: without
`g` it replaces the first match of a turn only, with `y` a match at its beginning. Words
with superfluous blanks in them are an atom of their own (`spaced`), which no rule matches
and which collapsing the blanks, done after masking, turns into the atom a rule would have
matched. `TranscriptText` has masking, normalisation, speaker resolution and the prompt's
lines; `CanonicalExtraction` the compaction of words that are repeated and what is made of
an answer (parsing and repair, defaults, fallback evidence, restoration, tenant mapping,
verification); `SentimentScoring` the scores, offsets and cue adjustment. `AnalysisCalls`
runs several calls in one process: every request to the embedding and the chat service is
an await at which the service answers anything, fails or keeps silent, the timer fires or
the caller aborts; `before` in a call's record is what was computed ahead of the first
await, `cache` is the module-level cache of example embeddings. Left out are expressions
that are not valid, which make the call throw before it has begun, and names or ids that
would make another line of the prompt. What the code does and one might not expect, all of
it in the model: the cache is keyed by event type alone, so tenants share it; a blank turn
takes the next line for its own; fallback evidence carries the role of the item; an
answer's evidence may quote anything, for the code does not compare it with the turn it
names (`Evidence` has copies of a line and words of the model's own, tokens among them;
`by` keeps who wrote a quote, the engine's fallback included, and a copy that cuts a token
counts as words of the model's own); an answer's events are limited to supported types
only when definitions restrict them and in JSON mode; runs that were queued have lost
their token map; with a name hidden the role is inferred without it; the recorded total
offset may be less than the score moved. The service passes no abort signal, the engine
takes one. `Cases` is what a call may be given and the model may answer, in a sequence, so
that what is computed before the first await is evaluated once per case.

### SentimentCalibration, SentimentReports, proofs in AnalysisCallsProofs

`SentimentCalibration` has the four reports of `SentimentCalibrationService` as operators
on sets of rows and on the times at which the code reads the clock, averages as sum and
count. `SentimentReports` is the life of the tables: `persistSentimentData` writes an
analysis, its segments and its moments in turn, SQLite in one transaction per table,
Postgres row by row, any call may throw, applied or not, and the error is swallowed; a
labelled run adds a sample; time passes; the listings cut off at their limit. A drift
report reads its sparkline (`ReadSparkline`), later the rows and then the clock; the
convergence asks the clock before its listing and after it. The properties speak of every
moment at which these reads may come. The Postgres store gives up full-text search for
good after any error. A sample stamped exactly `now` is in no window of the convergence;
"converging" compares the first window with the last, not the total. The text of a bias's
cause is not modelled.

### ValidationMetrics, ReviewedExports, ValidationMonitoring, proofs in HttpApiProofs

`ValidationMetrics` has the metrics, the alerts and the recommendation of thresholds, for
all runs and per queue, engagement type and length. `ReviewedExports` has the files
(latest, snapshots, manifest, configuration), an atomic write as truncate, write and
rename of a `.tmp` all refreshes share, pruning, and the reader that merges the files
(`loadReviewedExportRecords`). Two refreshes that write the same `.tmp` may leave a latest
file that does not parse: loading throws (`LoadThrows`) until a later refresh replaces it,
and `ExportsAreRead` is about the loads that do not. `ValidationMonitoring` has the
callers: the worker's tick (`WorkerPlan`: refresh, apply, validate), a handler of the
same, a PUT of the configuration, an analyst's decision, process deaths. An operation is
cut where it awaits. Minutes, hours and snapshot times are ticks of one clock. A snapshot
has the number of the refresh that wrote it; numbers are closed up when one is pruned and
keep their order, which is that of the snapshots' names. `decided` is what a refresh found
when it began, of the runs that could be exported then: a decision on a run that is not
exportable promises nothing. `promised` is the most that refreshes which have ended had
found. Alerts per scope compare the runs' own length bucket for live metrics and the
derived one for reviewed records, as the code does.

### HttpApi, HttpApiProofs

`req[n]` is one request with its route, credential, what it named, and what it was
told; routes are grouped by how their tenant is found: a parameter or else the
principal, the body, the principal alone, or the record of the run in the path.
`Receive` authenticates, parses and admits; `Find` reads a run, for a review looks at its
status, and checks its tenant;
`Read` is the operation of a route that answers from a store, `Submit` and `Change` of
one that changes something (one step: what happens inside is another module's);
`Record` appends the audit event; then the answer. A call that throws, with its effect
or without, is answered with 500. A refusal (`Refuse`) keeps its status and what its
message tells: the 403 names the tenant that the client may not access, which for a run of
another tenant is its owner, and the 409 of a review tells that the run is not ready before
anybody has asked whose it is. No
audit event is written for a request without a tenant, and scopes of a key are parsed
but no route asks for them, so the model has none. `done` and `trail` record what was
changed and what was audited, for whom and by which request.

## Runs

| Run | Shows |
|---|---|
| `LifecycleFaults` | One run, two processes that may crash, restart and be stopped, an analyst's decision in flight, two faults: what the row, the log and the sentiment rows say, what is left RUNNING, that the lifecycle implements RunOutcome though a withdrawn completion may be written back, what may change of a settled run, and that a queued run is claimed and settles. Checks `RecordMatchesStatus`, `LogIsOnePath`, `SentimentOfCompletedRuns`, `OrphansNeedFaults`, `OutcomeSpec`, `SettledIsKept`, `RunsSettle`. |
| `LifecycleTwoRuns` | Two runs and two loops of one worker, which overlap because the host calls stop() and start() while the first is busy, with one fault: exclusive processing, and the log of a quiet run. Checks `ExclusiveProcessing`, `QuietLogTellsOutcome`. |
| `Reviews` | An assignment, a comment and two decisions one at a time under every policy, and three of them in flight together under two, with a fault or a PUT of the policy, and with the loop that may still fail the run: what survives every lost update, and, one at a time, that log, history and calibration sample tell the same story and nothing recorded is lost. Checks `ReviewReplaysHistory`, `AnsweredIsLogged`, `DecisionsAreAssigned`, `LogMatchesHistory`, `SampleIsFirstLabel`, `HistoryOnlyGrows`. |
| `ReviewLost` (violated) | Two concurrent review requests: the later write drops what the earlier one recorded and was answered 200 for. Checks `AnsweredIsPersisted`. |
| `Packs` | Five calls one after the other of every kind, and four of the kinds that race, or three and one cut short, with two in flight at a time: the releases a reader finds never hold two active versions nor one that skipped its gate; between undisturbed calls the three kinds of file agree and every call is in the history. Checks `AtMostOneActive`, `ReleasesPassedTheirGates`, `FilesAgree`. |
| `CanaryTimer` | The tick and a client evaluate the canary of a scope while its runs start and end and two of: publications and decisions by hand, PUTs of the configuration, clients' requests, calls that throw, process deaths. Checks are spaced and have grounds, the automation alone stays up, a due canary is evaluated. Checks `AutomatedChecksAreSpaced`, `DecisionsHaveGrounds`, `AutomationAloneStaysUp`, `DueCanaryIsEvaluated`. |
| `CanaryCrashLoop` (violated) | A tick that lists the configurations while a PUT rewrites one of them ends the process before the write; the file stays torn and the first tick of every restart ends the process again. Checks `CanaryEvaluationIsPeriodic`. |
| `AnalysisCalls` | Two analyses in one process that share the cache of example embeddings, under timers, aborts, and embedding and chat services that answer anything, fail or keep silent; twelve kinds of conversation, pack, masking and answer, quotes the model made up among them. Checks `LateAnswersAreDropped`, `GuidanceIsGrounded`, `VerifiedIsGrounded`, `HiddenThenRestored`, `EveryCallEnds`. |
| `SentimentTables` | Three runs are persisted by either store with one call that throws, labelled and reported on while rows are saved and time passes between the reads of a report: what a fault leaves of a run, and that the calibration, drift and convergence reports agree with the tables and with each other. Checks `PartsFollowTheAnalysis`, `RecommendationNeverHurts`, `SignificantDriftIsComplete`, `ReportsBalance`. |
| `Monitoring` | The validation tick and a handler refresh the exports, apply thresholds and validate while a run is reviewed, the configuration is PUT or the process dies; and, with the tick alone, any three runs of six kinds: what was exported is read, applied thresholds are quiet, and a due validation is made. Checks `ExportsAreRead`, `RecommendedThresholdsAreQuiet`, `DueScopeIsReported`. |
| `Feeds` | Two calls that write to a database or to the file store, among themselves, beside an event stream whose polls overlap, or beside the review analytics, with a PUT, a call that throws or a process death: what calls about different runs keep, what a stream and the analytics tell, and that an open stream catches up. Checks `CallsApartLoseNothing`, `StreamTellsEachOnce`, `AnalyticsAddUp`, `OpenStreamCatchesUp`. |
| `Http` | Two requests side by side for every kind of route, from anybody or from a principal of either tenant, while runs are created and end, a call throws or the process dies: the data of tenants stay apart, refusals tell no more than whose a named run is or that it is not ready, and the audit events tell what was done. Checks `TenantsStayApart`, `AuditTrailTells`. |

A run expected to be violated shows a disagreement between the code and what the
repository says of it, described in PROJECT.json under "findings".

### Bounds

- *Lifecycle.* One run with two processes and two faults reaches every pair of "fails
  here, and again in the catch block" and every crash with the other process at work. One
  analyst's request is in that run, which a withdrawn completion may meet in its copy; as the
  processes are alike it is sent to one of them (`FaultsSpec`). Two runs and two loops
  reach both claim races (for one row, for the oldest of two). The proofs need none of
  these bounds. The second run has two loops of one worker and
  one stop, beyond what `OneLoopPerWorker` lets the theorems say.
- *Review.* Four requests one at a time under every policy, or three in flight
  together under two, with a fault or a PUT (`Scenario`): two decisions suffice for
  every lost update of a kind with itself.
- *Packs.* Two versions are enough for "the other active version"; two actors for an
  approval count of two. Five calls of every kind one at a time; four of the kinds that
  race (`RacingRequests`) with two in flight reach publish, approve, approve against
  anything; with one call cut short there are three. `MaxCalls` ends every behaviour, so
  deadlock is not checked there, nor where every request is served once (review, HTTP,
  analysis).
- *Analysis.* Two calls, which meet only in the cache, so one takes every case and the
  other the two whose packs define an event type differently. The cases of
  `MCAnalysisCalls` cover every branch of speaker inference, masking with rules of every
  kind of flags, compaction, parsing, repair and verification that the model has.
  `Threshold` and `MaxTriggers` are the code's.
- *Sentiment tables.* Three runs of two use cases, one without a model score, limits of
  two rows so that they cut something off, spans of one and two of three moments; the code
  has 500 rows, 90 and 14 days and minima of 10 and 5, and only their order matters. No row
  becomes older than the longer span in these runs; the proofs have no such bound.
- *Monitoring.* Either three runs, one decision, one request or fault, and every
  interleaving with the tick; or the tick alone over any three runs of six kinds and two
  configurations. Sample sizes are 1 and 2 for 25 and more, and two snapshots are kept.
- *Feeds.* Two runs and two calls that write, at most one fault, two overlapping polls.
  Streams, analytics and other writers only read each other's data or none, hence the
  three kinds of behaviours `Bounded` lets through; with the file store, whose calls take
  many steps, a fault takes the place of one of the two writes.
- *HTTP.* `writer` is sent to one route of each kind that changes something, `reader` to
  every kind of read and to some of those; two tenants, two runs that exist and two that
  may be submitted, one fault. Mode `trusted_proxy` finds a scope as `api_key` does; the
  proofs have all three. The proofs need none of these bounds.
- *Canary.* One scope, one run, three points in time with an interval of one, and two
  events from outside: enough for two spaced evaluations with a fault, a restart, a rival
  decision or a client in between. A canary without a time starts in the state that
  applies what the tick finds (`TimerSpec`), publications lead to the others. The crash
  loop has two scopes, the PUT of one stopping the other. `MaxClock` and `MaxRuns` may be
  used up while the tick goes on.

### Fairness

`FairSpec` of RunLifecycle: weak fairness of every step of a handler that has started
(Node's event loop runs a callback that is ready), of every step of a loop (the same;
an engine call returns or is timed out), of `Boot` (a supervisor restarts the
process: the repository's runtime is a server) and `Close`. Nothing forces a request,
a stop, a restart of the worker by its host or a fault.

`FairSpec` of CanaryAutomation: the interval fires
(`Tick`), every call of a tick or a handler that is awaited comes back, a PUT that has
begun is finished unless the process ends, and a supervisor restarts the process
(`Boot`). Time need not pass and runs need not end.

`Fairness` of ValidationMonitoring: the interval fires, a supervisor restarts the
process, and a process that is in the middle of an operation takes another step
(`WeaklyFairStep`, which is WF of `Step(p)`: as `Step(p)` is enabled unless the process
is idle, it is written without ENABLED, which TLC would evaluate at a high price). No
request need ever come.

`FairSpec` of RunFeeds: the interval of an open stream fires, its reads come back, its
events are written. `FairSpec` of AnalysisCalls: a call begins, the timer of an armed call
fires, code that awaits no service runs on, and a request whose signal has aborted
rejects. No service is ever assumed to answer.

The one run with liveness and a constraint is Feeds: the fair steps of a stream never
leave the constraint, so that what `OpenStreamCatchesUp` asks for is not cut away.

## Proofs

Every theorem is for all constants that satisfy the named assumptions of its module
(`StoreAssumption`, `LifecycleAssumption`, `AnalystAssumption`, `ReviewAssumption`,
`RegistryAssumption`, `MarksAssumption`, `CanaryAssumption`, `HttpAssumption`,
`StoresAssumption`, `RowsAssumption`, `FeedsAssumption`, `CallsAssumption`,
`ReportsAssumption`, `SpanAssumption`, `SampleAssumption`, `ExportAssumption`,
`MonitoringAssumption`): types of the parameters, and that the marks for "no file", "no
row" and "torn" are no contents and no run. `CallsAssumption` is what the schemas leave of
a request and what JSON leaves of an answer: lists are lists, a limit or a confidence is a
number unless it is one the answer's schema refuses (`Bad`); and that the similarity a
trigger needs is above zero. `AnalystAssumption` says that a review changes nothing of a
result but its review, and that a request logs something. `MonitoringAssumption` says of a
configuration what its schema does, that every limit is given and each override is one of
a limit. That the two spans of a drift are nested (90 and 14 days) is a guard in the one
property that needs it. TLC evaluates them on every run. In each module the inductive
invariant is stated as named parts, each action has a lemma per part it can disturb, and
the last step joins them in temporal logic.

| Theorem | States | Inductive invariant |
|---|---|---|
| `RunLifecycleProofs!OneLoopPerRun` | `ExclusiveProcessing` | `OwnershipInv` |
| `RunLifecycleProofs!RecordsAgree` | `RecordMatchesStatus` | `OwnershipInv` |
| `RunLifecycleProofs!ImplementsOutcome` | `OutcomeSpec` (refinement) | `OwnershipInv`, `ReviewsInv` |
| `RunLifecycleProofs!LogsArePaths` | `LogIsOnePath` | `LogInv` |
| `RunLifecycleProofs!SettledStaysSettled` | `SettledIsKept` (action property) | `KeptInv` |
| `RunLifecycleProofs!SentimentFollowsCompletion` | `SentimentOfCompletedRuns` | `AnnouncedInv` |
| `RunLifecycleProofs!FaultsLeaveOneOrphanEach` | `OrphansNeedFaults` | `DrainInv` |
| `RunLifecycleProofs!QuietLogsTellOutcomes` | `QuietLogTellsOutcome` | `QuietInv` |
| `ReviewWorkflowProofs!RecordsReplay` | `ReviewReplaysHistory` | itself, with the types |
| `ReviewWorkflowProofs!AnswersAreLogged` | `AnsweredIsLogged` | `LoggedInv` |
| `ReviewWorkflowProofs!DecisionsFollowAssignments` | `DecisionsAreAssigned` | `AssignedInv`, `PolicyInv` |
| `ReviewWorkflowProofs!HistoriesOnlyGrow` | `HistoryOnlyGrows` (action property) | `FlightInv`, `SeenInv` |
| `ReviewWorkflowProofs!SamplesAreFirstLabels` | `SampleIsFirstLabel` | `SampleInv`, `SeenInv`, `FaultlessInv` |
| `ReviewWorkflowProofs!LogsTellHistories` | `LogMatchesHistory` | `StoryInv`, `UnwrittenInv`, `UnheardInv` |
| `TenantPackRegistryProofs!OneActiveAtMost` | `AtMostOneActive` | `CallsOK`, `ReleasesOK` |
| `TenantPackRegistryProofs!GatesArePassed` | `ReleasesPassedTheirGates` | `CallsOK`, `ReleasesOK` |
| `TenantPackRegistryProofs!FilesTellTheSame` | `FilesAgree` | `SerialInv` |
| `CanaryAutomationProofs!DecisionsAreGrounded` | `DecisionsHaveGrounds` | `RipeInv`, `StartedInv` |
| `CanaryAutomationProofs!ChecksAreSpaced` | `AutomatedChecksAreSpaced` | `AskedInv`, `SpacedInv` |
| `CanaryAutomationProofs!AloneItStaysUp` | `AutomationAloneStaysUp` (action property) | `WholeInv`, `InCanaryInv` |
| `RunFeedsProofs!CallsApart` | `CallsApartLoseNothing` | `ApartInv`, `SortedInv`, `QueueInv` |
| `RunFeedsProofs!StreamsTell` | `StreamTellsEachOnce` | `EventsInv`, `FeedInv` |
| `RunFeedsProofs!AnswersAddUp` | `AnalyticsAddUp` | `CoreInv`, `FitInv`, `ReaderInv` |
| `AnalysisCallsProofs!LateDropped` | `LateAnswersAreDropped` | `TimedInv` |
| `AnalysisCallsProofs!GuidanceGrounded` | `GuidanceIsGrounded` | `GuideInv`, `TimedInv` |
| `AnalysisCallsProofs!VerifiedGrounded` | `VerifiedIsGrounded` | `GradedInv`, `GuideInv` |
| `AnalysisCallsProofs!HiddenRestored` | `HiddenThenRestored` | `RestoredInv`, `GradedInv` |
| `AnalysisCallsProofs!PartsInOrder` | `PartsFollowTheAnalysis` | `StoredInv` |
| `AnalysisCallsProofs!DriftOnEvidence` | `SignificantDriftIsComplete` | `RowsInv` |
| `AnalysisCallsProofs!OffsetNeverHurts` | `RecommendationNeverHurts` | `RowsInv` |
| `AnalysisCallsProofs!BooksBalance` | `ReportsBalance` | `RowsInv`, `SparklineInv` |
| `HttpApiProofs!ExportsSurvive` | `ExportsAreRead` | `ExportsInv` |
| `HttpApiProofs!RecommendationsAreQuiet` | `RecommendedThresholdsAreQuiet` | `QuietInv`, `ExportsInv` |
| `HttpApiProofs!TenantsAreApart` | `TenantsStayApart` | `RequestOK` |
| `HttpApiProofs!AuditTrailIsComplete` | `AuditTrailTells` | `RequestOK` |

Type correctness is a theorem of each module, except for the analysis calls, whose
records hold texts, and the monitoring, whose calls hold records of many forms: what the
proofs need of these is part of `TimedInv`, `GuideInv`, `ShapeInv` and `RunsInv`.

**Lifecycle.** `ExclusiveProcessing` alone is not inductive: that a loop owns a run must
exclude that another may claim it, so `RunOfLoop` ties the place of a loop to the status
of the row it works on, `OneHolder` extends exclusion to the loop that has only locked the
row, and `NotYetCreated` keeps a handler's createJob from resetting a run. The same facts
about `existing` show what the end records contain. For the log, `LogInv` says which
station of the success path the worker's events have reached, by the program counter of
the loop that owns the run; `CatchInv` that only the loop that wrote COMPLETED can take it
back; `ReviewsInv` and `CopiesInv` that the copy a review writes back is of a completion
of this run, with the analysis the row has or had before it was withdrawn; `AnnouncedInv`
that sentiment is being written only after the announcement. `DrainInv` counts runs
without an owner against faults. Its hypothesis, `OneLoopPerWorker`, is what the
standalone runtime does (it calls start() once, and stop() only from close()); a host that
stops, starts and stops a worker again makes `stop()` await the latest loop only, and a
close() then leaves the run of an earlier one behind without a fault. TLC checks the run
with two loops of a worker and one stop.

**Review.** A decision on an unassigned run is traced to the policy its request was told
(`AssignedInv`), and a lenient policy to a PUT or a fault (`PolicyInv`), while the record it
ends in may be one that other handlers have rewritten since. A handler's copy of the record
is as old as its read, so each part of the
invariant speaks of the record in the row and of every copy alike. With a `limit` of one
the copy is the record, which is what the last three theorems rest on: `StoryInv` relates
the log of a run to its history through what the one request in service has logged so
far, and to what a fault has left unlogged.

**Packs.** The next content of `releases.json` sits in the locals of a call long before it
is written: the inductive invariant says of every list that is in the file or that a call
in flight is about to write that it has one active release at most and that each release
passed its gate; overlapping writers leave one of these lists or a torn file, which reads
as the empty list. `FilesTellTheSame` needs that the call in flight found files that told
the same and will leave files that do, once it has written the rest (`OnItsWay`): each
kind of call is shown to take a list that tells of every answered call to one that does.

**Canary.** An evaluation is decided by what its call read before the release is read
again: `RipeInv` and `AskedInv` say what a call under way knows of the publication it is
about, `StartedInv` and `SpacedInv` what the release then records. `WholeInv` and
`InCanaryInv` show that with nobody else acting the files a tick reads are whole and the
release still in canary when it is evaluated.

**Stores.** What a run's row and log are to be is in `asked` when a call begins, and in the
store when it ends. `ApartInv` says for the only call about a run, by its program counter,
what it has still to write of both (`StillTo`), `ShapeInv` what a call has with it, and
`UncreatedInv` that a run which is being created is in no row, no list and no other
rewriting, so that a claim cannot pick it up half-way. `QueueInv` says that while nothing
rewrites beside it the one call that rewrites the queue has listed rows which tell the
same about who waits: a run that a claim or a creation changes meanwhile waits neither
before nor after.

**Streams.** `EventsInv` says that an event is in a log once, in a copy a call has read, or
in the hands of the one call that carries it, so that no two calls write the same event.
`FeedInv` says of what a stream has sent, and of what each of its polls has listed, that it
was asked for about the stream's run and has no event twice; in a database it is also the
first events of a log that only grows (`BeginsLog`), so that of two lists the shorter is
part of the longer and a later send holds only events stored after the earlier ones
(`FlushTells`).

**Analysis calls.** `TimedInv` relates timer, abort flag and recorded error of a call to
where it is. `GuideInv` says of every entry of the shared cache that some caller which asks
for the type has these phrases, and of every trigger found so far that it is grounded in
the phrases of its own caller unless another caller defines the type otherwise; to
`TriggersGrounded` the best match is the greatest of similarities and the first turn that
has it, although the number of turns and phrases has no bound. `GradedInv` says that what a
call returns is sound. Its core is `AssembledSound`, about the operators that follow an
answer and not about steps: restoration changes no id, scoring no confidence and a
speaker's decoded name no role, so an analysis without reasons for a review has only
quotes whose turn is assigned a role the pack scores; `ExtractionIs` shows before that
that after parsing and defaults, or after the schema of structured mode, a key moment has
evidence and a confidence, whatever the model has answered.

`HiddenThenRestored` is about operators too; `RestoredInv` says of the steps only that the
quotes of a result are restored. Between masking and decoding a text has `Parts`: each
atom of it is a word of its turn, or belongs to a token that stands for some of them. A
pass of one rule (`IsPass`, `PassParts`) keeps this, because no rule matches what an
earlier one has written and the map only grows (`Grows`), so that a token means the same
at the end as when it was made, whichever matches the flags let the rule reach; collapsing
blanks, compacting a word that is repeated (`CompactedIs`, `NotInToken`) and cutting a
text into sentences do not cut through a token; and decoding puts the words back
(`DecodeIs`). A line is the flattening of one piece per atom of the masked text
(`FlattenParts`), so an atom of it that a rule matches was there after masking or is a
`spaced` one whose blanks were collapsed (`CollapsedLine`). The guard of the property is
what the proof asked for: a rule that matches a label, or the opening, number or closing
of a token, or the count of a compaction, breaks it. A turn that was empty, a quote of a
turn that does not exist (in structured mode) and a transcript that has the opening of a
token among its own words are the cases it names. Of what the model writes itself nothing
is said. Passes over the atoms of a text, over rules and over turns are recursive
functions; `RunExists` and `RunInduction` stand for the inductions over them, once for
each kind of step.

**HTTP.** The invariant says of each request, by where its handler is, what it has left in
the stores and where its tenant came from. The hinge is that a run never changes its
tenant, so that a check made before an await still holds after it; and that an entry of
the trail is never removed.

**Analytics.** The totals of an answer are sums over runs that were listed at different
moments. `FitInv` says of every row, and of every copy that a call has read and may write
back, that a decision is stored with the state it leads to, and of the queue file that it
is the queue of some table; `ReaderInv` that what a reader has listed so far is a queue or
list of this kind and that it has read one policy for each use case it met. Each pending
run is then in one group and one policy, and pending, verified and uncertain runs part the
completed ones: sums over a partition.

**Sentiment tables.** `StoredInv` says by the step of `persistSentimentData` what each of
the three tables holds of the run: what throws ends the writing, so nothing is in a later
table that is not in the earlier ones. The reports are arithmetic over sets of rows, of
which `RowsInv` says that they are finite and that a sample's delta is the analyst's score
minus the model's. Moving n scores by k changes their squared error by k(kn - 2s), where s
is the sum of the deltas; the recommended offset is their average rounded, hence within a
half of it, and the change is not positive (`OffsetNeverHurts`). A cut-off listing holds
the newest rows, so that one whose oldest row is before the recent span lacks nothing of it
(`DriftOnEvidence`), however late the clock is read after it. A sparkline in hand is made of
rows that were in the table once, which only grows (`SparklineInv`): each of its bars counts
analyses that the spans of the report count too. That parts add up to the whole is the sum
over a partition by key (`BooksBalance`).

**Exports.** The refreshes under way are numbered in the order in which they began, which
is the order of what they found (`NumbersInv`, `FoundInv`, `OrderInv`); each snapshot has
what the refreshes with a smaller number had found (`TakenInv`, `SnapshotsInv`,
`StoredInv`). `PromisesInv` gives for each run a snapshot from which on all have what was
promised: pruning keeps the newest, and so one of these. The latest file is whatever was
renamed last, of which only `HeldInv` can be said: the records that files, calls and
snapshots hold of a run are the run's own or earlier ones, stamped in the order of its
decisions. The reader takes the record with the latest stamp, so it takes none that is
older than the one promised. The step that matters is the start of a refresh, which closes
the gaps in the numbers of all snapshots and calls (`Renumbered`, shown to keep the order).

**Thresholds.** A recommended limit is derived from a measurement by rounding with some
headroom and clamping, an alert is a comparison of the same measurement with the limit,
scaled differently; for each of the eleven limits the two are shown to fit for all sums
and counts (`GoodMeasures` bounds them). Limits of a queue, an engagement type or a length
are stored only where they differ from the ones recommended for all runs, and are read
back over those: the base is the same, so what is read is what was recommended. `QuietInv`
carries the measurements from the step that takes them to the write of the configuration,
together with the thresholds of every configuration a call may hold (`ConfigFits`).

**Filters and sums.** `SequenceFilterProofs` shows what filtering an extended sequence
gives, and what sums over finite sets do: one element more or less, two functions compared,
added or scaled, a partition by a key. The inductions are over a set of numbers, from the
well-foundedness of `<` on the naturals, since the provers cannot instantiate an induction
rule that takes an operator.

Model-checked only: liveness under fairness (`RunsSettle`, `DueCanaryIsEvaluated`,
`DueScopeIsReported`, `OpenStreamCatchesUp`, `EveryCallEnds`), which is out of the prover's
reach, as are the counterexamples of the two runs that expect one. All the
invariants and action properties of the runs are theorems.

## Not modelled, and why

See "components" in PROJECT.json. Presentation (`ui/`), metrics (`observability/`) and
offline scripts (`validation/` benchmarks, `evals/`, the search for scoring settings in
`sentiment/scoring.ts` that only they call) keep no state that others read. Zod schemas
are represented by the types they leave. Delivery of alerts to webhooks is outside, and
nothing reads whether it succeeded. What the built-in masking expressions match, and
what embeddings resemble, are parameters. Schema creation, health checks, metrics and
the wording of prompts and reports are left out.

What the code does not ensure and no property states: a number whose groups are two blanks
apart is shown to the model, because blanks are collapsed after masking, and so is what a
rule without the flag `g` matches after the first match; a decision is taken unassigned
whenever reading the configuration fails. With two calls in flight `FilesAgree` of the
pack registry fails (the later write of `releases.json` drops the earlier entry), as
`AnsweredIsPersisted` does for reviews: it is checked for calls that come one at a time.
Thresholds that are applied drop a PUT made meanwhile. A report file that is half written,
or a run that cannot be exported, makes every later listing or export throw, and so does a
latest export that two refreshes have torn. A repeated `POST /v1/runs` makes a second run.

`AutomatedChecksAreSpaced` fails once a client evaluates while a whole interval
passes: its evaluation carries the time its call began and is appended behind the
tick's, and the guard looks at the last one only.

## Plan

Next models: groups by engagement type in the calibration once rows carry one, the
offline search for scoring settings against a reference definition, and a second tenant
in `ValidationMonitoring`, whose tick serves scopes in turn.
