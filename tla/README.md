# Real-time fraud detection platform: verification project

TLA+ models of the platform under `src/`, the TLC runs that check them on small
instances, and theorems that TLAPS proves for every instance: every safety property
the passing runs check is a theorem. `PROJECT.json` maps each definition to the lines
it models.

## The system

| Component | State it keeps | Operations | Hard part |
|---|---|---|---|
| Scoring store (`database.py: score_and_persist`, `service.py`) | users, merchants, transactions, predictions, alerts, outbox rows | score a transaction, answer a repeated id | concurrent sessions under READ COMMITTED; SELECT-then-INSERT merges; two flushes in one transaction |
| Outbox relay (`streaming.py`, thread in `apps/worker/main.py`) | `published_at` of outbox rows, the producer's queue | select a batch, publish, flush, mark, commit | the broker and the database share no transaction; the thread may end alone |
| Stream worker (`apps/worker/main.py: run`) | consumer position, committed offset | poll, score, commit; dead letter | crash between database and offset commit; it consumes the topic it publishes to; dead letters that cannot be written |
| Alert workflow (`apps/api/main.py: update_alert, label_transaction`) | alert row, label row, label events | PATCH an alert, post a label | guards on an unlocked row; the ORM writes only columns that changed |
| Explainer (`apps/worker/explainer.py`) | explanation column, position, committed offset | poll, explain an alert, commit | a failed message is covered by its successor's commit; an undecodable key stops it for good |
| Dashboard (Streamlit, `apps/dashboard/main.py`) | per session: selected row, selected transaction; for all: the cache of what the API answered | feed, investigation, verdict on a case, refresh | the feed moves under the selected row; sessions fill and clear one cache |
| Retraining queue and worker (`lifecycle.py`, `pipelines/retraining/worker.py`) | retraining jobs, model versions | queue, claim, train, complete, fail, recover | deduplication without a unique key; interrupted jobs |
| Promotion (`pipelines/retraining/promotion.py`) | champion alias (MLflow), model stages, audit rows | promote a completed job | two stores, no common transaction |
| Drift and performance monitor (`apps/worker/monitor.py`, `lifecycle.py`) | drift and performance reports | generate a report, queue a job | two-window rule, episodes |
| Decision policy and features (`decision.py`, `features.py`, `service.py`, `training/data.py`) | the history of a user | features of an event, decision; the same features for training | windows and ties, events out of order or at once, two implementations |
| Training (`pipelines/training`) | artifact, report, registered version | slice, select, refit, calibrate, set thresholds, test, register | who has seen which rows; interrupted runs |
| Probability model, SHAP | the artifact | a probability, an explanation | numeric |
| API (read side), web front end, simulator, migrations, configuration, scripts | none of their own | | |

How they meet: the API and the stream worker both call `score_and_persist`, which
writes the outbox rows in the transaction of the score. The worker's outbox thread
publishes them, among them one on `transactions.v1`, which the worker's main thread
consumes and scores again (to no effect). The explainer consumes `fraud_alerts.v1` and
writes the alert row that analysts PATCH from a dashboard. There are two:
docker-compose starts the Next.js front end (`docker-compose.yml:156`), a client of
the API without state of its own; the Streamlit script, whose sessions share one cache
of the API's answers, is the one `CaseDesk` models. Resolving an alert writes a label;
labels and scores are the monitor's input; the monitor and the API queue retraining
jobs; a worker trains them; an administrator promotes. `fraud_predictions.v1` and
`confirmed_labels.v1` have no consumer in the repository.

## Modules

### ScoringContract, ScoringLedger, ScoringStore

`ScoringContract` holds the vocabulary of scoring. The model and the decision engine
are one constant function `Decide` of a transaction and the set of transactions its
features were computed from, so what is checked and proved holds for any model.

`ScoringStore` is `score_and_persist` and the two callers' commit and rollback, one
action per SQL statement of a session. The six tables hold what is committed; a
session's uncommitted rows are its `pc`, `req`, `userMissing`, `merchantWrite` and
`reply`, and concern the others through row locks only. `session.merge` is a SELECT
now and an INSERT or UPDATE at the next autoflush: `GetUser` and `FlushUser`,
`GetMerchant` and `FlushMerchant`. `Conflict` is the INSERT that finds its key taken;
`Abort` is any other failure, or the death of the process. Left out: columns no guard
looks at, the wording of reasons, latencies.

`ScoringLedger` is the abstract promise: a transaction is entered once, in one step,
whole, from strictly earlier entries, and never changes. `LedgerView` reads the ledger
off the tables; `ImplementsLedger` is the refinement.

Correctness: the write set is atomic (`WriteSetComplete`), features are point-in-time
(`PointInTime`), answers are idempotent (`ReplyIsRecord`), requests finish
(`RequestFinishes`).

### StreamPipeline

The worker process with both threads, its producer's queue, the broker's topics and
the outbox table. Scoring is one atomic step (`Score`), which is what `ScoringStore`
shows of it. `Next` has the outbox thread (`SelectBatch`, `PublishRow`, `MarkRow`,
`CommitBatch`), the main thread (`Poll`, `ScoreMessage`, `CommitOffset`,
`ReportMetrics`, the dead-letter path), the broker's `Acknowledge`, other producers,
and every failure the code handles or does not handle. `FlushReturns` is
`producer.flush(10)`: it returns with an empty queue, or after its timeout with
whatever is left, and nobody looks at the result. Left out: `attempts`, `last_error`,
metrics, the order within a batch (any order is allowed), partitions and rebalances
(one partition, one worker). Crash and exit end both threads; `Restart` is
docker-compose's (`restart: unless-stopped` for every service of the application,
`docker-compose.yml:14`).

The handler that writes a dead letter decodes the message's key first. A key of
`Undecodable` is not UTF-8: its message fails to validate, the handler raises, the
process exits uncommitted (`DeadLetterFails`) and meets the message again after every
restart (`CrashLoop`). Each such exit counts as a fault, so that a run has a bounded
number of rounds. Left out: a message with such a key that does validate, which is
scored like any other and only meets the handler if another step fails.

### AlertCase

One alert, its transaction's label and the label events, with concurrent sessions of
three kinds: PATCH, label post, explanation. A session loads the row (`ReadAlert`),
flushes it before it looks for the label (`FlushAlert`, which takes the row lock),
loads and flushes the label, and commits. `seen` and `seenLabel` are what the ORM
compares with when it decides which columns an UPDATE names. `resolving` remembers
whether only resolutions and explanations have been asked for, which is where
resolution and label must agree. Left out: the analyst's note, times.

### ExplainerLoop

The consumer loop of the explainer over the keys of `fraud_alerts.v1`: `Poll`,
`Explain`, `AttemptFails`, `CommitOffset` and its failure, crash, SIGTERM, restart.
Keys are alerts, ids the database does not know, keys that cannot be decoded and
messages without one; `Target` says where each takes the loop. The explanation is one
atomic step (`AlertCase` has its interleavings with the analysts). `failed` is the
history of failed attempts. Left out: the factors, the log, rebalances (one partition,
one explainer).

### CaseDesk

Analysts at the dashboard. A browser session runs the script from top to bottom
whenever its page is touched: `Feed` (the feed, and which transaction is selected:
by row first, by id from then on), `Detail` (the investigation, and whether the button
that was pressed is one of this case's), `Patch`, `Refresh`. `CallFeed` and
`CallDetail` are the calls of `api_get`, which all sessions share through one cache:
`fetch` is a session's call in flight, `live` until somebody clears the cache.
`update_alert` is one step here. The environment: transactions whose events are older
or newer than the feed's (`Arrive`), other clients (`ResolveElsewhere`), the cache's
five seconds (`Expire`), API calls that fail, are refused or are lost.

Streamlit is modelled from how the script uses it (a cached function runs once at a
time for the same arguments, clearing a cache orphans the calls in flight, a button is
known by its key, a table whose rows have changed keeps or drops its selected row);
its definitions carry the script's lines. `given` and `known` are histories: the
verdicts given and the case they were given on, and how far each session has seen or
brought each case. Left out: note, filters, charts, the other tabs.

### ModelLifecycle

Requesters (API sessions and the monitor), workers and promoting sessions over the
job, stage and audit tables, the registry and the artifact that is served.
`SelectActive` and `InsertJob` are the two statements of `queue_retraining_job`;
`Start` and `Requeue` those of `recover_interrupted_jobs`; `Claim` to
`RecordFailureFails` are `process_next` and `process_job`, among them
`CompleteAnswerLost`, the commit that is stored although it raises; `loaded` is the
champion an API process has in memory since its start, which it asks retraining for
(`Champion`), while the monitor reads the artifact in each cycle; `CheckJob` to `Undo`
follow `promote_completed_job` call by call. The gates' verdict is a free choice;
`Deploy`, the replacement of the file at `MODEL_PATH`, happens outside the repository.
Jobs and versions are numbered in the order of their creation. Left out: the operator
script `scripts/set_model_alias.py`, the challenger alias, artifact files.

### DecisionPolicy, Features, OnlineScoring

`DecisionPolicy` is `DecisionEngine.decide`: thresholds, then three rules that raise
the decision. `Features` computes the features twice, online from the rows the history
query returns (`Online`) and offline over the whole data set, as
`materialize_features` does for training (`Offline`). `OnlineScoring` puts the two to
work on a stream. A session reads the history of an event among what has been
recorded by then and computes features, a probability (any) and a decision (`Score`),
and records them when it commits (`Record`) or rolls back (`Abandon`). No session
reads what another has not committed; `seen` is how much was recorded when a row's
history was read. What keeps two sessions apart is that the first row of a user or a
merchant is inserted before the history query (`Waits`); nothing else does for a user
who is known. Events come in any order of their times.

Times and windows are small integers, probabilities steps of `Unit`, a mean is a sum
and a count. Where the code's answer depends on the order of rows of one time
(`prior[-1]`, the sort before the rolling windows), every order is allowed (`Latest`,
`Precedings`). Left out: hour, weekday, country and IP features, sums and distinct
counts (read off the same rows in the same way), the risk score, the reasons, and the
lock on a merchant's row that an event with another category or country updates, which
keeps some sessions further apart. The statements between and the conflicts over ids
are in `ScoringStore`. The specification is `ServingSpec`, because the module of
theorems extends `TrainingRun` as well.

### DriftMonitor

`generate_report` report by report: `StartCycle` selects the window and the segments
that are large enough, `Report` writes one report, compares it with the segment's
previous one and may queue a job, `AssessWell` and `AssessDegraded` are
`evaluate_delayed_performance`, `CommitCycle` and `FailCycle` the end of the
transaction. `Breached` is `drift_threshold_breached` with its early return. What a
window looks like is the set of metrics beyond their thresholds, any of `Shifts`; the
statistics are left out, and so are the stored performance reports. Labels
(`Confirm`), the fate of jobs (`Progress`, what `ModelLifecycle` shows of it) and the
artifact (`Deploy`) are the environment. A session sees its own flushed reports
(`AllReports`), which is how a segment's second report in a cycle would find the
first; segments come in any order.

### TrainingPolicy, TrainingRun

`TrainingPolicy` has the chronological slices, the cost of a policy, the scan of the
threshold grid, the comparison of candidates, and the monitor's own reckoning of the
cost (`DelayedCost`, whose constants are literals in `lifecycle.py`). `TrainingRun` is
`train` phase by phase with the rows each model has seen (`fitted`), what each
evaluation was for (`uses`) and the files and alias a run leaves. `Fail` may hit
between any two phases, `RegisterCutOff` between the alias and the end of the run;
`Start` runs again over the same files, as the worker does with a requeued job.

Fitting, calibration and PR-AUC are numeric: a model gives rows any probabilities of
`Outputs`, an evaluation any of `PrAucs`. Probabilities are percentages that do not
lie on the grid, because the program's grid is made of rounded floats; money is in
cents. `Boundary` is exact where the program computes `int(size * 0.65)` in floating
point. The model is that of a run with a tracking server; without one the worker fails
the job after training. What the finished model predicts to describe itself is left
out: on rows of the calibration slice for the monitor's reference distributions
(`train.py:325-332`, with the background sample of line 349), and on five rows of the
test slice for the example in the registry (`train.py:382`). Neither evaluates or tunes.

## Runs

| Run | Instance | What it shows |
|---|---|---|
| `scoring_store` | 2 sessions, 3 transactions of 2 users at 1 merchant | all safety properties of the store, the refinement of the ledger, and that every request finishes |
| `stream_pipeline` | 1 transaction without an alert, 2 poison messages, one of them with an undecodable key, all faults, 2 per run | the echo of the worker's own events dies out; unless a delivery is lost, nothing consumed or published is lost; unless the outbox thread dies too or the worker is in a crash loop, every event is published; the topic drains up to an undecodable key |
| `stream_lost` | one flush timeout, one crash | a row marked published whose event is gone (finding) |
| `alert_case` | 3 sessions, 5 requests of all kinds | an alert never returns to OPEN; explanations are never overwritten; while there are only resolutions and explanations, resolution, label and last label event agree |
| `explanations` | 2 alerts, 3 keys that are none, 4 messages, 3 faults | no offset is committed over a message that was not tried; an alert stays pending only after a failed attempt or behind an undecodable key |
| `case_desk` | 2 sessions, 2 transactions, a page of 1, 2 verdicts | no verdict lands on another transaction; no page goes back on what its session has seen |
| `lifecycle` | 2 jobs, 1 worker, the monitor, 2 administrators, any one fault but a lost answer to the commit that completes a job | one run per episode, finished jobs stay finished, true audits, only challengers that passed become champion |
| `lifecycle_live` | 1 job, 2 workers, 1 administrator, 1 API session, 2 faults of any kind but a failing failure handler | a queued job is trained to an end |
| `online_scoring` | 2 sessions, 3 events of 2 users at 7 times, 3 probabilities | rules only escalate; a recorded burst is held; unless events come late or at once, the velocities served are those models are trained on, and all trained columns are if besides no event is older than the history query reaches; late events only make served velocities too small |
| `drift_monitor` | all transactions and 1 segment, 4 reports, 2 versions, 2 labels | every job has its evidence on record (two consecutive reports in breach, or enough labels), sustained drift is queued, one job per episode |
| `drift_masked` | 1 segment, every kind of metric | a channel or category that has shifted is not noticed (finding) |
| `training` | 13 rows, 2 candidates, 2 trials, 2 runs | nothing looks ahead and the test slice is for the test; trainer and monitor agree on the cost; artifact, report and alias are never out of order |

Bounds. In `scoring_store` two sessions suffice for every conflict (user, merchant,
transaction), replay and lock wait; more sessions are covered by the proofs. T1 and T2
are two days' events of one user, T3 shares only their merchant, and T2 brings another
category, so each kind of merge and of decision occurs. `MaxFaults` counts the faults
of a run: two let one fault hit the recovery from another, or let a worker meet an
undecodable key a second time after its restart. In `stream_pipeline` the transaction
is not alerted, so it has two rows and `BatchSize` 2 takes one or both; with a third
row beside the two poison messages the run would have 2.1 million states instead of
315 thousand. The limit itself is met in `stream_lost`, which has the three rows, and
by the proofs, which hold for any. `MaxRequests` bounds the requests on one alert:
three suffice for each way to interleave two PATCHes, and five let two resolutions
meet among repeats and explanations. `MaxJobs` and `MaxVersion` bound the lifecycle;
with `MaxVersion` exhausted training can only fail. Three transactions, two jobs and
one alert keep the interaction of every pair; none of the operations looks at three of
them at once.

In `explanations` four messages hold two alerts with something between them, or one
alert announced again after its explanation, and three faults let a crash, a failed
commit and a failed attempt follow each other. In `case_desk` a page of one makes
every new event push the selected one out, two transactions let a script open another
case than the one its button was pressed on, and two verdicts, on buttons or
elsewhere, let two sessions meet at one case; each session may touch its page as often
as it likes. More sessions, transactions and verdicts are covered by the proofs.

In `online_scoring` the seven times reach over the longest window and past the
history, two earlier events make a burst (`VelocityReviewCount` 2), three rows hold a
burst with what it sets off, and two sessions suffice for one of a burst to be
recorded behind another's back. Among the states are a burst that is approved because
its events were in the making together, and an event older than the history that
training counts: the two cases the properties exclude. More rows and sessions are
covered by the proofs. `drift_monitor` needs two reports for a job; four give two
cycles with a segment, or a pair for each of two versions, with a rolled-back cycle at
any point. In `training` the 13 rows give each slice at least one row and selection,
threshold and test two; half of the rows may be reviewed, since a twentieth of two
rows is none. Every other row is fraud, so both slices have one of each label, and a
model may answer 3, 7, 47 or 97 per cent: tuning comes out with different pairs, and a
tested row, fraud or not, is approved, reviewed or blocked.

The `lifecycle` run has one worker, as docker-compose starts one. With two, a starting
worker requeues the job another is training, and the late result is written over a
finished or promoted job: `FinishedStaysFinished` and `AuditIsTrue` are promises of
the one-worker deployment. `lifecycle_live` has two. For the same reason `lifecycle`
leaves out the lost answer to the commit that completes a job (`complete_answer_lost`):
with it TLC refutes `FinishedStaysFinished`, `AuditIsTrue` and `OneRunPerEpisode`
(finding 12). `lifecycle_live` has it.

The properties of `stream_pipeline` that a lost delivery breaks are stated of runs
without one (`faults.lossy`), and `EveryEventPublished` also of runs whose outbox
thread lives; `stream_lost` has the other case. Where a message with an undecodable
key is next, `EveryEventPublished` and `TopicDrains` promise nothing (finding 10).
`LabelMatchesResolution` is likewise stated of runs of resolutions and explanations:
with label posts and other PATCHes resolution and label may disagree (findings 3 and
4).

All modules but `ScoringStore` and `CaseDesk` reach states with nothing left to do
(requests, messages, reports or archive used up, every event sent, every job finished,
the training done), so their runs do not check deadlock; those two do.

## Fairness

- `ScoringStore`: strong fairness per session for its next statement. A session in a
  transaction goes on, and PostgreSQL queues the waiters of a row lock in order, so
  one that is granted again and again gets it. Nobody need start a request.
- `StreamPipeline`: weak fairness for each thread, the broker and the restart. Threads
  of a running process are scheduled, and the containers of the application have
  `restart: unless-stopped` (`docker-compose.yml:14`). Faults are never fair.
- `ExplainerLoop`: weak fairness for the loop and for the restart, as above; after a
  stop the restart is the operator's.
- `ModelLifecycle`: weak fairness per worker, for its loop and its start. Training
  ends, well or badly.

The other modules have safety properties only: analysts, administrators and the drift
monitor's clock owe nobody a step.

## Proofs

### The scoring store

`ScoringStore_proofs` proves, for any number of sessions, transactions, users and
merchants and any `Decide`:

- `TypeCorrect`, `WriteSetsAreAtomic`, `FeaturesArePointInTime`,
  `AnswersAreIdempotent`: the four invariants of `scoring_store`;
- `StoreImplementsLedger`: every behaviour of the store is one of the ledger.

The only assumption is `ScoringAssumption` of `ScoringContract` (the types of the
constants), which TLC evaluates for the instance.

The invariants are not inductive as they stand. `IInv` adds what a session between two
statements knows: a computed reply is right for its transaction and rests on recorded
transactions (`Scored`), a parent row that a SELECT found is still there
(`ParentsFound`), a flushed transaction id is not recorded yet, and no two sessions
have flushed the same one (`OneWriter`, the primary key). With it most steps are
private to a session (`PrivateStep`), and the argument is in `CommitStep`: the
committing session is the only writer of its id, so no row of it exists, and nothing
of any other session's knowledge is invalidated because tables only grow. The
refinement needs the same fact once more (`CommitEnters`); every other step leaves
`LedgerView` alone.

### The stream pipeline

`StreamPipeline_proofs` proves, for any transactions, poison messages, batch size and
faults: `TypeCorrect`, `NothingConsumedIsLost` (`ConsumedIsSettled`),
`NothingPublishedIsLost` (`PublishedIsOnTopic`) and `EchoDiesOut` (`EchoBounded`).
`LoopInv` says that the message in hand is the last one fetched, `ConsumerInv` that
everything fetched is settled (scored or on the dead-letter topic) except perhaps the
message in hand, which is then before its offset is committed, and `RelayInv` that
every row marked or in flight is on its topic or still in the producer's queue. The
last two hold until a delivery is lost (`faults.lossy`): after a flush that returned,
in that case only with an empty queue, what was queued is on its topic. Assumption:
`PipelineAssumption`.

`EchoDiesOut` counts. The bound on what `transactions.v1` holds of a key is not
inductive: a copy may also be in the producer's queue, or be owed by an outbox row
that is pending and not yet in flight. `EchoInv` bounds the sum of the three.
Publishing moves one from owed to queued, the broker's acknowledgement one from queued
to the topic, and a first score makes one owed; scoring an echo makes none, because a
key with a prediction is only answered. What can make a row owed a second time is a
batch that is lost before its commit, which takes a fault (an exit on an undecodable
key is one, each time); a worker that a fault has made exit still has its batch, so
until it is down that fault is set aside (`Doomed`). `BatchInv` places the rows of the
batch at each point of the thread. The section "Counting" is arithmetic of
cardinalities: what a log or a queue holds of an event after an append or without its
head (`AtOfAppend`, `AtOfTail`).

### The explainer

`ExplainerLoop_proofs` proves `TypeCorrect` and `NothingIsPassedOver`
(`CommittedIsTried`) for any keys, messages and faults. `LoopInv` places the committed
offset and the position against each other at each point of the loop; the interesting
step is a restart, which takes the position back to the committed offset and relies on
everything before that offset having been tried. Assumption: `LoopAssumption`.

### The alert workflow

`AlertCase_proofs` proves, for any number of sessions and requests:

- `TypeCorrect` and `AlertsAreNotReopened`. The guard of `update_alert` looks at a row
  that may be stale when the PATCH commits. `IInv` adds what is still true then
  (`SessionInv`): a session that passed the guards and is asked to set OPEN loaded an
  open row, so the status is not among the columns it writes.
- `ExplanationsAreKept`, which needs no invariant: an UPDATE names the column only to
  set it.
- `ResolutionsAndLabelsAgree` (`LabelMatchesResolution`), which is about behaviours as
  long as every request is a resolution or an explanation (`resolving`). `LabelInv`
  says that until then at most one session holds the alert's row lock with a
  resolution to write, and what such a session knows of the label (`ResolverInv`): the
  label it loaded is the label on record, because every other writer of the label must
  hold the alert first.

Assumption: `CaseAssumption`.

### The dashboard

`CaseDesk_proofs` proves, for any analysts, transactions, page size and number of
verdicts:

- `TypeCorrect`;
- `VerdictsLandWhereGiven` (`LabelWasGiven`). A session in front of its PATCH has a
  button that was pressed on the very case the script has opened (`ClickInv`), a
  waiting button stands for a verdict that was given (`SaidInv`), and a label is its
  case's resolution and was given (`LabelInv`).
- `ScreensDoNotGoBack` (`ScreenNeverGoesBack`). This is an argument about the shared
  cache: for each case at most one call is live (`OneLive`, from the lock per key of a
  cached function); what is cached or about to be is as new as anything anybody has
  seen, and as any answer still under way that a clearing has orphaned, until the
  session that brought the case further clears the cache (`LiveInv`); and an orphaned
  answer is as new as what its own session knew when it asked (`AnswerInv`). The
  exception in `LiveInv` is why a session that has resolved a case must clear the
  cache before it runs its script again.

Assumption: `DeskAssumption`.

### The model lifecycle

`ModelLifecycle_proofs` proves, for any requesters, promoters, versions, jobs and
faults, `TypeCorrect` for any number of workers, and for one worker (`OneWorker`)
whose answer to the commit that completes a job is not lost (`AnswersArrive`)
`FinishedJobsStay`, `EpisodesRunOnce`, `AuditsAreTrue` and `ChampionsPassedGates`.
`WorkerInv` is what one worker buys: the job it is at is RUNNING, and so are those it
is about to requeue. Hence jobs move only along `Moves`, back to QUEUED from RUNNING
alone. A promotion then stands on a job that stays finished and recommended while it
goes through, and the champion an undo returns to is one that passed (`PromotionInv`).
Between the SELECT and the INSERT of an automatic trigger its episode stays without a
run (`InsertInv`), because only the monitor sends such triggers and it sends one at a
time. Assumption: `LifecycleAssumption`.

### The drift monitor

`DriftMonitor_proofs` proves, for any segments, versions, labels, shifts and number of
reports: `TypeCorrect`, `JobsHaveEvidence` (`JobHasEvidence`), `SustainedDriftQueues`
(`SustainedDriftIsQueued`) and `OneJob` (`OneJobPerEpisode`). `IInv` says the same
thing twice (`Tables`): of the committed tables, which a failed cycle falls back to,
and of what the session sees, its own flushed rows included, which a committed cycle
leaves. Of each it says that every job has its evidence (`EvidenceIn`), that a model
has one job per trigger that has not failed (`OnceIn`), and (`QueuedIn`) that every
pair of consecutive reports in breach has a job of its model's, not only the latest
pair. `Follows` names two reports of one segment and version with none between; a new
report follows exactly the one it is compared with (`NewestIsFollowed`) and parts no
earlier pair (`FollowsStays`). Assumption: `MonitorAssumption`.

### Online scoring

`TrainingAndServing_proofs` proves, for any events, sessions, thresholds, windows,
model and length of the archive:

- `RulesOnlyEscalate` and `DecisionIsMonotone` of the decision function;
- `DecisionsAreNotDowngraded` (`NeverDowngraded`) and `BurstsAreHeld` (`BurstIsHeld`);
- `TrainingAgreesWithServing` (`TrainedAsServed`) and `LatenessOnlyHides`
  (`LateEventsOnlyHide`).

`ServingInv` says of each row, recorded or in the making, that it is `Sound`: its
decision follows from its probability and features, and its features are the ones the
*offline* computation gives for the part of its history that its session had read
(`ServedWith`, over `Known`). A row in the making is sound at the place it would get if
it were recorded next (`With`). `OnlineServes` is where the two implementations meet:
`Online` and `Offline` agree on the same rows. `OfflineIsLocal` says that the columns
of an event depend on no row but its own and those it is compared with, so that what
other sessions record, before it or after it, leaves them alone (`ServedStays`). The
theorems then only compare sets of rows: what was read precedes the event offline too
(`KnownPrecedes`), all of it that is not too old for the history query if nothing came
late, and a recorded burst is the online window, because the query reaches back far
enough (`WindowIsBurst`, which uses the assumption that no window is longer than
`HistoryDays`). What `BurstIsHeld` and `TrainedAsServed` leave out, requests at one
moment and events older than the query reaches, are findings 11 and 13.

Assumptions: `PolicyAssumption`, `WindowsAssumption`, `EventsAssumption`.

### Training

`TrainingAndServing_proofs` proves, for any frame, candidates, trials, outputs and
number of runs:

- `ThresholdsAreOptimal`: the scan of the grid (`optimize_thresholds`) comes out with
  an affordable pair of the grid, at its own cost, that no affordable pair undercuts,
  or with the default if none can be afforded. It holds for any rows; the run only
  meets those of its frame.
- `FirstBestIsBest`: `min()` over candidates takes one that none beats, and each
  before it has a better one. It needs `Better` to be a strict order
  (`BetterIsAnOrder`) and a least index.
- `TrainingTypeCorrect` (`TypeOK`). `ProgressInv` says in which phases there is room
  for another candidate; that a threshold pair is proper is `ThresholdsAreOptimal`.
- `NothingLooksAhead` (`NoLookAhead`). Which slices a model has seen is known phase by
  phase (`FittedInv`), so what an evaluation was for tells its rows (`UsesInv`), and
  that each slice ends where the next begins is arithmetic on the boundaries
  (`SlicesAreChronological`).
- `FilesAreOrdered` (`FilesBeforeAlias`), from the run each file is of at each phase
  (`FilesInv`).
- `MonitorReckonsAlike` (`MonitorAgreesWithTrainer`), for the production costs
  (`Production`, the literals of `evaluate_delayed_performance`). That the thresholds
  are integers and in order, and the tested rows labels, comes from `TrainingInv`.

Assumptions: `CostAssumption`, `TrainingAssumption`. The latter asks for at least one
baseline, one family and one trial: the candidates and the families are written out in
`candidate_models` and `tune_tree_models`, and the latter refuses fewer trials
(`tuning.py:44`). Without it `TypeOK` is false: a run without families would go on to
tune one.

### Sums and least elements

The costs and means are sums over sets, which the library defines by a recursive
function, and tlapm can cite no induction principle for an arbitrary predicate. Two
facts of the library without such a parameter are enough here: the natural numbers are
well founded, and a set has a minimal element for a well-founded relation
(`LeastExists`). So the sizes at which a claim fails are a set of natural numbers; if
it had a least element, the claim would hold below it and hence at it.
`PartialSumsExist` shows in this way that the recursive definition of the sum over a
finite set has a solution, and `SumIsNatural` and `CostIsNatural` follow. Maxima of
finite sets (`MaxExists`) come from `LeastExists` too.

### Model-checked only

Liveness under fairness and anything about ENABLED is out of the prover's reach:
`RequestFinishes`, `EveryEventPublished`, `TopicDrains`, `AlertIsExplained` and
`QueuedJobFinishes`. All other properties of the passing runs are theorems.

## Findings

Shown by a run:

1. `stream_lost`: a timed-out flush is taken for a delivery; a crash then loses a
   published event (`streaming.py:56`).
2. `drift_masked`: the drift policy returns at the first Jensen-Shannon metric, so
   shifts of velocity, merchant category and channel are not looked at
   (`lifecycle.py:78`).

Met while modelling; behaviours of the modules, for which no run is kept:

3. `update_alert` checks an unlocked row: two PATCHes can transition or relabel a
   resolved alert (`apps/api/main.py:413`; 428 answers "resolved alert cannot be
   transitioned or relabeled").
4. A resolution equal to the stale value its session loaded is not written, its label
   is (`apps/api/main.py:438`); it takes three analysts and five requests.
5. Two label posts at once can leave a label other than the last one announced.
6. An error in `outbox_loop` ends the thread; the process scores on and publishes
   nothing (`apps/worker/main.py:45`).
7. Two promotions of one job: the loser restores the alias from before the winner
   (`promotion.py:68`).
8. A promotion does not change `champion_version`, as the comment at `lifecycle.py:40`
   has it, until somebody replaces the artifact (`Deploy`). Nor is
   `artifacts/model_report.json` replaced, with which every later challenger and the
   monitor's assessment are compared; and `compare_reports` compares total costs of
   test slices that need not be of one size.
9. With fewer than a hundred rows in the window the monitor skips the performance
   assessment too (`monitor.py`).
10. A message that does not validate and whose Kafka key is not UTF-8 stops the worker
   for good: `raw_key.decode()` raises inside the handler (`apps/worker/main.py:159`),
   the process exits uncommitted and meets the message at every restart. The outbox
   thread ends with it each time, possibly between a publish and its commit, so a round
   may publish a batch again. The explainer decodes keys outside its try
   (`explainer.py:62`) and stops in the same way.
11. Requests of one user at the same moment evade the burst rule: each session reads the
   history before the others commit (`database.py:302`), and nothing locks the row of a
   user who is known. `BurstIsHeld` counts what was recorded when the history was read.
12. A commit that completes a job and whose answer is lost is handled as a failed
   training: the job becomes FAILED (`retraining/worker.py:73-80`), although its
   challenger is stored and may have been promoted meanwhile, and its episode is open
   for another run.
13. Online features see thirty days of history (`service.py:35`), those a model is
   trained on the whole data set (`training/data.py:110-128`): for a user with older
   transactions the average, the median and the known merchants differ.
14. The API asks for retraining in the name of the model it loaded at its start
   (`apps/api/main.py:57`, 635), the monitor in that of the artifact on disk: after a
   deployment without a restart of the API manual requests name the old champion.
15. An alias that a promotion has set before it dies, or whose answer is lost, stays,
   and no audit row tells of it (`promotion.py:42`).

## Plan

Done: the scoring store, its abstract specification and the refinement; the stream
pipeline; the alert workflow; the explainer; the dashboard's investigation of a case;
the model lifecycle; the decision policy, features and online scoring; the drift
monitor; training; proofs of every safety property that the passing runs check. Next,
in this order:

1. A reliable-outbox specification that `StreamPipeline` implements when no fault
   loses messages, in the way `ScoringStore` implements `ScoringLedger`.
2. `PromotionGates`: `compare_reports` over a succession of champions and reports, in
   place of the free choice in `ModelLifecycle`.

Not modelled, and why: the probability model, fitting, calibration and SHAP (numeric),
the PSI, KS and Jensen-Shannon statistics (real-valued), the download and cleaning of
the data, read-only API endpoints, the Streamlit dashboard's note, filters, charts and
other tabs, the Next.js front end (no state of their own that any step depends on),
configuration, logging, metrics and migrations (their keys and columns are in the
modules that use them), scripts and benchmarks.
