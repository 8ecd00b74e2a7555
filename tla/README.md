# Verification of the MoonCen crawler control plane

MoonCen collects course listings of many providers, stages them, and promotes
reviewed batches of them into a public course database.  The part of the
program that coordinates this (many hosts, several database roles, leases,
retries, approvals) lives in `src/mooncen/ops_agent`, `src/mooncen/tools` and
the triggers of `src/mooncen/DB`.  This directory holds TLA+ models of it, the
TLC configurations that check them, and TLAPS proofs about them.

## 1. Inventory

| component | state it keeps | operations | properties that make it correct | status |
|---|---|---|---|---|
| job queue: `ops_agent/crawler_worker.py`, `ops_agent/crawler_control_recovery.py`, triggers of `DB/staging_control_plane.sql` | `ops_jobs`, `ops_crawler_task_attempts`, task observations, `ops_crawler_runs`, fenced snapshots; the worker process and its child | claim, start, heartbeat, cancel, time out, finish, abandon, crash, restart; reap; staging writes; stop request | one holder per lease; sealed evidence never changes; exact retry budget; a stop holds; every lease ends | modelled, proved |
| scheduler and canary: `ops_agent/crawler_control_scheduler.py`, `tools/enqueue_crawler_canary.py` | `ops_crawler_batches`, batch tasks, jobs | enqueue a slot once, for providers without an active job | a slot is enqueued at most once; never two active jobs of a provider | modelled, proved |
| finalizer: `ops_agent/crawler_control_finalizer.py` | batch status, `crawl_batches` of staging | decide a batch, publish held evidence | a collected batch is complete and its evidence stable; sealed once; a settled batch is not starved | modelled, proved |
| approver: `tools/approve_crawler_control_batch.py` | promotion fields of a staging batch | approve reviewed evidence | only unchanged, reviewed, successful evidence is approved | modelled, proved |
| promotion: `tools/apply_staging_batch.py`, `tools/promote_latest_staging_batch.py`, `tools/run_pinned_staging_apply.py` | courses of the primary, apply log | look, dry run, pinned apply, forced apply | only approved batches are applied, by the timer once; the primary shows the newest applied one; the latest is not starved | partly, proved |
| release rollout: `tools/manage_crawler_release.py`, `ops_agent/crawler_release_control.py` | rollouts, generations, desired state, reports | create, wave, pause, complete, roll back | a wave goes out over proven ground only; the end of a rollout says what its active hosts have installed | partly, proved |
| release agent and reporter: `ops_agent/crawler_release_agent.py`, `ops_agent/crawler_release_reporter.py` | journals, `current` link, local state and report spool of a host | decide, switch, verify, undo, recover, report | wherever it is killed its files are recoverable; what was reported ready stays; a failure is never silent nor tried again | modelled, proved |
| release actions: `ops_agent/crawler_release_action_worker.py`, `backend/routers/crawler_releases.py`, the migrations of 20260812 | action requests, approval receipts | request, approve, lease, execute, probe, reconcile, reap | committed as approved, at most once; a success is one; what was begun gets an outcome | partly, proved |
| quality worker, deployment registry, course lifecycle | their own tables | see `PROJECT.json` | | later |
| parsers, AI enrichment, public API, clients, bots, deployment scripts | | | | not modelled: parsing, text, queries, user interfaces and shell |

The components interact through one PostgreSQL database: every arrow below is
a transaction that meets a row lock, an advisory lock or a trigger of another
component.

    scheduler/canary --jobs--> queue --terminal jobs + snapshots--> finalizer
        ^ reaper                 ^                                     |
        |                        | desired state                  held batch
    operator stop           release admin                             v
                             |  ^     ^              approver --> promotion --> primary
               desired state |  |     +-- release actions (request, approval)
                             v  |
                        agents  +-- reports

What is hard in it: workers are processes on other hosts that may be slow,
partitioned or dead while the database has already given their work away; the
child process that writes the data has database sessions of its own; decisions
are made twice, in Python and in a trigger; several roles write the same row by
different rules; an agent may be killed between any two of the files it writes;
and a consumer may not learn whether the transition it asked for was committed.

## 2. Plan

Modules in the order they are written; the later ones use only the promise of
the earlier ones.

1. `JobLifecycle` (abstract) and `CrawlerQueue` with its proofs: done.
2. `BatchLedger` (abstract) and `CrawlerBatches` with its proofs, over jobs
   that move along `JobLifecycle`: done.
3. `BatchPromotion` with its proofs, over the batches of `BatchLedger`: done.
4. `ReleaseHost` (abstract) and `ReleaseAgent` with its proofs: done.
5. `ReleaseRollout` with its proofs, over hosts that keep the promise of
   `ReleaseHost`: done.
6. `ReleaseActions` with its proofs: done.
7. `PrimaryCourses` (abstract), which `BatchPromotion` implements, and
   `RequestBook` (abstract), which `ReleaseActions` implements: done.
8. `CoursePipeline`, the composition of `CrawlerBatches` and `BatchPromotion`,
   with its proofs: done.
9. `LeaseTimer`: the worker's local lease deadline against the lease in the
   database, with clocks, statement timeouts and slow calls.
10. The quality queue, a second leased queue with a simpler life, and the course
   lifecycle as pure functions.

Theorems worth proving next: for 9 that a child is killed before its lease can
be given away, from bounds on the drift of clocks; and that `ReleaseActions`
moves a rollout only along `ReleaseRollout`.

## 3. The modules

### CrawlerQueue

The leased queue.  One action is one database transaction or one local step of
a worker between two transactions, so everything else may happen in between.

| variable | code |
|---|---|
| `job` | the row of `ops_jobs`: status, `agent_id`, `lease_token`, `lease_epoch` (= `attempt_no`), `retry_count`, `cancel_requested_at`, what is left of `leased_until` and of `available_at` |
| `attempt` | `ops_crawler_task_attempts` by (job, attempt number), with `closes`, the job status named by its one terminal observation |
| `run` | `ops_crawler_runs.status` |
| `snapshots` | which attempts have rows in the fenced snapshot tables |
| `writer` | the staging session that holds the job's row lock |
| `children` | crawler processes alive |
| `worker` | the local state of a worker process: where it is, the job and epoch it believes in, the `retry_count` it read at the claim, the outcome it is about to publish |
| `desired` | whether the desired state a claim must match is active for the release the worker runs |

| action | code |
|---|---|
| `LoadDesired`, `ClaimJob`, `ClaimNothing` | the polling loop of `main` and `_claim_job`, with the claim trigger |
| `RejectJob`, `MarkRunning`, `SpawnChild` | the head of `execute_job`, `_mark_running` |
| `Heartbeat`, `ObserveCancel`, `CommandTimeout` | one control check of the supervision loop |
| `ChildExits`, `ExecutionFails`, `FinishJob`, `Abandon` | its outcomes and `_finish_job` with the observation trigger |
| `Crash`, `OrphansDie`, `Restart` | the systemd unit of the pull worker |
| `BeginWrite`, `CommitWrite`, `AbortWrite` | a staging transaction of the child under `enforce_current_crawler_lease` |
| `RecoverStaleJobs` | `recover_stale_jobs`, one transaction for all lapsed leases |
| `RequestCancel` | `stop_crawler_run` |
| `SetDesired`, `Tick` | the release administrator; time |

What is abstracted: the environment filter (one environment), job parameters
(a job is valid or it is rejected), logs, counters, progress and timestamps
except the lease and the backoff.  `attempt_no` and `lease_epoch` are one
number because the same statement increments both and no other writes them.
A lease token is named by the epoch it was drawn at: tokens are fresh uuids.
A session that fails to commit is an abort.  `stop_crawler_run` has no route at
this commit, yet the worker, the reaper and the triggers all handle its effect,
so it is part of the model.  `_recover_stale_jobs` of the worker module is not
called outside tests; the scheduler's copy is the one modelled.  The job types
the API refuses in production and staging (diagnostics, parser probes) are left
out.

### JobLifecycle

What the other components may rely on, without workers: a job is absent,
queued, leased or done, has had a number of tries, may have a stop request,
and has evidence per try.  `CrawlerQueue!LifeOf` is the refinement mapping.

### CrawlerBatches

Planning, finalizing, reviewing and approving of batches, in one environment.
A planner's or finalizer's transaction is READ COMMITTED, so it is two steps,
the reads under the advisory lock and the writes with the commit; jobs move in
between.  The approver's transaction is SERIALIZABLE and locks the row: one
step.

| variable | code |
|---|---|
| `life` | the job of each slot and provider, as `JobLifecycle` describes it |
| `batch` | by slot, the row of `ops_crawler_batches`, the providers of its tasks, and its row of `crawl_batches`: status, `selected_attempts`, promotion policy |
| `planner`, `finalizer` | what an open transaction has read |
| `reviewed` | the dry-run documents: metadata and rows that the fingerprint covers |

| action | code |
|---|---|
| `Survey`, `Enqueue`, `PlannerFails` | `enqueue_schedule_slot`, which the canary tool calls with one provider |
| `JobStep` | what the queue does to a job |
| `LoadTasks`, `Postpone`, `Publish`, `FinalizerFails` | `finalize_once`, `decide_batch`, `_publish_staging_batch` |
| `Review` | `create_pinned_dry_run` |
| `Approve` | `approve_batch` and the trigger on promotion fields |

What is abstracted: the result document is the tries it selects; whether task
results, ownership and counts agree with each other is a choice (`sound`),
since they are data of the crawl.  Planners may name any slot: clocks of hosts
differ, and only the uniqueness of slots matters.  The finalizer takes the oldest
open batch with `SKIP LOCKED`, and a staging session of one of its jobs keeps the
batch's row locked through the foreign keys of the snapshot tables: `NextBatch` may
pass over a batch while one of its jobs is leased, and take a newer one
(`MayBeLocked`).  The scheduler's query also
looks for jobs of an aggregate that owns a provider; the expanded manifest
plans no such jobs.  `planning` is never written and `finalizing` never
committed.  Optional tasks and shards are columns no planner sets.  The unique
index on active deduplication keys is a guard of `Enqueue`: a violation is a
failed transaction.

### BatchLedger

What the promotion may rely on: a slot is opened once, is rejected or offered
with rows of complete tries of every provider, and is then only approved.
`CrawlerBatches!LedgerOf` is the refinement mapping.

### BatchPromotion

Runs of the timer's service and pinned applies of operators, over the batches
of `BatchLedger`.  A run is three processes, one after the other: the look, the
dry run, the apply.  The apply is one transaction on the primary under an
advisory lock that is tried, not waited for; all it reads of staging is one
REPEATABLE READ snapshot, so beginning (lock, snapshot, checks) and commit are
two steps.

| variable | code |
|---|---|
| `ledger` | the batches of the control plane in staging, as `BatchLedger` describes them |
| `primary` | by provider, the batch that wrote its courses last |
| `log` | the batches with a successful row of `crawl_batch_apply_logs` |
| `session` | a run: the batch it is about, the fingerprint of its dry-run document, the batch in its snapshot |

| action | code |
|---|---|
| `LedgerStep` | what planning, finalizing and approving do to a batch |
| `Look`, `DryRun` | `promote_latest_batch`, `create_pinned_dry_run` |
| `ReviewForActivation` | the dry run of an operator, of a held batch too |
| `BeginApply`, `CommitApply`, `GiveUp` | `main` of the apply: lock, snapshot and gate; courses and log; refusal, failure or death |

The courses of a provider are the name of the batch that wrote them: a control
plane batch replaces all or nothing of a provider.  Not modelled: batches that
are not of the control plane, their partial applies and `--promote-provider`;
the closing of missing courses, which no control-plane batch enables; and
`apply_ended_course_lifecycle`, which runs in the transaction of every apply and
closes and deactivates courses by their dates, whatever batch they came with.  A
batch that was approved and then superseded before any run looked is never applied;
the code wants it so.

### PrimaryCourses

What readers of the primary may rely on, without runs, documents and locks:
whole approved batches are taken over, each once, the older before the newer.
`BatchPromotion` implements it (`ImplementsCourses`) with the same variables;
`session` is invisible, and an apply that is forced to run again is a stutter.

### CoursePipeline

`CrawlerBatches` and `BatchPromotion` joined.  The code joins them in one place
only, the staging database: a run reads with its own queries what the batches'
components wrote.  So the composition shares no variable but what the ledger
entries show: `Promotion` is `BatchPromotion` over `LedgerOf(s)` of the real
batches, a step is a step of the batches or of one run, and `LedgerStep` of
`BatchPromotion` is not an action here but something to be shown.

| definition | says |
|---|---|
| `BatchesMove` | planner, workers, finalizer, review or approver move, as in `CrawlerBatches` |
| `RunMoves` | a run of the timer or an activation moves, as in `BatchPromotion` |
| `ImplementsPromotion` | the result is a behaviour of `BatchPromotion` |
| `PrimaryProvenance` | what the primary shows of a provider was collected whole, by the last try of a job that nobody stopped, and reviewed as it is |

### ReleaseHost, ReleaseAgent

`ReleaseHost` is what a rollout may rely on: a link moves only while some
ordered generation after the last one reported ready is open and wants another
release, and then only to a release ordered since; ready is reported for an
open generation whose release is linked.

`ReleaseAgent` is one host.  The agent is started by a timer, writes one file
at a time and may be killed between any two writes, so one action is one
durable write.

| variable | code |
|---|---|
| `orders` | by generation, the row of `ops_crawler_worker_desired_state` as it was published |
| `agent` | the running process: where it is, whether it deploys, undoes or recovers, the generation of its document |
| `link` | the `current` symlink |
| `local`, `journal`, `failure` | `local-state.json`, the pending-switch and the terminal-failure journal |
| `worker` | the pull worker: the release it runs, its status file, its drain announcement |
| `spool`, `reports` | reports not ingested, and those the control plane has |

| action | code |
|---|---|
| `NewOrder`, `SetStatus` | the administrator: a rollout created or advanced; a desired status changed by hand |
| `WorkerPolls`, `WorkerRestarts`, `StatusAges` | the worker's loop and unit, the freshness of its status file |
| `Start`, `Crash`, `Refuse` | a run of the timer, with any document published so far; a kill or time-out; a document refused |
| `ResumeFailure`, `ForgetCommitted`, `RestorePrevious` | `recover_terminal_failure`, `recover_pending_switch` |
| `NoteBlocked`, `NoteHealthy`, `NoteDrifted`, `ReportNoted` | `reconcile_apply` when nothing is deployed |
| `WriteJournal`, `LinkTarget`, `RestartWorker`, `Activate`, `CloseJournal` | a deployment |
| `ActivationFails`, `SaveRestored`, `ReportRestored`, `ClearRestored`, `RestoreFails`, `SaveStranded` | its failure, undone or not |
| `PrepareFails`, `SaveFailure`, `ReportFailure`, `ClearFailure` | a release that cannot be prepared |
| `Ingest` | one file of `flush_spool` |

Download, signature and extraction are one step that succeeds or fails.  The
document is fetched before the lock is taken, so a run starts with any
generation published.  `draining` is set by no tool of the repository, only by
an administrator in SQL; the agent and the worker both handle it, so it is part
of the model.  Outside production and staging the worker does not compare its
release with the desired state (`Production` FALSE); the reporter's part of the
model is of interest in production only.  The modes `check` and `dry-run` write
nothing.

### ReleaseRollout

The administrator's rollouts over hosts that keep the promise of `ReleaseHost`:
`Host(w)` is the instance of host w, its guards are the guards of the hosts'
steps, and `PromiseKept` says that every host is one.

| variable | code |
|---|---|
| `epoch`, `rollout` | `rollout_epoch` and the latest row of `ops_crawler_release_rollouts`, with the workers not disabled (`enabled`) and those the snapshots of the last transition show active (`roster`) |
| `draining` | the rows of the desired state whose status is `draining` |
| `orders` | the desired states and worker snapshots the rollouts published |
| `link`, `ready` | the hosts |
| `heard` | the last ingested report of a host about the current generation |

| action | code |
|---|---|
| `Create`, `Advance` | `create_rollout`, `advance_rollout`, one SERIALIZABLE transaction each under the administrators' lock |
| `MoveLink`, `ReportReady` | what `ReleaseHost` lets a host do |
| `Drain`, `Reactivate` | an administrator sets a row from active to draining, or back |
| `Hear` | `ingest_report`; whether a report is fresh enough is a choice |

A transition looks at active rows only (`Active`): a worker that drains is not asked
for its report (`Proven`), does not count as moved (`Targeted`), and gets the
baseline ordered, whatever it had.  The published document is another matter: there
it is enabled, and a completion without it is refused by `parse_desired_state`
(`Publishable`), so that generation reaches no host.  A rollout may therefore be
completed, or wait paused to be rolled on, over fewer workers than it has, or over
none; the properties say what is left.  `WavesProven` is about the workers a
transition kept on the target, `EndMeansInstalled` about the roster of the end,
and `WavesFromCanaries` about what a wave starts from.

Not modelled: registering and publishing artifacts (files and signatures), and
what else an administrator changes by hand, disabling a worker among it (the
enabled workers of a rollout are those of its creation).

### ReleaseActions

The queue between the operations console and the rollouts.  The lease fences
the row of a request; the transition is another transaction, fenced by the
generation the request expects.

| variable | code |
|---|---|
| `row` | `ops_crawler_release_action_requests` with the receipt of `ops_crawler_release_action_approvals` |
| `history` | the committed transitions of the rollout, by generation, and who asked for them |
| `consumer` | a process of the action worker: its lease, the error it met, the outcome it is about to write |

| action | code |
|---|---|
| `File`, `Approve`, `ReceiptExpires` | `request_release_action`, `approve_crawler_release_action`, the expiry the claim and its trigger test |
| `OperatorAdvances` | the same transition by the administrator's tool, or by another request |
| `Claim`, `Lapse`, `Reap` | `claim_next`, a lease not renewed in time, `reap_expired` |
| `Look` | `reconcile_action` in a read-only lease, the head of `dispatch_action` in any other |
| `Mutate`, `MutateFails` | `create_rollout` or `advance_rollout`, with the answer of the commit lost or not; refused or failed |
| `Probe`, `End`, `EndRaises`, `Drop` | `_probe_committed_action`; the five completions; a first completion that raises, so that the rollout is looked at again; death, a lost lease or a handler that fails |

One rollout, whose creation is generation 1.  A `move` is what the evidence of a
transition consists of: phase, workers, artifacts.  The conditions of a
transition (`ReleaseRollout` has them) are a refusal that may come.  The request's
digest, idempotency key, confirmation and the requester's role are checks of
data; `build` and `register_artifact` are never claimed.  A commit that
outlives its process and its lease is a consumer that is slow to stop.

### RequestBook

What requester, approver and administrator may rely on, without consumers: a
request is filed, approved and ended once, commits after its approval what was
filed in its own generation, and a success is a transition of the rollout.
`EntryOf` maps a row to it: queued and leased are one (`open`), attempts, leases
and `reconcile_only` are invisible.  It says nothing of what a request that
ended otherwise did: its transition may be there or still come, which is the
finding below.

## 4. The runs

The `MC` modules give the constants small values; a bound is a constant of the
model.

| run | instance | what it shows |
|---|---|---|
| `queue_handover` | one job, two workers, one retry | every invariant, the action properties, the refinement of `JobLifecycle` and both liveness properties, while the job passes between workers through crashes, lapsed leases, late results, drained sessions, disabled workers and stop requests |
| `queue_partial` | one job, one worker | finding: partial collections |
| `batch_retries` | a daily batch and a canary of one provider, two planners, two finalizers, a retry | a survey stays true until its batch is written, a decision outlives the jobs' moves, sealed evidence those of late rows, and a settled batch is sealed |
| `promotion_races` | three slots, two providers, the timer, one activation | `PrimaryCourses` is implemented, the timer applies no batch twice, and a batch that stays the latest is applied |
| `course_pipeline` | a daily batch of two providers, a canary of one of them, the timer | from the first job to the last upsert: what is collected is complete, what is approved was reviewed, what the primary shows is both, and `BatchPromotion` is implemented |
| `agent_crashes` | three releases, one of them broken, two generations, no release check | every crash point of a switch and of its undoing: recoverable files, evidence of failures, no second try, the promise of `ReleaseHost`, and every switch ends |
| `agent_production` | two releases, with the release check | no order changes the release of a production host |
| `agent_drain` | the same, fair | finding: the drain is never announced |
| `agent_reports` | the same, fair | finding: the spool is blocked |
| `rollout_waves` | two hosts that are drained and reactivated at any time, five generations | waves over proven ground, honest ends, no wave without its canaries |
| `actions_executed` | one request of two attempts, an administrator, two consumers, three generations | `RequestBook` is implemented, and what was begun gets an outcome |
| `actions_failed` | the same with one consumer, two generations | finding: failed, although committed |

Why the bounds are enough.  Two holders of one job are the most that can
disagree; a retry makes every hand-over possible; leases of two ticks make a
tick that does not lapse a lease differ from one that does.  Several jobs meet
only in the reaper's transaction and in one worker's loop; the proofs have any
number of them.  A batch of two providers has every mixture of outcomes
`decide_batch` tells apart, and two slots are the two batches that can compete
for a provider or for the finalizer.  With three slots a run may be about an
older batch than the last applied and a newer one still come.  The pipeline has
no retry and no activation: `batch_retries` and `promotion_races` have them, and
what it adds is about batches of several providers and who read them when.
Providers are interchangeable there, and no property of that run is about
liveness.  Two generations
are an order and the one that replaces it while a switch is under way; with a
broken release one of them has to be undone.  Five generations hold a rollout
with a pause or a return to the canaries, its completion and the start of its
rollback, or a whole rollback and the beginning of the next rollout.  Two attempts (the code: five) are one that is retried and
the last one; two consumers are a holder and one that lost the lease; three
generations let the rollout be ahead of, at and beyond the one a request wants.
The proofs cover every other size.  Runs with `CHECK_DEADLOCK FALSE` are those
whose system may stop: generations are bounded, and batches, requests and jobs
end.

Fairness.

- Queue.  `Tick`: time passes.  `RecoverStaleJobs`: the scheduler's loop calls
  the reaper every poll whatever else fails.  `CommitWrite \/ AbortWrite`: a
  database session ends (statement and idle timeouts).  `CommandTimeout`: a
  worker that keeps renewing a lease runs the loop that tests the timeout
  first; one that does not loses the lease.  Workers and children may stop
  anywhere.
- Batches.  The finalizer polls (`WF` of its steps) and a transaction that is
  tried again and again commits at last (`SF` of `Postpone \/ Publish`).
  Planners and jobs may stop for good.
- Promotion.  The timer starts its service every hour (`WF`); a step it tries
  again and again succeeds at last (`SF`): the lock is held for a bounded time
  because the service's and the session's timeouts end every apply.  Nothing is
  assumed of operators but that an apply they began ends.
- Agent.  The timers start agent and reporter, the worker polls, and faults
  cease at last (`<>[][~Fault]_vars`): no switch ends on a host that is killed
  in each of its runs.
- Actions.  Consumers poll and their calls return or fail; a lease nobody renews
  lapses; the reaper runs at the head of every round.  Consumers may die at
  every step.

### Findings

Partial collections (`PartialConsumesBudget`).  The worker gives a partial
collection a retry, as `docs/distributed-crawler-control-plane.md` says, but the
trigger on its terminal observation accepts `queued` and `dead_lettered` only
from a failed or timed-out attempt.  The transaction is rolled back, the worker
drops the job, and the lease has to lapse before the reaper records
`lease_lost`.

The drain (`DrainAnnounced`).  In production and staging the worker compares its
release with the desired state before it looks at the desired status, and dies
of the difference.  A drain for another release is thus never announced, and the
agent, which waits for the announcement, never switches.  What is left of the
rollout is `NoSwitchInProduction`, checked and proved.  Development hosts, without the comparison,
are the ones `agent_crashes` is about; its properties are those a production host
would have with the comparison mended.

The spool (`ReportsArrive`).  A report of a generation that is not the newest any
more is refused, and the refusal ends the flush; files are taken in the order of
their names, so it stands in front of every later report.

Failed, although committed (`FailedMeansUncommitted`).  When the answer of a
commit is lost and, by the time of the look that follows, the rollout went on or
a worker of the fleet is not healthy, the look says conflict, and the request is
reported as failed.  `docs/ops-console-crawler-lifecycle.md` promises
`reconciliation_required` for what cannot be proved.

Draining is no run of its own, but the model of the rollouts shows where the code
and `docs/crawler-desired-state-rollout.md` part.  The document counts workers that
drain as enabled (lines 52-56) and wants a complete rollout to target every enabled
worker, and canaries not to be moved back silently (lines 66-70).  A transition
counts active workers only: with the only host of a rollout draining, `complete` is
committed without a report and sets its row back to the baseline, and so does a
pause.  The publisher then refuses the document of such a completion, so the row
says `success` while hosts keep the generation before.  And the step from `paused`
to `rolling` is there for resuming (lines 77-78), but while any active worker has
the target ordered it cannot be taken, since a paused document lets no host report
ready; with none it can, and needs no evidence (`WavesFromCanaries`).

## 5. The proofs

Every theorem is for any values of the constants that satisfy the assumption of
its module (`QueueAssumption`, `BatchAssumption`, `PromotionAssumption`,
`AgentAssumption`, `RolloutAssumption`, `ActionsAssumption`,
`PipelineAssumption`: a run is of the timer or of an operator, not of both); no
other assumption is made.

`CrawlerQueue_proofs` proves every invariant and action property the runs check,
that a terminal job never changes and a stop request is never lost
(`TerminalIsFinal`, `CancelHolds`), and that the queue implements
`JobLifecycle`.  The invariant the runs check is not inductive in parts: that a
staging session belongs to the holder (`WriteFenced`) is kept by a finish only
if the finishing worker is the holder, which needs that a worker in possession
of a lease has the epoch of a claim it made (`WorkerShape`), that a row names an
agent exactly from its first claim on (`JobShape`), and that a child belongs to
the attempt of the worker that supervises it (`ChildOwned`).  `QueueInv` is the
conjunction; `QueueSafety` proves it with one lemma per action and, for the four
kinds of row changes (claim, settle, drop, recover), one lemma they share.  The
action properties follow from `QueueInv` step by step.  The refinement needs
`StopSeen` besides: a worker that settled on `cancelled` saw the request.

`CrawlerBatches_proofs` proves type correctness, every safety property of the
batch runs, that a provider never has two active jobs (`OneActivePerProvider`:
lock and index each suffice, so no single fault in the model breaks it and no
run lists it), and that the three parts implement `BatchLedger`.  That a
decision outlives the jobs' moves (`DecisionHolds`) is inductive only with the
shape of lives: an ended job has no further step (`StepsSane`).  From it follow
the facts sealed by `Publish` (`SealFacts`), and because jobs of a sealed batch
have ended (`SealedOver`) nothing the batch names can move, which is
`EvidenceFrozen`.  The two theories meet in `JobLifecycle`:
`QueueRefinesLifecycle` says the queue moves jobs that way, `JobsKeepLifecycle`
that batches add nothing else.

`BatchPromotion_proofs` proves every safety property of promotion, and that no
provider's courses ever go back to an older batch (`ForwardPrimary`).  The
strengthening is about a run that writes (`SessionFacts`): it is alone, its
snapshot still is the truth (an approved batch has no further step), and no
newer batch is in the log.  The same facts make the runs invisible
(`RunsInvisible`): every step but a commit changes nothing of `PrimaryCourses`,
and a commit is a `TakeOver`, unless its batch is in the log already.  Then it is
the newest there, so the primary shows it wherever it has rows
(`NewestIsShown`), and writing it again is a stutter.  `LedgerUntouched` is the
other direction of the interface: promotion asks nothing of the batches that
`BatchLedger` does not allow.

`CoursePipeline_proofs` has no invariant of its own.  `BatchInv` carries over,
since the runs leave the batches alone (`PipelineBatches`); with it every step of
the batches is a step of the ledger or none (`LedgerStep` of
`CrawlerBatches_proofs`), which is what `BatchPromotion` wants of them, so
`PipelinePromotes`.  Then the theorems of `BatchPromotion_proofs` are used for the
real batches, through `Proved`, an instance of that module with the same
substitution; its assumption on the constants is proved (`PromotionConstants`), not
assumed again.  `Promotion` and `Proved` are two instances of one module, so the
lemmas `SameSteps`, `SamePromotion` and `SameCourses` write their operators out
and find them equal.  `ProvenanceHolds` needs both invariants: promotion's, that
what the primary shows is of an approved batch with rows of the provider, and the
batches', what that batch must have gone through.  `PipelineTakesOver` is the end
of the chain: with `QueueRefinesLifecycle`, jobs, batches, ledger and primary are
linked by proofs, each over the promise of the one before.

`ReleaseAgent_proofs` proves every safety property of the host and that it
implements `ReleaseHost`.  `AgentInv` says what the files mean to each other: a
pending switch is either not recorded (`Before`) or recorded, linked and running
(`After`), with nothing in between that recovery would have to guess; no report
is ahead of the local state except about the switch that is pending, and none
says ready ahead of what was applied (`EvidenceFacts`).  The last is what the
refinement needs: a link that moves moves for a generation after the last one
reported ready.

`ReleaseRollout_proofs` proves every property of the rollouts, and `PromiseKept`.
`StaysOn(w, r)` is the point: a host that was ordered r twice in a row and
reported the first of them can do nothing any more but stay on r, crashes and
late agents included.  Draining touches neither orders nor links, so what was
proven of a worker outlives it; only what the next transition asks changes
(`DrainInv`).  `WavesFromCanaries` has an invariant of its own, `WaveInv`: while a
rollout is paused no host can report the current generation, and in canary or
rolling phase every canary has the target ordered, so that one that is active is
asked.

`ReleaseActions_proofs` proves the safety of the action queue, among it that only
what was approved is committed (`CommitsApproved`) and that a success is one
(`SuccessHonest`).  `RowSound` and `AtWork` say that what was begun was approved,
and that a consumer about to report a success has the transition in the history,
where it stays.  `ConsumersInvisible` proves from the same invariant, action by
action, that the queue implements `RequestBook`.  That a row is ended only after
its approval needed one more conjunct of `RowSound`: a leased row has an attempt,
and attempts come after approvals.  An approval that expires stays one in the
book: it was given, and what was begun under it may go on.

Some invariants are theorems without a run of their own: `PrimaryMatchesLog`,
`CommitsAsApproved` and `SuccessEvident`, whose place in the runs the refinements
`ImplementsCourses` and `ImplementsBook` have taken; `ImplementsLedger`, which
follows from `ImplementsPromotion` (`LedgerUntouched`); `NeverBack` and
`OneActivePerProvider`.

Only model-checked: liveness (`LeaseEnds`, `CancelHonoured`, `BatchSettles`,
`LatestReachesPrimary`, `JournalSettles`, `RequestsEnd`), which is out of the
prover's reach, and the findings.

## 6. Not modelled

`PROJECT.json` lists every component.  Parsers, AI enrichment, the public API,
analytics, web and mobile clients, bots and deployment scripts are text, queries,
user interfaces and shell: most of the repository by lines, and without a
protocol between actors.  The quality queue, the deployment registry, the health
metrics and the course lifecycle are within reach and next in the plan.  What
is left out of a modelled component is named in section 3.
