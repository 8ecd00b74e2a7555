---------------------------- MODULE CrawlerQueue ----------------------------
(***************************************************************************)
(* The leased job queue of the distributed crawler control plane.          *)
(*                                                                         *)
(* Crawler workers (ops_agent/crawler_worker.py) claim rows of ops_jobs    *)
(* under a lease, run one reviewed child process per attempt, renew the    *)
(* lease while the child runs, and seal the attempt.  The scheduler's      *)
(* reaper (ops_agent/crawler_control_recovery.py) recovers lapsed leases.  *)
(* The child writes staging rows through its own database sessions, which  *)
(* the triggers of DB/staging_control_plane.sql fence with the lease.      *)
(*                                                                         *)
(* One action is one database transaction, or one local step of a worker   *)
(* between two transactions; anything may happen between two actions.      *)
(* Time is counted in ticks: a lease and a retry backoff are what is left  *)
(* of them.  attempt_no and lease_epoch are incremented together and only  *)
(* by a claim, so `epoch' stands for both; a lease token is a fresh uuid   *)
(* per claim and is named by the epoch it was drawn at, NoLease is NULL.   *)
(***************************************************************************)
EXTENDS Naturals, FiniteSets

CONSTANTS Jobs,          \* rows of ops_jobs of one environment
          Agents,        \* enrolled crawler worker agents
          NoJob, NoAgent,
          MaxRetries,    \* ops_jobs.max_retries
          LeaseTicks,    \* OPS_CRAWLER_LEASE_SECONDS
          BackoffTicks   \* an upper bound of the retry backoff

ASSUME QueueAssumption ==
    /\ NoJob \notin Jobs
    /\ NoAgent \notin Agents
    /\ MaxRetries \in Nat
    /\ LeaseTicks \in Nat \ {0}
    /\ BackoffTicks \in Nat \ {0}

NoLease == 0
Epochs == 1 .. (MaxRetries + 1)

LeasedStatus == {"assigned", "running"}
TerminalStatus == {"success", "partial_success", "failed", "cancelled",
                   "timed_out", "blocked", "dead_lettered"}
JobStatus == {"queued"} \cup LeasedStatus \cup TerminalStatus
SealedStatus == {"success", "partial_success", "failed", "timed_out",
                 "cancelled", "lease_lost"}
RunStatus == {"queued", "running", "stopping", "success", "partial_success",
              "failed", "cancelled", "blocked"}
FinalStatus == {"success", "partial_success", "failed", "timed_out",
                "cancelled", "blocked"}

VARIABLES
    job,        \* ops_jobs
    attempt,    \* ops_crawler_task_attempts with its terminal observation
    run,        \* ops_crawler_runs.status
    snapshots,  \* fenced snapshot evidence, by the attempt that wrote it
    writer,     \* epoch of the staging session that holds the job's row lock
    children,   \* crawler child processes alive, by the attempt they work for
    worker,     \* local state of each worker process
    desired     \* is the worker's desired state active, for the release it runs?

dbVars == <<job, attempt, run>>                  \* what the worker's transactions write
envVars == <<snapshots, writer, children, desired>>
vars == <<job, attempt, run, snapshots, writer, children, worker, desired>>

Job == [status : JobStatus, agent : Agents \cup {NoAgent},
        token : {NoLease} \cup Epochs, epoch : {0} \cup Epochs,
        retry : 0 .. MaxRetries, cancel : BOOLEAN,
        lease : 0 .. LeaseTicks, wait : 0 .. BackoffTicks]

\* `closes' is the job status the attempt's single terminal observation names.
Attempt == [status : {"none", "running"} \cup SealedStatus,
            agent : Agents \cup {NoAgent},
            closes : {"none"} \cup JobStatus]

\* `ready' has read an active desired state, `claimed' holds a lease, `started'
\* marked it running, `busy' supervises a child, `done' knows the outcome.
Worker == [pc : {"idle", "ready", "claimed", "started", "busy", "done", "down"},
           job : Jobs \cup {NoJob}, epoch : {0} \cup Epochs,
           retry : 0 .. MaxRetries, final : FinalStatus \cup {"none"},
           retryable : BOOLEAN]

FreshJob == [status |-> "queued", agent |-> NoAgent, token |-> NoLease,
             epoch |-> 0, retry |-> 0, cancel |-> FALSE, lease |-> 0, wait |-> 0]
NoAttempt == [status |-> "none", agent |-> NoAgent, closes |-> "none"]
AtRest(pc) == [pc |-> pc, job |-> NoJob, epoch |-> 0, retry |-> 0,
               final |-> "none", retryable |-> FALSE]

Init ==
    /\ job = [j \in Jobs |-> FreshJob]
    /\ attempt = [x \in Jobs \X Epochs |-> NoAttempt]
    /\ run = [j \in Jobs |-> "queued"]
    /\ snapshots = {}
    /\ writer = [j \in Jobs |-> NoLease]
    /\ children = {}
    /\ worker = [a \in Agents |-> AtRest("idle")]
    /\ desired = [a \in Agents |-> "active"]

-----------------------------------------------------------------------------
(* What the statements and the triggers look at.                           *)

\* A definition marked `Mutant' is a fault the checks must notice: put in the
\* place of the definition that follows it, it breaks the property PROJECT.json
\* names for it.

\* Mutant: the row lock is not taken, or not waited for.
UnlockedAlways(j) == j \in Jobs

\* A staging session holds the job row FOR UPDATE; other writers wait for it
\* and the queue scans of the workers and of the reaper skip the row.
Unlocked(j) == writer[j] = NoLease

\* Mutant: the statements check the status but not whose lease it is.
FencedByStatus(a, statuses) ==
    /\ worker[a].job \in Jobs
    /\ job[worker[a].job].status \in statuses

\* The WHERE clause every worker statement repeats.
Fenced(a, statuses) ==
    LET w == worker[a] IN
    /\ w.job \in Jobs
    /\ job[w.job].token = w.epoch
    /\ job[w.job].epoch = w.epoch
    /\ job[w.job].agent = a
    /\ job[w.job].status \in statuses
    /\ job[w.job].lease > 0

\* Mutant: the worker may go on after a cancellation request.
CancelGateOpen(j, status) == TRUE

\* enforce_crawler_worker_job_transition: once a cancellation is requested a
\* worker may only write the status `cancelled'.
CancelGate(j, status) == job[j].cancel => status = "cancelled"

\* enforce_crawler_worker_observation_insert, for the kind `finished'.
ObservationGate(sealed, closes) ==
    CASE closes \in {"queued", "dead_lettered"} -> sealed \in {"failed", "timed_out"}
      [] closes = "blocked" -> sealed = "failed"
      [] OTHER -> closes = sealed

\* Mutant: the run shows the job's status untranslated.
RunOutcomeRaw(status) == status

RunOutcome(status) ==
    IF status \in {"failed", "timed_out", "dead_lettered"} THEN "failed" ELSE status

Holding(a) == worker[a].pc \in {"claimed", "started", "busy", "done"}

\* Mutant: the worker moves on while its child lives.
LeavesChild(a) == UNCHANGED children

KillsChild(a) == children' = children \ {<<worker[a].job, worker[a].epoch>>}
Settles(a, final, retryable) ==
    worker' = [worker EXCEPT ![a].pc = "done", ![a].final = final,
                             ![a].retryable = retryable]
GoesIdle(a) == worker' = [worker EXCEPT ![a] = AtRest("idle")]

-----------------------------------------------------------------------------
(* The worker between two jobs.                                            *)

\* The release administrator disables a worker, or moves its desired state to
\* another release than the one it runs; or the other way round.
SetDesired(a) ==
    /\ desired' = [desired EXCEPT ![a] = IF @ = "active" THEN "disabled" ELSE "active"]
    /\ UNCHANGED <<dbVars, snapshots, writer, children, worker>>

\* One turn of the polling loop reads the desired state; the claim comes later
\* and in another transaction.
LoadDesired(a) ==
    /\ worker[a].pc = "idle"
    /\ desired[a] = "active"
    /\ worker' = [worker EXCEPT ![a] = AtRest("ready")]
    /\ UNCHANGED <<dbVars, envVars>>

\* Mutant: the claim trusts the desired state the loop read earlier.
ClaimCompatibleUnchecked(a) == TRUE

\* enforce_crawler_worker_job_transition reads the desired state again.
ClaimCompatible(a) == desired[a] = "active"

Claimable(j) ==
    /\ job[j].status = "queued"
    /\ job[j].wait = 0
    /\ ~job[j].cancel
    /\ Unlocked(j)

\* The job row, its attempt and the `claimed' observation are one transaction.
ClaimJob(a, j) ==
    LET e == job[j].epoch + 1 IN
    /\ worker[a].pc = "ready"
    /\ Claimable(j)
    /\ ClaimCompatible(a)
    /\ job' = [job EXCEPT ![j].status = "assigned", ![j].agent = a,
                          ![j].token = e, ![j].epoch = e, ![j].lease = LeaseTicks]
    /\ attempt' = [attempt EXCEPT ![<<j, e>>] =
                      [status |-> "running", agent |-> a, closes |-> "none"]]
    /\ worker' = [worker EXCEPT ![a].pc = "claimed", ![a].job = j, ![a].epoch = e,
                                ![a].retry = job[j].retry]
    /\ UNCHANGED <<run, envVars>>

\* Nothing to claim, or the triggers reject the claim because the desired state
\* changed after the worker read it.
ClaimNothing(a) ==
    /\ worker[a].pc = "ready"
    /\ ClaimCompatible(a) => \A j \in Jobs : ~Claimable(j)
    /\ GoesIdle(a)
    /\ UNCHANGED <<dbVars, envVars>>

-----------------------------------------------------------------------------
(* The worker while it executes a job.                                     *)

\* The job's parameters fail validation before anything runs.
RejectJob(a) ==
    /\ worker[a].pc = "claimed"
    /\ Settles(a, "blocked", FALSE)
    /\ UNCHANGED <<dbVars, envVars>>

MarkRunning(a) ==
    LET j == worker[a].job IN
    /\ worker[a].pc = "claimed"
    /\ Unlocked(j)
    /\ IF Fenced(a, {"assigned"}) /\ CancelGate(j, "running")
       THEN /\ job' = [job EXCEPT ![j].status = "running", ![j].lease = LeaseTicks]
            /\ run' = [run EXCEPT ![j] = "running"]
            /\ worker' = [worker EXCEPT ![a].pc = "started"]
            /\ UNCHANGED attempt
       ELSE GoesIdle(a) /\ UNCHANGED dbVars
    /\ UNCHANGED envVars

SpawnChild(a) ==
    /\ worker[a].pc = "started"
    /\ worker' = [worker EXCEPT ![a].pc = "busy"]
    /\ children' = children \cup {<<worker[a].job, worker[a].epoch>>}
    /\ UNCHANGED <<dbVars, snapshots, writer, desired>>

\* The heartbeat of one control check; a lost fence, or a cancellation that
\* arrives after the check looked for one, stops the child.
Heartbeat(a) ==
    LET j == worker[a].job IN
    /\ worker[a].pc = "busy"
    /\ Unlocked(j)
    /\ IF Fenced(a, LeasedStatus) /\ CancelGate(j, "running")
       THEN /\ job' = [job EXCEPT ![j].lease = LeaseTicks]
            /\ UNCHANGED <<worker, children>>
       ELSE /\ GoesIdle(a)
            /\ KillsChild(a)
            /\ UNCHANGED job
    /\ UNCHANGED <<attempt, run, snapshots, writer, desired>>

ObserveCancel(a) ==
    /\ worker[a].pc = "busy"
    /\ Fenced(a, LeasedStatus)
    /\ job[worker[a].job].cancel
    /\ KillsChild(a)
    /\ Settles(a, "cancelled", FALSE)
    /\ UNCHANGED <<dbVars, snapshots, writer, desired>>

CommandTimeout(a) ==
    /\ worker[a].pc = "busy"
    /\ Fenced(a, LeasedStatus)
    /\ ~job[worker[a].job].cancel
    /\ KillsChild(a)
    /\ Settles(a, "timed_out", TRUE)
    /\ UNCHANGED <<dbVars, snapshots, writer, desired>>

\* A child that reports success has ended its staging sessions; one that fails
\* may leave a COMMIT on its way to the database.
ChildExits(a, final) ==
    LET w == worker[a] IN
    /\ w.pc = "busy"
    /\ final # "failed" => writer[w.job] # w.epoch
    /\ KillsChild(a)
    /\ Settles(a, final, final \in {"failed", "partial_success"})
    /\ UNCHANGED <<dbVars, snapshots, writer, desired>>

\* The two catch-all handlers: a rejected task result is final, any other
\* exception is retried.
ExecutionFails(a, retryable) ==
    /\ worker[a].pc \in {"started", "busy"}
    /\ KillsChild(a)
    /\ Settles(a, "failed", retryable)
    /\ UNCHANGED <<dbVars, snapshots, writer, desired>>

\* _finish_job: the job status it writes for the worker's outcome.
Persisted(w) ==
    CASE w.retryable /\ w.retry < MaxRetries -> "queued"
      [] w.retryable /\ w.retry >= MaxRetries -> "dead_lettered"
      [] OTHER -> w.final

\* Mutant: a requeue does not count against the retry budget.
RequeueUncounted(r) ==
    [r EXCEPT !.status = "queued", !.agent = NoAgent, !.token = NoLease,
              !.lease = 0, !.wait = BackoffTicks]

Requeue(r) ==
    [r EXCEPT !.status = "queued", !.agent = NoAgent, !.token = NoLease,
              !.retry = r.retry + 1, !.lease = 0, !.wait = BackoffTicks]
Terminate(r, status) == [r EXCEPT !.status = status, !.token = NoLease, !.lease = 0]

\* _finish_job: run, attempt, observation and job in one transaction.  A fence
\* or a trigger that fails rolls all of it back; the worker then drops the job
\* either way.
FinishJob(a) ==
    LET w == worker[a]
        j == w.job
        closes == Persisted(w)
        sealed == IF w.final = "blocked" THEN "failed" ELSE w.final
    IN
    /\ w.pc = "done"
    /\ Unlocked(j)
    /\ IF /\ Fenced(a, LeasedStatus)
          /\ CancelGate(j, closes)
          /\ ObservationGate(sealed, closes)
       THEN /\ job' = [job EXCEPT ![j] = IF closes = "queued" THEN Requeue(@)
                                         ELSE Terminate(@, closes)]
            /\ attempt' = [attempt EXCEPT ![<<j, w.epoch>>].status = sealed,
                                          ![<<j, w.epoch>>].closes = closes]
            /\ run' = [run EXCEPT ![j] = RunOutcome(closes)]
       ELSE UNCHANGED dbVars
    /\ GoesIdle(a)
    /\ UNCHANGED envVars

\* A database error, the local lease deadline or a disabled agent: the worker
\* stops its child and publishes nothing.
Abandon(a) ==
    /\ Holding(a) \/ worker[a].pc = "ready"
    /\ KillsChild(a)
    /\ GoesIdle(a)
    /\ UNCHANGED <<dbVars, snapshots, writer, desired>>

-----------------------------------------------------------------------------
(* The worker's host.                                                      *)

\* The worker dies without stopping its child.
Crash(a) ==
    /\ worker[a].pc # "down"
    /\ worker' = [worker EXCEPT ![a] = AtRest("down")]
    /\ UNCHANGED <<dbVars, envVars>>

ChildrenOf(a) == {x \in children : attempt[x].agent = a}

\* KillMode=control-group: the service manager kills what the worker left.
OrphansDie(a) ==
    /\ worker[a].pc = "down"
    /\ ChildrenOf(a) # {}
    /\ children' = children \ ChildrenOf(a)
    /\ UNCHANGED <<dbVars, snapshots, writer, worker, desired>>

\* Restart=always, once the control group is empty.
Restart(a) ==
    /\ worker[a].pc = "down"
    /\ ChildrenOf(a) = {}
    /\ GoesIdle(a)
    /\ UNCHANGED <<dbVars, envVars>>

-----------------------------------------------------------------------------
(* The staging sessions of a child.                                        *)

\* enforce_current_crawler_lease: the first fenced write of a transaction
\* proves the lease and locks the job and the attempt until it ends.
BeginWrite(j, e) ==
    /\ <<j, e>> \in children
    /\ Unlocked(j)
    /\ job[j].status = "running"
    /\ job[j].token = e
    /\ job[j].epoch = e
    /\ job[j].lease > 0
    /\ attempt[<<j, e>>].status = "running"
    /\ attempt[<<j, e>>].agent = job[j].agent
    /\ writer' = [writer EXCEPT ![j] = e]
    /\ UNCHANGED <<dbVars, snapshots, children, worker, desired>>

\* capture_fenced_crawler_snapshot's rows become visible.  The client may be
\* dead and the lease over by then: the commit was on its way.
CommitWrite(j) ==
    /\ writer[j] # NoLease
    /\ snapshots' = snapshots \cup {<<j, writer[j]>>}
    /\ writer' = [writer EXCEPT ![j] = NoLease]
    /\ UNCHANGED <<dbVars, children, worker, desired>>

AbortWrite(j) ==
    /\ writer[j] # NoLease
    /\ writer' = [writer EXCEPT ![j] = NoLease]
    /\ UNCHANGED <<dbVars, snapshots, children, worker, desired>>

-----------------------------------------------------------------------------
(* The control plane.                                                      *)

\* Mutant: the reaper takes a lease in its last tick.
StaleEarly == {j \in Jobs : job[j].status \in LeasedStatus /\ job[j].lease <= 1 /\ Unlocked(j)}

\* Mutant: a lease that lapsed before its job started is not looked for.
StaleRunning == {j \in Jobs : job[j].status = "running" /\ job[j].lease = 0 /\ Unlocked(j)}

Stale == {j \in Jobs : job[j].status \in LeasedStatus /\ job[j].lease = 0 /\ Unlocked(j)}

\* Mutant: the reaper dead-letters before it looks for a cancellation.
RecoveredIgnoresCancel(r) ==
    IF r.retry < MaxRetries THEN Requeue(r) ELSE Terminate(r, "dead_lettered")

\* Mutant: the reaper leaves the dead lease's token in a dead-lettered job.
RecoveredKeepsToken(r) ==
    IF r.cancel THEN Terminate(r, "cancelled")
    ELSE IF r.retry < MaxRetries THEN Requeue(r)
    ELSE [r EXCEPT !.status = "dead_lettered", !.lease = 0]

Recovered(r) ==
    IF r.cancel THEN Terminate(r, "cancelled")
    ELSE IF r.retry < MaxRetries THEN Requeue(r)
    ELSE Terminate(r, "dead_lettered")

\* One transaction for every lapsed lease; a lapsed lease without its running
\* attempt rolls all of them back.
RecoverStaleJobs ==
    /\ Stale # {}
    /\ \A j \in Stale : attempt[<<j, job[j].token>>].status = "running"
    /\ job' = [j \in Jobs |-> IF j \in Stale THEN Recovered(job[j]) ELSE job[j]]
    /\ attempt' = [x \in Jobs \X Epochs |->
                      IF x[1] \in Stale /\ x[2] = job[x[1]].token
                      THEN [attempt[x] EXCEPT !.status = "lease_lost",
                                              !.closes = Recovered(job[x[1]]).status]
                      ELSE attempt[x]]
    /\ run' = [j \in Jobs |->
                  IF j \in Stale /\ run[j] \in {"queued", "running", "stopping"}
                  THEN RunOutcome(Recovered(job[j]).status) ELSE run[j]]
    /\ UNCHANGED <<worker, envVars>>

\* An operator stops the crawler run of a job.
RequestCancel(j) ==
    /\ run[j] \in {"queued", "running", "stopping"}
    /\ Unlocked(j)
    /\ job' = CASE job[j].status = "queued" ->
                       [job EXCEPT ![j].status = "cancelled", ![j].cancel = TRUE]
                [] job[j].status \in LeasedStatus -> [job EXCEPT ![j].cancel = TRUE]
                [] OTHER -> job
    /\ run' = [run EXCEPT ![j] = IF @ = "queued" THEN "cancelled" ELSE "stopping"]
    /\ UNCHANGED <<attempt, worker, envVars>>

\* Time passes: every lease and every backoff is one tick shorter.
Tick ==
    LET Less(n) == IF n = 0 THEN 0 ELSE n - 1 IN
    /\ \E j \in Jobs : job[j].lease + job[j].wait > 0
    /\ job' = [j \in Jobs |-> [job[j] EXCEPT !.lease = Less(@), !.wait = Less(@)]]
    /\ UNCHANGED <<attempt, run, worker, envVars>>

-----------------------------------------------------------------------------
WorkerStep(a) ==
    \/ LoadDesired(a)
    \/ \E j \in Jobs : ClaimJob(a, j)
    \/ ClaimNothing(a)
    \/ RejectJob(a)
    \/ MarkRunning(a)
    \/ SpawnChild(a)
    \/ Heartbeat(a)
    \/ ObserveCancel(a)
    \/ CommandTimeout(a)
    \/ \E final \in {"success", "partial_success", "failed"} : ChildExits(a, final)
    \/ \E retryable \in BOOLEAN : ExecutionFails(a, retryable)
    \/ FinishJob(a)
    \/ Abandon(a)

HostStep(a) == SetDesired(a) \/ Crash(a) \/ OrphansDie(a) \/ Restart(a)

StagingStep(j) ==
    \/ \E e \in Epochs : BeginWrite(j, e)
    \/ CommitWrite(j)
    \/ AbortWrite(j)

Next ==
    \/ \E a \in Agents : WorkerStep(a) \/ HostStep(a)
    \/ \E j \in Jobs : StagingStep(j) \/ RequestCancel(j)
    \/ RecoverStaleJobs
    \/ Tick

\* Time passes, the scheduler keeps calling the reaper, a database session
\* ends, and a worker that keeps renewing its lease reaches the command timeout
\* its control loop tests first.  Nothing else is assumed of the workers.
Fairness ==
    /\ WF_vars(Tick)
    /\ WF_vars(RecoverStaleJobs)
    /\ \A j \in Jobs : WF_vars(CommitWrite(j) \/ AbortWrite(j))
    /\ \A a \in Agents : WF_vars(CommandTimeout(a))

Spec == Init /\ [][Next]_vars
FairSpec == Spec /\ Fairness

-----------------------------------------------------------------------------
(* What must hold.                                                         *)

\* Every variable keeps its shape; in particular no claim ever needs an epoch
\* beyond MaxRetries + 1.
TypeOK ==
    /\ job \in [Jobs -> Job]
    /\ attempt \in [Jobs \X Epochs -> Attempt]
    /\ run \in [Jobs -> RunStatus]
    /\ snapshots \subseteq Jobs \X Epochs
    /\ writer \in [Jobs -> {NoLease} \cup Epochs]
    /\ children \subseteq Jobs \X Epochs
    /\ worker \in [Agents -> Worker]
    /\ desired \in [Agents -> {"active", "disabled"}]

Leased(j) == job[j].status \in LeasedStatus
CancelledUnclaimed(j) ==
    job[j].status = "cancelled" /\ job[j].cancel /\ job[j].agent = NoAgent

\* The retry budget is spent exactly: a job has been claimed once per retry it
\* was given, plus once if it is, or ended, under a lease (retry_count and
\* attempt_no are written by different programs in different transactions).
RetryBudgetExact ==
    \A j \in Jobs :
        /\ job[j].epoch = job[j].retry +
              (IF job[j].status = "queued" \/ CancelledUnclaimed(j) THEN 0 ELSE 1)
        /\ job[j].token = IF Leased(j) THEN job[j].epoch ELSE NoLease

\* What the attempt row must say, given the job row.
Told(j, e) ==
    LET t == attempt[<<j, e>>] IN
    /\ e > job[j].epoch => t = NoAttempt
    /\ e < job[j].epoch => t.status \in SealedStatus /\ t.closes = "queued"
    /\ e = job[j].epoch /\ Leased(j) =>
          t = [status |-> "running", agent |-> job[j].agent, closes |-> "none"]
    /\ e = job[j].epoch /\ ~Leased(j) =>
          /\ t.status \in SealedStatus
          /\ t.closes = IF CancelledUnclaimed(j) THEN "queued" ELSE job[j].status

\* The evidence table tells the job's story without a gap: every attempt before
\* the current one was sealed by a requeue, the current one runs exactly while
\* its lease exists and its terminal observation names the status the job has,
\* and no attempt exists that no claim opened.
AttemptLineage == \A j \in Jobs : \A e \in Epochs : Told(j, e)

\* A staging session can only be open for the attempt that holds the job, so
\* neither the reaper nor a newer claim passes a write in progress.
WriteFenced ==
    \A j \in Jobs : writer[j] # NoLease =>
        /\ job[j].status = "running"
        /\ job[j].token = writer[j]
        /\ attempt[<<j, writer[j]>>].status = "running"

RunOf(r) ==
    CASE r.status = "assigned" -> IF r.cancel THEN "cancelled" ELSE "queued"
      [] r.status = "running" -> IF r.cancel THEN "stopping" ELSE "running"
      [] r.status \in {"failed", "timed_out", "dead_lettered"} -> "failed"
      [] OTHER -> r.status

\* The run the operator sees is what the queue's row says, although worker,
\* reaper and operator write the two rows by different rules.  (A stop that
\* arrives between the claim and the start shows `cancelled' at once.)
RunMirrorsJob == \A j \in Jobs : run[j] = RunOf(job[j])

\* A host runs at most one crawler child, across crashes and restarts, even
\* while the database already gave the job to another host.
OneChildPerHost == \A a \in Agents : \A x, y \in ChildrenOf(a) : x = y

\* Sealed evidence is immutable: once an attempt is sealed neither its outcome
\* nor the set of snapshots it wrote changes, whatever its child still does.
SealedImmutable ==
    [][\A x \in Jobs \X Epochs : attempt[x].status \in SealedStatus =>
          /\ attempt'[x] = attempt[x]
          /\ x \in snapshots' <=> x \in snapshots]_vars

\* A terminal job is never reopened by a late worker, the reaper or an operator.
TerminalFinal ==
    [][\A j \in Jobs : job[j].status \in TerminalStatus =>
          /\ [job'[j] EXCEPT !.wait = 0] = [job[j] EXCEPT !.wait = 0]
          /\ run'[j] = run[j]]_vars

\* A job whose cancellation was requested is never given back to the queue and
\* never ends as anything but cancelled, whoever of worker and reaper ends it.
CancelNeverRequeued ==
    [][\A j \in Jobs : job[j].cancel =>
          /\ job'[j].cancel
          /\ job'[j].status \in LeasedStatus \cup {"cancelled"}]_vars

\* A lease that has not lapsed is ended by its holder's own result only.
LiveLeaseNotStolen ==
    [][\A j \in Jobs : Leased(j) /\ job[j].lease > 0 =>
          \/ job'[j].token = job[j].token
          \/ /\ worker[job[j].agent].pc = "done"
             /\ worker[job[j].agent].job = j
             /\ worker[job[j].agent].epoch = job[j].epoch]_vars

\* No lease is opened for a worker that is disabled or was moved to another
\* release, even when it read `active' before the administrator changed it.
DisabledNotClaiming ==
    [][\A j \in Jobs : job'[j].epoch # job[j].epoch =>
          desired[job'[j].agent] = "active"]_vars

\* Whatever workers, hosts and sessions do, a lease ends and its job goes back
\* to the queue or to a terminal status.
LeaseEnds == \A j \in Jobs : Leased(j) ~> ~Leased(j)

\* A stop request is honoured even if the worker never looks at it.
CancelHonoured == \A j \in Jobs : job[j].cancel ~> job[j].status = "cancelled"

\* The documented disposition of a partial collection
\* (docs/distributed-crawler-control-plane.md:75): it consumes the retry budget.
PartialConsumesBudget ==
    [][\A a \in Agents :
          /\ FinishJob(a)
          /\ worker[a].final = "partial_success"
          /\ Fenced(a, LeasedStatus)
          /\ ~job[worker[a].job].cancel
          => job'[worker[a].job].status \in {"queued", "dead_lettered"}]_vars

-----------------------------------------------------------------------------
(* The queue implements the abstract lifecycle of its jobs.                *)

LifeOf(j) ==
    [phase |-> CASE job[j].status = "queued" -> "queued"
                 [] job[j].status \in LeasedStatus -> "leased"
                 [] OTHER -> "done",
     outcome |-> IF job[j].status \in TerminalStatus THEN job[j].status ELSE "none",
     tries |-> job[j].epoch,
     stop |-> job[j].cancel,
     evidence |-> {e \in Epochs : <<j, e>> \in snapshots}]

Lifecycle == INSTANCE JobLifecycle
    WITH Jobs <- Jobs, MaxTries <- MaxRetries + 1, life <- [j \in Jobs |-> LifeOf(j)]

\* What the scheduler, finalizer and approver may rely on: every transaction of
\* workers, sessions, reaper and operator is a step of the job lifecycle.
ImplementsLifecycle == Lifecycle!Spec
=============================================================================
