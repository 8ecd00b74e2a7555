------------------------ MODULE CrawlerQueue_proofs -------------------------
(* The safety of CrawlerQueue for any jobs, agents and bounds.             *)
EXTENDS CrawlerQueue, TLAPS

-----------------------------------------------------------------------------
(* The inductive invariant.                                                *)

\* Who may be named by a job row, and which rows can carry a stop request or
\* a lease.
JobShape ==
    \A j \in Jobs :
        /\ Leased(j) => job[j].agent \in Agents
        /\ job[j].status = "queued" => job[j].agent = NoAgent /\ ~job[j].cancel
        /\ job[j].status \in TerminalStatus /\ job[j].agent = NoAgent
              => CancelledUnclaimed(j)
        /\ ~Leased(j) => job[j].lease = 0
        /\ job[j].cancel => Leased(j) \/ job[j].status = "cancelled"

\* What a worker remembers of its claim is true of the tables: the attempt is
\* its own, and while the token is current so is the retry count it copied.
WorkerShape ==
    \A a \in Agents :
        /\ Holding(a) =>
              /\ worker[a].job \in Jobs
              /\ worker[a].epoch \in 1 .. job[worker[a].job].epoch
              /\ attempt[<<worker[a].job, worker[a].epoch>>].agent = a
              /\ job[worker[a].job].token = worker[a].epoch
                    => job[worker[a].job].retry = worker[a].retry
        /\ ~Holding(a) => worker[a] = AtRest(worker[a].pc)
        /\ worker[a].pc = "done" => worker[a].final \in FinalStatus

\* A child belongs to the host of its attempt, which supervises it or is down.
ChildOwned ==
    \A x \in children :
        /\ attempt[x].agent \in Agents
        /\ \/ worker[attempt[x].agent].pc = "down"
           \/ /\ worker[attempt[x].agent].pc = "busy"
              /\ x = <<worker[attempt[x].agent].job, worker[attempt[x].agent].epoch>>

QueueInv ==
    /\ TypeOK
    /\ RetryBudgetExact
    /\ AttemptLineage
    /\ WriteFenced
    /\ RunMirrorsJob
    /\ JobShape
    /\ WorkerShape
    /\ ChildOwned
    /\ OneChildPerHost

-----------------------------------------------------------------------------
(* The initial states.                                                     *)

LEMMA InitQueueInv == Init => QueueInv
<1> SUFFICES ASSUME Init PROVE QueueInv
  OBVIOUS
<1> USE QueueAssumption DEF Init, Leased, LeasedStatus, TerminalStatus, FreshJob,
      NoAttempt, NoLease, Epochs, Unlocked
<1>1. TypeOK
  BY DEF TypeOK, Job, Attempt, Worker, AtRest, JobStatus, SealedStatus,
         RunStatus, FinalStatus
<1>2. RetryBudgetExact
  BY DEF RetryBudgetExact, CancelledUnclaimed
<1>3. AttemptLineage
  BY DEF AttemptLineage, Told
<1>4. WriteFenced /\ RunMirrorsJob
  BY DEF WriteFenced, RunMirrorsJob, RunOf
<1>5. JobShape
  BY DEF JobShape, CancelledUnclaimed
<1>6. WorkerShape
  BY DEF WorkerShape, Holding, AtRest, FinalStatus
<1>7. ChildOwned /\ OneChildPerHost
  BY DEF ChildOwned, OneChildPerHost, ChildrenOf
<1> QED
  BY <1>1, <1>2, <1>3, <1>4, <1>5, <1>6, <1>7 DEF QueueInv

-----------------------------------------------------------------------------
(* A claim.                                                                *)

LEMMA ClaimJobInv ==
    ASSUME QueueInv, NEW a \in Agents, NEW j \in Jobs, ClaimJob(a, j)
    PROVE  QueueInv'
<1> DEFINE e == job[j].epoch + 1
<1> USE QueueAssumption DEF QueueInv, ClaimJob, Claimable, envVars, NoLease, Epochs
<1>1. /\ job[j] \in Job
      /\ job[j].status = "queued" /\ ~job[j].cancel /\ writer[j] = 0
      /\ job[j].epoch = job[j].retry
      /\ e \in Epochs
  BY DEF TypeOK, Job, RetryBudgetExact, CancelledUnclaimed, Unlocked
<1>2. TypeOK'
  BY <1>1 DEF TypeOK, Job, Attempt, Worker, JobStatus, LeasedStatus
<1>3. RetryBudgetExact'
  BY <1>1 DEF RetryBudgetExact, TypeOK, Job, Leased, LeasedStatus, CancelledUnclaimed
<1>4. AttemptLineage'
  <2> SUFFICES ASSUME NEW k \in Jobs, NEW f \in Epochs PROVE Told(k, f)'
    BY DEF AttemptLineage
  <2>1. Told(k, f)
    BY DEF AttemptLineage
  <2>2. CASE k # j
    BY <1>1, <2>1, <2>2 DEF Told, TypeOK, Leased, CancelledUnclaimed
  <2>3. CASE k = j
    BY <1>1, <2>1, <2>3 DEF Told, TypeOK, Job, Leased, LeasedStatus, CancelledUnclaimed
  <2> QED
    BY <2>2, <2>3
<1>5. WriteFenced' /\ RunMirrorsJob'
  BY <1>1 DEF WriteFenced, RunMirrorsJob, RunOf, RunOutcome, TypeOK, Job, Attempt
<1>6. JobShape'
  BY <1>1 DEF JobShape, TypeOK, Job, Leased, LeasedStatus, TerminalStatus, CancelledUnclaimed
<1>7. WorkerShape'
  BY <1>1 DEF WorkerShape, Holding, AtRest, TypeOK, Job, Worker, Attempt
<1>8. ChildOwned' /\ OneChildPerHost'
  <2>0. attempt[<<j, e>>].agent = NoAgent
    <3>1. Told(j, e) /\ e > job[j].epoch
      BY <1>1 DEF AttemptLineage, Job
    <3> QED
      BY <3>1 DEF Told, NoAttempt
  <2>1. <<j, e>> \notin children
    BY <2>0 DEF ChildOwned
  <2>2. \A x \in children : attempt'[x] = attempt[x]
    BY <1>1, <2>1 DEF TypeOK
  <2>3. ChildOwned'
    BY <1>1, <2>2 DEF ChildOwned, TypeOK, Worker
  <2> QED
    BY <2>2, <2>3 DEF OneChildPerHost, ChildrenOf
<1> QED
  BY <1>2, <1>3, <1>4, <1>5, <1>6, <1>7, <1>8

-----------------------------------------------------------------------------
(* Steps that touch no table of the queue.                                 *)

LEMMA TablesKept ==
    ASSUME QueueInv, UNCHANGED dbVars
    PROVE  RetryBudgetExact' /\ AttemptLineage' /\ RunMirrorsJob' /\ JobShape'
BY DEF QueueInv, dbVars, RetryBudgetExact, AttemptLineage, Told, RunMirrorsJob, RunOf,
       JobShape, Leased, CancelledUnclaimed

\* Worker a becomes w: it rests, or keeps the claim it has; children that stay
\* on its host are explained by w.
Becomes(a, w) ==
    /\ UNCHANGED <<dbVars, snapshots, writer, desired>>
    /\ worker' = [worker EXCEPT ![a] = w]
    /\ w \in Worker
    /\ w.pc = "done" => w.final \in FinalStatus
    /\ \/ w = AtRest(w.pc) /\ w.pc \in {"idle", "ready", "down"}
       \/ /\ Holding(a) /\ w.pc \in {"claimed", "started", "busy", "done"}
          /\ w.job = worker[a].job
          /\ w.epoch = worker[a].epoch
          /\ w.retry = worker[a].retry
    /\ \A x \in children' :
          \/ x \in children
          \/ x = <<w.job, w.epoch>> /\ w.pc = "busy"
    /\ \A x \in children' : x \in children /\ attempt[x].agent = a =>
          \/ w.pc = "down"
          \/ w.pc = "busy" /\ x = <<w.job, w.epoch>>

\* A step of that kind keeps the invariant.
LEMMA BecomesInv ==
    ASSUME QueueInv, NEW a \in Agents, NEW w, Becomes(a, w)
    PROVE  QueueInv'
<1> USE DEF QueueInv
<1>1. /\ worker' \in [Agents -> Worker] /\ worker'[a] = w /\ w \in Worker
      /\ \A b \in Agents : b # a => worker'[b] = worker[b]
      /\ UNCHANGED <<dbVars, job, attempt, run, snapshots, writer, desired>>
  BY DEF TypeOK, Becomes, dbVars
<1>2. WorkerShape'
  BY <1>1 DEF WorkerShape, Holding, Becomes
<1>3. \A x \in children' : x \notin children =>
          /\ x = <<w.job, w.epoch>> /\ w.pc = "busy"
          /\ x \in Jobs \X Epochs /\ attempt[x].agent = a
  <2> SUFFICES ASSUME NEW x \in children', x \notin children
               PROVE  /\ x = <<w.job, w.epoch>> /\ w.pc = "busy"
                      /\ x \in Jobs \X Epochs /\ attempt[x].agent = a
    OBVIOUS
  <2>1. x = <<w.job, w.epoch>> /\ w.pc = "busy"
    BY DEF Becomes
  <2>2. /\ Holding(a) /\ w.job = worker[a].job /\ w.epoch = worker[a].epoch
    BY <2>1 DEF Becomes, AtRest
  <2>3. /\ w.job \in Jobs /\ attempt[<<w.job, w.epoch>>].agent = a
        /\ w.epoch \in 1 .. job[w.job].epoch
    BY <2>2 DEF WorkerShape
  <2>4. w.epoch \in Epochs
    BY <2>3, QueueAssumption DEF TypeOK, Job, Epochs
  <2> QED
    BY <2>1, <2>3, <2>4
<1>4. TypeOK'
  <2>1. children' \subseteq Jobs \X Epochs
    BY <1>3 DEF TypeOK
  <2> QED
    BY <1>1, <2>1 DEF TypeOK
<1>5. \A x \in children' :
          /\ attempt[x].agent \in Agents
          /\ attempt[x].agent = a =>
                w.pc = "down" \/ (w.pc = "busy" /\ x = <<w.job, w.epoch>>)
          /\ attempt[x].agent # a => x \in children
  BY <1>3 DEF ChildOwned, Becomes
<1>6. ChildOwned'
  BY <1>1, <1>5 DEF ChildOwned
<1>7. OneChildPerHost'
  <2> SUFFICES ASSUME NEW b \in Agents, NEW x \in children', NEW y \in children',
                      attempt[x].agent = b, attempt[y].agent = b
               PROVE  x = y
    BY <1>1 DEF OneChildPerHost, ChildrenOf
  <2>1. CASE b # a
    BY <2>1, <1>5 DEF OneChildPerHost, ChildrenOf
  <2>2. CASE b = a /\ w.pc # "down"
    BY <2>2, <1>5
  <2>3. CASE b = a /\ w.pc = "down"
    BY <2>3, <1>3 DEF OneChildPerHost, ChildrenOf
  <2> QED
    BY <2>1, <2>2, <2>3
<1>8. WriteFenced'
  BY <1>1 DEF WriteFenced
<1> QED
  BY <1>1, <1>2, <1>4, <1>6, <1>7, <1>8, TablesKept

\* No child of the host is left when its worker stopped the one it supervised.
LEMMA KillsAll ==
    ASSUME QueueInv, NEW a \in Agents, KillsChild(a), worker[a].pc # "down"
    PROVE  /\ children' \subseteq children
           /\ \A x \in children' : attempt[x].agent # a
BY DEF KillsChild, QueueInv, ChildOwned

\* The worker drops its job, with the child it supervises.
LEMMA DropsInv ==
    ASSUME QueueInv, NEW a \in Agents, worker[a].pc # "down",
           GoesIdle(a), KillsChild(a), UNCHANGED <<dbVars, snapshots, writer, desired>>
    PROVE  QueueInv'
<1>1. Becomes(a, AtRest("idle"))
  BY KillsAll, QueueAssumption DEF Becomes, GoesIdle, AtRest, Worker
<1> QED
  BY <1>1, BecomesInv

\* The worker knows the outcome of its job, and its child is dead.
LEMMA SettlesInv ==
    ASSUME QueueInv, NEW a \in Agents, Holding(a),
           NEW final \in FinalStatus, NEW retryable \in BOOLEAN,
           Settles(a, final, retryable), KillsChild(a),
           UNCHANGED <<dbVars, snapshots, writer, desired>>
    PROVE  QueueInv'
<1> DEFINE w == [worker[a] EXCEPT !.pc = "done", !.final = final, !.retryable = retryable]
<1>1. worker[a] \in Worker
  BY DEF QueueInv, TypeOK
<1>2. worker' = [worker EXCEPT ![a] = w]
  BY DEF Settles, QueueInv, TypeOK
<1>3. Becomes(a, w)
  BY <1>1, <1>2, KillsAll DEF Becomes, Holding, Worker
<1> QED
  BY <1>3, BecomesInv

LEMMA LoadDesiredInv ==
    ASSUME QueueInv, NEW a \in Agents, LoadDesired(a)
    PROVE  QueueInv'
<1>1. \A x \in children' : x \in children /\ attempt[x].agent # a
  BY DEF LoadDesired, envVars, QueueInv, ChildOwned
<1>2. Becomes(a, AtRest("ready"))
  BY <1>1, QueueAssumption DEF Becomes, LoadDesired, envVars, AtRest, Worker
<1> QED
  BY <1>2, BecomesInv

LEMMA ClaimNothingInv ==
    ASSUME QueueInv, NEW a \in Agents, ClaimNothing(a)
    PROVE  QueueInv'
<1>1. \A x \in children' : x \in children /\ attempt[x].agent # a
  BY DEF ClaimNothing, envVars, QueueInv, ChildOwned
<1>2. Becomes(a, AtRest("idle"))
  BY <1>1, QueueAssumption DEF Becomes, ClaimNothing, GoesIdle, envVars, AtRest, Worker
<1> QED
  BY <1>2, BecomesInv

LEMMA RejectJobInv ==
    ASSUME QueueInv, NEW a \in Agents, RejectJob(a)
    PROVE  QueueInv'
<1>1. \A x \in children : attempt[x].agent # a
  BY DEF RejectJob, QueueInv, ChildOwned
<1>2. attempt[<<worker[a].job, worker[a].epoch>>].agent = a
  BY DEF RejectJob, QueueInv, WorkerShape, Holding
<1>3. KillsChild(a)
  BY <1>1, <1>2 DEF RejectJob, envVars, KillsChild
<1> QED
  BY <1>3, SettlesInv DEF RejectJob, envVars, Holding, FinalStatus

LEMMA SpawnChildInv ==
    ASSUME QueueInv, NEW a \in Agents, SpawnChild(a)
    PROVE  QueueInv'
<1> DEFINE w == [worker[a] EXCEPT !.pc = "busy"]
<1>1. worker[a] \in Worker /\ worker[a].pc = "started"
  BY DEF QueueInv, TypeOK, SpawnChild
<1>2. worker' = [worker EXCEPT ![a] = w]
  BY DEF SpawnChild, QueueInv, TypeOK
<1>3. \A x \in children : attempt[x].agent # a
  BY <1>1 DEF QueueInv, ChildOwned
<1>4. children' = children \cup {<<w.job, w.epoch>>}
  BY <1>1 DEF SpawnChild, Worker
<1>5. Becomes(a, w)
  BY <1>1, <1>2, <1>3, <1>4 DEF Becomes, SpawnChild, Holding, Worker
<1> QED
  BY <1>5, BecomesInv

\* The ways an execution ends.
LEMMA ExecutionEndsInv ==
    ASSUME QueueInv, NEW a \in Agents,
           \/ ObserveCancel(a) \/ CommandTimeout(a)
           \/ \E final \in {"success", "partial_success", "failed"} : ChildExits(a, final)
           \/ \E retryable \in BOOLEAN : ExecutionFails(a, retryable)
    PROVE  QueueInv'
<1> USE DEF Holding, FinalStatus
<1>1. CASE ObserveCancel(a)
  BY <1>1, SettlesInv DEF ObserveCancel
<1>2. CASE CommandTimeout(a)
  BY <1>2, SettlesInv DEF CommandTimeout
<1>3. CASE \E final \in {"success", "partial_success", "failed"} : ChildExits(a, final)
  <2> PICK final \in {"success", "partial_success", "failed"} : ChildExits(a, final)
    BY <1>3
  <2> DEFINE again == final \in {"failed", "partial_success"}
  <2>1. again \in BOOLEAN /\ Settles(a, final, again)
    BY DEF ChildExits
  <2> HIDE DEF again
  <2> QED
    BY <2>1, SettlesInv DEF ChildExits
<1>4. CASE \E retryable \in BOOLEAN : ExecutionFails(a, retryable)
  BY <1>4, SettlesInv DEF ExecutionFails
<1> QED
  BY <1>1, <1>2, <1>3, <1>4

LEMMA AbandonInv ==
    ASSUME QueueInv, NEW a \in Agents, Abandon(a)
    PROVE  QueueInv'
BY DropsInv DEF Abandon, Holding

LEMMA CrashInv ==
    ASSUME QueueInv, NEW a \in Agents, Crash(a)
    PROVE  QueueInv'
<1>1. Becomes(a, AtRest("down"))
  BY QueueAssumption DEF Becomes, Crash, envVars, AtRest, Worker
<1> QED
  BY <1>1, BecomesInv

LEMMA OrphansDieInv ==
    ASSUME QueueInv, NEW a \in Agents, OrphansDie(a)
    PROVE  QueueInv'
<1>1. worker[a] = AtRest("down")
  BY DEF QueueInv, WorkerShape, Holding, OrphansDie
<1>2. worker' = [worker EXCEPT ![a] = AtRest("down")]
  <2>1. worker' = worker /\ worker \in [Agents -> Worker]
    BY DEF OrphansDie, QueueInv, TypeOK
  <2> QED
    BY <1>1, <2>1
<1>3. children' \subseteq children /\ UNCHANGED <<dbVars, snapshots, writer, desired>>
  BY DEF OrphansDie
<1>4. Becomes(a, AtRest("down"))
  BY <1>2, <1>3, QueueAssumption DEF Becomes, AtRest, Worker
<1> QED
  BY <1>4, BecomesInv

LEMMA RestartInv ==
    ASSUME QueueInv, NEW a \in Agents, Restart(a)
    PROVE  QueueInv'
<1>1. \A x \in children' : x \in children /\ attempt[x].agent # a
  BY DEF Restart, envVars, ChildrenOf
<1>2. Becomes(a, AtRest("idle"))
  BY <1>1, QueueAssumption DEF Becomes, Restart, GoesIdle, envVars, AtRest, Worker
<1> QED
  BY <1>2, BecomesInv

-----------------------------------------------------------------------------
LEMMA SetDesiredInv ==
    ASSUME QueueInv, NEW a \in Agents, SetDesired(a)
    PROVE  QueueInv'
<1>1. desired' \in [Agents -> {"active", "disabled"}]
  BY DEF QueueInv, TypeOK, SetDesired
<1>2. UNCHANGED <<job, attempt, run, snapshots, writer, children, worker>>
  BY DEF SetDesired, dbVars
<1> QED
  BY <1>1, <1>2 DEF QueueInv, TypeOK, RetryBudgetExact, AttemptLineage, Told,
     WriteFenced, RunMirrorsJob, RunOf, JobShape, WorkerShape, ChildOwned,
     OneChildPerHost, ChildrenOf, Leased, CancelledUnclaimed, Holding

\* The staging sessions: only the row lock changes.
LEMMA SessionInv ==
    ASSUME QueueInv, NEW j \in Jobs, UNCHANGED <<dbVars, children, worker, desired>>,
           snapshots' \subseteq Jobs \X Epochs,
           writer' \in [Jobs -> {NoLease} \cup Epochs], WriteFenced'
    PROVE  QueueInv'
<1> USE DEF QueueInv
<1>1. UNCHANGED <<job, attempt, run, children, worker, desired>>
  BY DEF dbVars
<1>2. TypeOK'
  BY <1>1 DEF TypeOK
<1>3. WorkerShape' /\ ChildOwned' /\ OneChildPerHost'
  BY <1>1 DEF WorkerShape, ChildOwned, OneChildPerHost, ChildrenOf, Holding
<1> QED
  BY <1>2, <1>3, TablesKept

LEMMA StagingStepInv ==
    ASSUME QueueInv, NEW j \in Jobs, StagingStep(j)
    PROVE  QueueInv'
<1> USE DEF dbVars
<1>1. CASE \E e \in Epochs : BeginWrite(j, e)
  <2> PICK e \in Epochs : BeginWrite(j, e)
    BY <1>1
  <2>1. writer' \in [Jobs -> {NoLease} \cup Epochs] /\ WriteFenced'
    BY DEF BeginWrite, QueueInv, TypeOK, WriteFenced
  <2> QED
    BY <2>1, SessionInv DEF BeginWrite, QueueInv, TypeOK
<1>2. CASE CommitWrite(j)
  <2>1. /\ writer' \in [Jobs -> {NoLease} \cup Epochs] /\ WriteFenced'
        /\ snapshots' \subseteq Jobs \X Epochs
    BY <1>2 DEF CommitWrite, QueueInv, TypeOK, WriteFenced
  <2> QED
    BY <1>2, <2>1, SessionInv DEF CommitWrite
<1>3. CASE AbortWrite(j)
  <2>1. writer' \in [Jobs -> {NoLease} \cup Epochs] /\ WriteFenced'
    BY <1>3 DEF AbortWrite, QueueInv, TypeOK, WriteFenced
  <2> QED
    BY <1>3, <2>1, SessionInv DEF AbortWrite, QueueInv, TypeOK
<1> QED
  BY <1>1, <1>2, <1>3 DEF StagingStep

-----------------------------------------------------------------------------
(* Renewing a lease.                                                       *)

\* A lease is renewed or started, or a stop is requested: the job stays leased
\* to the same attempt.
LEMMA RenewInv ==
    ASSUME QueueInv, NEW j \in Jobs, Leased(j), NEW r \in Job,
           r.status \in LeasedStatus, r.agent = job[j].agent, r.token = job[j].token,
           r.epoch = job[j].epoch, r.retry = job[j].retry,
           job' = [job EXCEPT ![j] = r], UNCHANGED attempt
    PROVE  /\ job' \in [Jobs -> Job]
           /\ RetryBudgetExact' /\ AttemptLineage' /\ JobShape'
           /\ \A k \in Jobs : /\ job'[k].epoch = job[k].epoch /\ job'[k].retry = job[k].retry
                              /\ job'[k].token = job[k].token
<1> USE QueueAssumption DEF QueueInv, LeasedStatus, TerminalStatus
<1>1. /\ job' \in [Jobs -> Job] /\ job'[j] = r
      /\ \A k \in Jobs : k # j => job'[k] = job[k]
  BY DEF TypeOK
<1>2. RetryBudgetExact'
  BY <1>1 DEF RetryBudgetExact, Leased, CancelledUnclaimed
<1>3. AttemptLineage'
  <2> SUFFICES ASSUME NEW k \in Jobs, NEW f \in Epochs PROVE Told(k, f)'
    BY DEF AttemptLineage
  <2>1. Told(k, f)
    BY DEF AttemptLineage
  <2>2. CASE k # j
    BY <1>1, <2>1, <2>2 DEF Told, Leased, CancelledUnclaimed
  <2>3. CASE k = j
    BY <1>1, <2>1, <2>3 DEF Told, Leased, CancelledUnclaimed
  <2> QED
    BY <2>2, <2>3
<1>4. JobShape'
  BY <1>1 DEF JobShape, Leased, CancelledUnclaimed
<1> QED
  BY <1>1, <1>2, <1>3, <1>4

\* The workers' view when rows keep their epoch, and their retry count too
\* while their lease lasts; the workers of S drop their jobs and had no child.
LEMMA ViewKept ==
    ASSUME QueueInv, NEW S \in SUBSET Agents,
           \A b \in Agents : worker'[b] = IF b \in S THEN AtRest("idle") ELSE worker[b],
           children' = children,
           \A x \in children : attempt[x].agent \notin S,
           \A x \in Jobs \X Epochs : attempt'[x].agent = attempt[x].agent,
           \A k \in Jobs :
              /\ job'[k].epoch = job[k].epoch
              /\ \/ job'[k].token = NoLease
                 \/ job'[k].token = job[k].token /\ job'[k].retry = job[k].retry
    PROVE  WorkerShape' /\ ChildOwned' /\ OneChildPerHost'
<1> USE QueueAssumption DEF QueueInv
<1>1. ChildOwned'
  BY DEF ChildOwned, TypeOK
<1>2. OneChildPerHost'
  BY DEF OneChildPerHost, ChildrenOf, TypeOK
<1>3. WorkerShape'
  <2>1. ASSUME NEW b \in S
        PROVE  worker'[b].pc = "idle" /\ worker'[b] = AtRest(worker'[b].pc)
    <3>1. worker'[b] = AtRest("idle")
      BY <2>1
    <3>2. AtRest("idle").pc = "idle"
      BY DEF AtRest
    <3> QED
      BY <3>1, <3>2
  <2>2. ASSUME NEW b \in Agents, Holding(b)
        PROVE  /\ worker[b].job \in Jobs
               /\ worker[b].epoch \in 1 .. job'[worker[b].job].epoch
               /\ attempt'[<<worker[b].job, worker[b].epoch>>].agent = b
               /\ job'[worker[b].job].token = worker[b].epoch
                     => job'[worker[b].job].retry = worker[b].retry
    <3>1. /\ worker[b].job \in Jobs /\ worker[b].epoch \in 1 .. job[worker[b].job].epoch
          /\ job[worker[b].job] \in Job
          /\ attempt[<<worker[b].job, worker[b].epoch>>].agent = b
          /\ job[worker[b].job].token = worker[b].epoch
                => job[worker[b].job].retry = worker[b].retry
      BY <2>2 DEF WorkerShape, TypeOK
    <3>2. worker[b].epoch \in Epochs
      BY <3>1 DEF Job, Epochs
    <3>3. worker[b].epoch # NoLease
      BY <3>1 DEF NoLease, Job, Epochs
    <3> QED
      BY <3>1, <3>2, <3>3
  <2> QED
    BY <2>1, <2>2 DEF WorkerShape, Holding
<1> QED
  BY <1>1, <1>2, <1>3

LEMMA HeartbeatInv ==
    ASSUME QueueInv, NEW a \in Agents, Heartbeat(a)
    PROVE  QueueInv'
<1> DEFINE j == worker[a].job
<1>1. CASE Fenced(a, LeasedStatus) /\ CancelGate(j, "running")
  <2>1. /\ j \in Jobs /\ Leased(j) /\ job[j] \in Job /\ writer[j] = NoLease
        /\ UNCHANGED <<attempt, run, snapshots, writer, desired, worker, children>>
        /\ job' = [job EXCEPT ![j].lease = LeaseTicks]
    BY <1>1 DEF Heartbeat, Fenced, Leased, QueueInv, TypeOK, Unlocked
  <2> DEFINE r == [job[j] EXCEPT !.lease = LeaseTicks]
  <2>2. job' = [job EXCEPT ![j] = r]
    BY <2>1 DEF QueueInv, TypeOK
  <2>3. /\ r \in Job /\ r.status \in LeasedStatus /\ r.agent = job[j].agent
        /\ r.token = job[j].token /\ r.epoch = job[j].epoch /\ r.retry = job[j].retry
    BY <2>1, QueueAssumption DEF Leased, Job
  <2> HIDE DEF r
  <2>4. /\ job' \in [Jobs -> Job]
        /\ RetryBudgetExact' /\ AttemptLineage' /\ JobShape'
        /\ \A k \in Jobs : /\ job'[k].epoch = job[k].epoch /\ job'[k].retry = job[k].retry
                           /\ job'[k].token = job[k].token
    BY <2>1, <2>2, <2>3, RenewInv
  <2>5. WorkerShape' /\ ChildOwned' /\ OneChildPerHost'
    BY <2>1, <2>4, ViewKept, {} \in SUBSET Agents
  <2>6. TypeOK'
    BY <2>1, <2>4 DEF QueueInv, TypeOK
  <2>7. RunMirrorsJob' /\ WriteFenced'
    BY <2>1 DEF QueueInv, TypeOK, Job, RunMirrorsJob, RunOf, WriteFenced
  <2> QED
    BY <2>4, <2>5, <2>6, <2>7 DEF QueueInv
<1>2. CASE ~(Fenced(a, LeasedStatus) /\ CancelGate(j, "running"))
  BY <1>2, DropsInv DEF Heartbeat, dbVars
<1> QED
  BY <1>1, <1>2

LEMMA MarkRunningInv ==
    ASSUME QueueInv, NEW a \in Agents, MarkRunning(a)
    PROVE  QueueInv'
<1> DEFINE j == worker[a].job
<1>0. \A x \in children : attempt[x].agent # a
  BY DEF MarkRunning, QueueInv, ChildOwned
<1>1. CASE Fenced(a, {"assigned"}) /\ CancelGate(j, "running")
  <2>1. /\ j \in Jobs /\ job[j].status = "assigned" /\ job[j] \in Job /\ writer[j] = NoLease
        /\ worker[a].pc = "claimed" /\ job[j].cancel = FALSE
        /\ UNCHANGED <<attempt, snapshots, writer, desired, children>>
        /\ job' = [job EXCEPT ![j].status = "running", ![j].lease = LeaseTicks]
        /\ run' = [run EXCEPT ![j] = "running"]
        /\ worker' = [worker EXCEPT ![a].pc = "started"]
    BY <1>1 DEF MarkRunning, Fenced, QueueInv, TypeOK, Job, Unlocked, CancelGate, envVars
  <2> DEFINE r == [job[j] EXCEPT !.status = "running", !.lease = LeaseTicks]
  <2>2. job' = [job EXCEPT ![j] = r]
    BY <2>1 DEF QueueInv, TypeOK
  <2>3. /\ r \in Job /\ r.status \in LeasedStatus /\ r.agent = job[j].agent
        /\ r.token = job[j].token /\ r.epoch = job[j].epoch /\ r.retry = job[j].retry
        /\ Leased(j)
    <3>1. job[j] \in Job /\ Leased(j) /\ LeaseTicks \in 0 .. LeaseTicks
          /\ "running" \in LeasedStatus /\ "running" \in JobStatus
      BY <2>1, QueueAssumption DEF Leased, LeasedStatus, JobStatus
    <3> QED
      BY <3>1 DEF Job
  <2> HIDE DEF r
  <2>4. /\ job' \in [Jobs -> Job]
        /\ RetryBudgetExact' /\ AttemptLineage' /\ JobShape'
        /\ \A k \in Jobs : /\ job'[k].epoch = job[k].epoch /\ job'[k].retry = job[k].retry
                           /\ job'[k].token = job[k].token
    BY <2>1, <2>2, <2>3, RenewInv
  <2>5. /\ worker' \in [Agents -> Worker] /\ worker'[a].pc = "started"
        /\ worker'[a].job = j /\ worker'[a].epoch = worker[a].epoch
        /\ worker'[a].retry = worker[a].retry
        /\ \A b \in Agents : b # a => worker'[b] = worker[b]
    BY <2>1 DEF QueueInv, TypeOK, Worker
  <2>6. WorkerShape'
    BY <2>1, <2>4, <2>5 DEF QueueInv, WorkerShape, Holding
  <2>7. ChildOwned' /\ OneChildPerHost'
    BY <1>0, <2>1, <2>5 DEF QueueInv, ChildOwned, OneChildPerHost, ChildrenOf
  <2>8. TypeOK'
    BY <2>1, <2>4, <2>5 DEF QueueInv, TypeOK, RunStatus
  <2>9. RunMirrorsJob' /\ WriteFenced'
    BY <2>1 DEF QueueInv, TypeOK, Job, RunMirrorsJob, RunOf, WriteFenced
  <2> QED
    BY <2>4, <2>6, <2>7, <2>8, <2>9 DEF QueueInv
<1>2. CASE ~(Fenced(a, {"assigned"}) /\ CancelGate(j, "running"))
  <2>1. attempt[<<worker[a].job, worker[a].epoch>>].agent = a
    BY DEF MarkRunning, QueueInv, WorkerShape, Holding
  <2>2. KillsChild(a) /\ GoesIdle(a) /\ UNCHANGED <<dbVars, snapshots, writer, desired>>
    BY <1>0, <1>2, <2>1 DEF MarkRunning, envVars, KillsChild
  <2> QED
    BY <2>2, DropsInv DEF MarkRunning
<1> QED
  BY <1>1, <1>2

LEMMA TickInv ==
    ASSUME QueueInv, Tick
    PROVE  QueueInv'
<1> USE QueueAssumption DEF QueueInv
<1>1. UNCHANGED <<attempt, run, snapshots, writer, children, worker, desired>>
  BY DEF Tick, envVars
<1> DEFINE Less(n) == IF n = 0 THEN 0 ELSE n - 1
<1>2. job' \in [Jobs -> Job]
  <2>1. job' = [k \in Jobs |-> [job[k] EXCEPT !.lease = Less(job[k].lease),
                                            !.wait = Less(job[k].wait)]]
    BY DEF Tick
  <2>2. ASSUME NEW k \in Jobs
        PROVE  [job[k] EXCEPT !.lease = Less(job[k].lease), !.wait = Less(job[k].wait)] \in Job
    <3>1. job[k] \in Job
      BY DEF TypeOK
    <3>2. Less(job[k].lease) \in 0 .. LeaseTicks /\ Less(job[k].wait) \in 0 .. BackoffTicks
      BY <3>1 DEF Job
    <3> HIDE DEF Less
    <3> QED
      BY <3>1, <3>2 DEF Job
  <2> HIDE DEF Less
  <2> QED
    BY <2>1, <2>2
<1>3. \A k \in Jobs :
        /\ job'[k].status = job[k].status /\ job'[k].agent = job[k].agent
        /\ job'[k].token = job[k].token /\ job'[k].epoch = job[k].epoch
        /\ job'[k].retry = job[k].retry /\ job'[k].cancel = job[k].cancel
        /\ job[k].lease = 0 => job'[k].lease = 0
  BY DEF Tick, TypeOK, Job
<1>4. TypeOK'
  BY <1>1, <1>2 DEF TypeOK
<1>5. RetryBudgetExact' /\ WriteFenced' /\ JobShape'
  BY <1>1, <1>3 DEF RetryBudgetExact, WriteFenced, JobShape, Leased, CancelledUnclaimed
<1>6. RunMirrorsJob'
  <2> SUFFICES ASSUME NEW k \in Jobs PROVE RunOf(job'[k]) = RunOf(job[k])
    BY <1>1 DEF RunMirrorsJob
  <2> QED
    BY <1>3 DEF RunOf
<1>7. AttemptLineage'
  <2> SUFFICES ASSUME NEW k \in Jobs, NEW f \in Epochs PROVE Told(k, f)'
    BY DEF AttemptLineage
  <2> QED
    BY <1>1, <1>3 DEF AttemptLineage, Told, Leased, CancelledUnclaimed
<1> QED
  BY <1>1, <1>3, <1>4, <1>5, <1>6, <1>7, ViewKept, {} \in SUBSET Agents

-----------------------------------------------------------------------------
(* Ending a lease.                                                         *)

\* The part of the invariant that speaks of one job.
JobRow(j) ==
    /\ job[j] \in Job /\ run[j] \in RunStatus
    /\ job[j].epoch = job[j].retry +
          (IF job[j].status = "queued" \/ CancelledUnclaimed(j) THEN 0 ELSE 1)
    /\ job[j].token = IF Leased(j) THEN job[j].epoch ELSE NoLease
    /\ \A e \in Epochs : attempt[<<j, e>>] \in Attempt /\ Told(j, e)
    /\ run[j] = RunOf(job[j])
    /\ Leased(j) => job[j].agent \in Agents
    /\ job[j].status = "queued" => job[j].agent = NoAgent /\ ~job[j].cancel
    /\ job[j].status \in TerminalStatus /\ job[j].agent = NoAgent => CancelledUnclaimed(j)
    /\ ~Leased(j) => job[j].lease = 0
    /\ job[j].cancel => Leased(j) \/ job[j].status = "cancelled"

LEMMA RowsOfInv ==
    ASSUME QueueInv, NEW j \in Jobs
    PROVE  JobRow(j)
BY DEF QueueInv, TypeOK, RetryBudgetExact, AttemptLineage, RunMirrorsJob, JobShape, JobRow

LEMMA InvOfRows ==
    ASSUME \A j \in Jobs : JobRow(j)'
    PROVE  RetryBudgetExact' /\ AttemptLineage' /\ RunMirrorsJob' /\ JobShape'
BY DEF RetryBudgetExact, AttemptLineage, RunMirrorsJob, JobShape, JobRow

LEMMA RowKept ==
    ASSUME NEW j \in Jobs, JobRow(j), job'[j] = job[j], run'[j] = run[j],
           \A e \in Epochs : attempt'[<<j, e>>] = attempt[<<j, e>>]
    PROVE  JobRow(j)'
<1>1. /\ RunOf(job[j])' = RunOf(job[j])
      /\ Leased(j)' = Leased(j)
      /\ CancelledUnclaimed(j)' = CancelledUnclaimed(j)
  BY DEF RunOf, Leased, CancelledUnclaimed
<1>2. \A e \in Epochs : Told(j, e)'
  BY <1>1 DEF JobRow, Told
<1> QED
  BY <1>1, <1>2 DEF JobRow

\* A lease ends in a requeue or a terminal status, and its attempt is sealed.
LEMMA LeaseEnded ==
    ASSUME NEW j \in Jobs, JobRow(j), Leased(j),
           \/ job'[j] = Requeue(job[j]) /\ job[j].retry < MaxRetries /\ ~job[j].cancel
           \/ \E status \in TerminalStatus : job'[j] = Terminate(job[j], status),
           job[j].cancel => job'[j].status = "cancelled",
           run'[j] = RunOutcome(job'[j].status),
           attempt'[<<j, job[j].epoch>>].status \in SealedStatus,
           attempt'[<<j, job[j].epoch>>].closes = job'[j].status,
           \A e \in Epochs : /\ attempt'[<<j, e>>] \in Attempt
                             /\ e # job[j].epoch => attempt'[<<j, e>>] = attempt[<<j, e>>]
    PROVE  JobRow(j)' /\ job'[j].token = NoLease /\ job'[j].epoch = job[j].epoch
<1> USE QueueAssumption DEF LeasedStatus, TerminalStatus
<1>1. /\ job[j] \in Job /\ job[j].agent \in Agents /\ job[j].agent # NoAgent
      /\ job[j].epoch = job[j].retry + 1 /\ job[j].token = job[j].epoch
      /\ job[j].epoch \in Epochs /\ job[j].status \in {"assigned", "running"}
  BY DEF JobRow, Job, Leased, CancelledUnclaimed, Epochs
<1>2. \A e \in Epochs : Told(j, e)
  BY DEF JobRow
<1>3. CASE job'[j] = Requeue(job[j]) /\ job[j].retry < MaxRetries /\ ~job[j].cancel
  <2>1. /\ job'[j] \in Job /\ job'[j].status = "queued" /\ job'[j].agent = NoAgent
        /\ job'[j].token = NoLease /\ job'[j].retry = job[j].retry + 1
        /\ job'[j].epoch = job[j].epoch /\ job'[j].cancel = job[j].cancel
        /\ job'[j].lease = 0
    <3>1. /\ BackoffTicks \in 0 .. BackoffTicks /\ 0 \in 0 .. LeaseTicks
          /\ job[j].retry + 1 \in 0 .. MaxRetries
          /\ "queued" \in JobStatus
      BY <1>1, <1>3 DEF Job, JobStatus
    <3> QED
      BY <1>1, <1>3, <3>1 DEF Requeue, Job, NoLease
  <2>2. \A e \in Epochs : Told(j, e)'
    <3> SUFFICES ASSUME NEW e \in Epochs PROVE Told(j, e)'
      OBVIOUS
    <3> QED
      BY <1>1, <1>2, <2>1 DEF Told, Leased, CancelledUnclaimed, Epochs, Job
  <2>3. run'[j] = "queued" /\ RunOf(job'[j]) = "queued"
    BY <2>1 DEF RunOutcome, RunOf
  <2> QED
    BY <1>1, <1>3, <2>1, <2>2, <2>3 DEF JobRow, Leased, CancelledUnclaimed, RunStatus, Job
<1>4. CASE \E status \in TerminalStatus : job'[j] = Terminate(job[j], status)
  <2> PICK status \in TerminalStatus : job'[j] = Terminate(job[j], status)
    BY <1>4
  <2>1. /\ job'[j] \in Job /\ job'[j].status = status /\ job'[j].agent = job[j].agent
        /\ job'[j].token = NoLease /\ job'[j].retry = job[j].retry
        /\ job'[j].epoch = job[j].epoch /\ job'[j].lease = 0
        /\ job'[j].cancel = job[j].cancel
    <3>1. /\ 0 \in 0 .. LeaseTicks /\ status \in JobStatus
          /\ job'[j] = Terminate(job[j], status)
      BY DEF JobStatus
    <3>2. /\ job'[j] \in Job /\ job'[j].status = status /\ job'[j].agent = job[j].agent
          /\ job'[j].token = NoLease /\ job'[j].retry = job[j].retry
          /\ job'[j].epoch = job[j].epoch
      BY <1>1, <3>1 DEF Terminate, Job, NoLease
    <3>3. job'[j].lease = 0
      BY <1>1, <3>1 DEF Terminate, Job
    <3>4. job'[j].cancel = job[j].cancel
      BY <1>1, <3>1 DEF Terminate, Job
    <3> QED
      BY <3>2, <3>3, <3>4
  <2>2. \A e \in Epochs : Told(j, e)'
    <3> SUFFICES ASSUME NEW e \in Epochs PROVE Told(j, e)'
      OBVIOUS
    <3> QED
      BY <1>1, <1>2, <2>1 DEF Told, Leased, CancelledUnclaimed, Epochs, Job
  <2>3. run'[j] = RunOf(job'[j]) /\ run'[j] \in RunStatus
    BY <2>1 DEF RunOutcome, RunOf, RunStatus
  <2>4. job'[j].cancel => job'[j].status = "cancelled"
    BY <2>1
  <2> QED
    BY <1>1, <2>1, <2>2, <2>3, <2>4 DEF JobRow, Leased, CancelledUnclaimed, Job
<1> QED
  BY <1>3, <1>4

\* The commit of a finished job.
LEMMA FinishCommits ==
    ASSUME QueueInv, NEW a \in Agents, FinishJob(a),
           NEW j, j = worker[a].job, NEW closes, closes = Persisted(worker[a]),
           NEW sealed, sealed = IF worker[a].final = "blocked" THEN "failed"
                                ELSE worker[a].final,
           Fenced(a, LeasedStatus), CancelGate(j, closes), ObservationGate(sealed, closes)
    PROVE  QueueInv'
<1> DEFINE w == worker[a]
<1>0. w.pc = "done" /\ w \in Worker /\ Holding(a)
      /\ \A x \in children : attempt[x].agent # a
  BY DEF FinishJob, QueueInv, ChildOwned, TypeOK, Holding
<1>1. /\ j \in Jobs /\ Leased(j) /\ job[j] \in Job /\ writer[j] = NoLease
      /\ w.epoch = job[j].epoch /\ job[j].token = w.epoch /\ w.epoch \in Epochs
      /\ job[j].retry = w.retry /\ w.final \in FinalStatus
      /\ job[j].cancel => closes = "cancelled"
      /\ job[j].epoch # 0
  BY <1>0, QueueAssumption DEF Fenced, Leased, QueueInv, TypeOK, WorkerShape,
       FinishJob, Unlocked, CancelGate, Job, Worker, RetryBudgetExact, CancelledUnclaimed,
       LeasedStatus, Epochs
<1>2. /\ job' = [job EXCEPT ![j] = IF closes = "queued" THEN Requeue(job[j])
                                   ELSE Terminate(job[j], closes)]
      /\ attempt' = [attempt EXCEPT ![<<j, w.epoch>>].status = sealed,
                                    ![<<j, w.epoch>>].closes = closes]
      /\ run' = [run EXCEPT ![j] = RunOutcome(closes)]
      /\ worker' = [worker EXCEPT ![a] = AtRest("idle")]
      /\ UNCHANGED <<snapshots, writer, children, desired>>
  BY <1>0 DEF FinishJob, GoesIdle, envVars
<1>3. /\ sealed \in SealedStatus
      /\ closes \in TerminalStatus \cup {"queued"}
      /\ closes = "queued" => job[j].retry < MaxRetries /\ ~job[j].cancel
  BY <1>1 DEF Persisted, FinalStatus, SealedStatus, TerminalStatus
<1>4. /\ attempt' \in [Jobs \X Epochs -> Attempt]
      /\ attempt'[<<j, w.epoch>>].status = sealed
      /\ attempt'[<<j, w.epoch>>].closes = closes
      /\ \A x \in Jobs \X Epochs : attempt'[x].agent = attempt[x].agent
      /\ \A x \in Jobs \X Epochs : x # <<j, w.epoch>> => attempt'[x] = attempt[x]
  <2>1. /\ <<j, w.epoch>> \in Jobs \X Epochs /\ closes \in {"none"} \cup JobStatus
        /\ attempt \in [Jobs \X Epochs -> Attempt]
    BY <1>1, <1>3 DEF QueueInv, TypeOK, JobStatus
  <2> QED
    BY <1>2, <1>3, <2>1 DEF Attempt
<1>5. /\ job'[j] = IF closes = "queued" THEN Requeue(job[j]) ELSE Terminate(job[j], closes)
      /\ job'[j].status = closes
      /\ run'[j] = RunOutcome(closes)
      /\ \A k \in Jobs : k # j => job'[k] = job[k] /\ run'[k] = run[k]
  BY <1>1, <1>2 DEF QueueInv, TypeOK, Requeue, Terminate, Job
<1>6. JobRow(j)' /\ job'[j].token = NoLease /\ job'[j].epoch = job[j].epoch
  <2>1. \/ job'[j] = Requeue(job[j]) /\ job[j].retry < MaxRetries /\ ~job[j].cancel
        \/ \E status \in TerminalStatus : job'[j] = Terminate(job[j], status)
    BY <1>3, <1>5
  <2>2. /\ JobRow(j)
        /\ run'[j] = RunOutcome(job'[j].status)
        /\ attempt'[<<j, job[j].epoch>>].status \in SealedStatus
        /\ attempt'[<<j, job[j].epoch>>].closes = job'[j].status
        /\ job[j].cancel => job'[j].status = "cancelled"
    BY <1>1, <1>3, <1>4, <1>5, RowsOfInv
  <2>3. \A e \in Epochs :
            /\ attempt'[<<j, e>>] \in Attempt
            /\ e # job[j].epoch => attempt'[<<j, e>>] = attempt[<<j, e>>]
    BY <1>1, <1>4
  <2> QED
    BY <1>1, <2>1, <2>2, <2>3, LeaseEnded
<1>7. \A k \in Jobs : k # j => JobRow(k)'
  <2> SUFFICES ASSUME NEW k \in Jobs, k # j PROVE JobRow(k)'
    OBVIOUS
  <2>1. \A e \in Epochs : attempt'[<<k, e>>] = attempt[<<k, e>>]
    BY <1>4
  <2> QED
    BY <1>5, <2>1, RowsOfInv, RowKept
<1>8. RetryBudgetExact' /\ AttemptLineage' /\ RunMirrorsJob' /\ JobShape'
  BY <1>6, <1>7, InvOfRows
<1>9. /\ worker' \in [Agents -> Worker] /\ worker'[a] = AtRest("idle")
      /\ \A b \in Agents : b # a => worker'[b] = worker[b]
  BY <1>2, QueueAssumption DEF QueueInv, TypeOK, AtRest, Worker
<1>10. TypeOK'
  <2>1. job' \in [Jobs -> Job] /\ run' \in [Jobs -> RunStatus]
    <3>1. \A k \in Jobs : job'[k] \in Job /\ run'[k] \in RunStatus
      BY <1>6, <1>7 DEF JobRow
    <3> QED
      BY <1>2, <3>1 DEF QueueInv, TypeOK
  <2> QED
    BY <1>2, <1>4, <1>9, <2>1 DEF QueueInv, TypeOK
<1>11. WorkerShape' /\ ChildOwned' /\ OneChildPerHost'
  <2>1. {a} \in SUBSET Agents /\ \A x \in children : attempt[x].agent \notin {a}
    BY <1>0
  <2> QED
    BY <1>2, <1>4, <1>5, <1>6, <1>9, <2>1, ViewKept
<1>12. WriteFenced'
  <2> SUFFICES ASSUME NEW k \in Jobs, writer[k] # NoLease
               PROVE  /\ job'[k].status = "running" /\ job'[k].token = writer[k]
                      /\ attempt'[<<k, writer[k]>>].status = "running"
    BY <1>2 DEF WriteFenced
  <2>1. k # j
    BY <1>1
  <2>2. job'[k] = job[k]
    BY <1>5, <2>1
  <2>3. writer[k] \in Epochs
    BY DEF QueueInv, TypeOK, NoLease
  <2>4. attempt'[<<k, writer[k]>>] = attempt[<<k, writer[k]>>]
    BY <1>4, <2>1, <2>3
  <2> QED
    BY <2>2, <2>4 DEF QueueInv, WriteFenced
<1> QED
  BY <1>8, <1>10, <1>11, <1>12 DEF QueueInv

LEMMA FinishJobInv ==
    ASSUME QueueInv, NEW a \in Agents, FinishJob(a)
    PROVE  QueueInv'
<1> DEFINE w == worker[a]
           sealed == IF w.final = "blocked" THEN "failed" ELSE w.final
           commits == /\ Fenced(a, LeasedStatus)
                      /\ CancelGate(w.job, Persisted(w))
                      /\ ObservationGate(sealed, Persisted(w))
<1>1. CASE commits
  BY <1>1, FinishCommits
<1>2. CASE ~commits
  <2>0. w.pc = "done" /\ Holding(a) /\ \A x \in children : attempt[x].agent # a
    BY DEF FinishJob, QueueInv, ChildOwned, Holding
  <2>1. attempt[<<worker[a].job, worker[a].epoch>>].agent = a
    BY <2>0 DEF QueueInv, WorkerShape
  <2>2. KillsChild(a) /\ GoesIdle(a) /\ UNCHANGED <<dbVars, snapshots, writer, desired>>
    BY <2>0, <1>2, <2>1 DEF FinishJob, envVars, KillsChild
  <2> QED
    BY <2>0, <2>2, DropsInv
<1> QED
  BY <1>1, <1>2

\* The reaper, row by row.
LEMMA RecoverStaleJobsInv ==
    ASSUME QueueInv, RecoverStaleJobs
    PROVE  QueueInv'
<1> DEFINE Lapsed(x) == x[1] \in Stale /\ x[2] = job[x[1]].token
<1>1. /\ \A k \in Jobs : job'[k] = IF k \in Stale THEN Recovered(job[k]) ELSE job[k]
      /\ DOMAIN job' = Jobs /\ job' = [k \in Jobs |-> job'[k]]
      /\ run' = [k \in Jobs |-> run'[k]]
      /\ attempt' = [x \in Jobs \X Epochs |-> attempt'[x]]
      /\ UNCHANGED <<snapshots, writer, children, worker, desired>>
  BY DEF RecoverStaleJobs, envVars
<1>2. \A x \in Jobs \X Epochs : ~Lapsed(x) => attempt'[x] = attempt[x]
  BY DEF RecoverStaleJobs
<1>3. \A x \in Jobs \X Epochs : Lapsed(x) =>
          attempt'[x] = [attempt[x] EXCEPT !.status = "lease_lost",
                                           !.closes = Recovered(job[x[1]]).status]
  BY DEF RecoverStaleJobs
<1>4. \A k \in Stale : k \in Jobs /\ Leased(k) /\ writer[k] = NoLease
  BY DEF Stale, Leased, Unlocked
<1>5. ASSUME NEW k \in Stale
      PROVE  /\ job[k] \in Job /\ job[k].status \in LeasedStatus
             /\ job[k].token = job[k].epoch /\ job[k].epoch \in Epochs
             /\ run[k] \in {"queued", "running", "stopping", "cancelled"}
             /\ run[k] = "cancelled" => job[k].cancel
             /\ job'[k] = Recovered(job[k])
             /\ \/ /\ job'[k] = Requeue(job[k]) /\ job'[k].status = "queued"
                   /\ job[k].retry < MaxRetries /\ ~job[k].cancel
                \/ /\ job'[k] = Terminate(job[k], "cancelled") /\ job[k].cancel
                   /\ job'[k].status = "cancelled"
                \/ /\ job'[k] = Terminate(job[k], "dead_lettered") /\ ~job[k].cancel
                   /\ job'[k].status = "dead_lettered"
  <2>1. JobRow(k) /\ k \in Jobs /\ Leased(k)
    BY <1>4, RowsOfInv
  <2>2. /\ job[k] \in Job /\ job[k].status \in LeasedStatus
        /\ job[k].token = job[k].epoch /\ job[k].epoch \in Epochs
        /\ run[k] = RunOf(job[k])
    BY <2>1, QueueAssumption DEF JobRow, Leased, Job, NoLease, Epochs, CancelledUnclaimed,
       LeasedStatus
  <2>3. /\ run[k] \in {"queued", "running", "stopping", "cancelled"}
        /\ run[k] = "cancelled" => job[k].cancel
    BY <2>2 DEF RunOf, LeasedStatus
  <2>4. job'[k] = Recovered(job[k])
    BY <1>1, <2>1
  <2>5. CASE job[k].cancel
    <3>1. job'[k] = Terminate(job[k], "cancelled")
      BY <2>4, <2>5 DEF Recovered
    <3> QED
      BY <2>2, <2>3, <2>4, <2>5, <3>1 DEF Terminate, Job
  <2>6. CASE ~job[k].cancel
    <3>1. \/ job'[k] = Requeue(job[k]) /\ job[k].retry < MaxRetries
          \/ job'[k] = Terminate(job[k], "dead_lettered")
      BY <2>4, <2>6 DEF Recovered
    <3> QED
      BY <2>2, <2>3, <2>4, <2>6, <3>1 DEF Terminate, Requeue, Job
  <2> QED
    BY <2>5, <2>6
<1>6. ASSUME NEW k \in Stale
      PROVE  /\ run'[k] = RunOutcome(job'[k].status)
             /\ attempt'[<<k, job[k].epoch>>] \in Attempt
             /\ attempt'[<<k, job[k].epoch>>].status = "lease_lost"
             /\ attempt'[<<k, job[k].epoch>>].closes = job'[k].status
             /\ attempt'[<<k, job[k].epoch>>].agent = attempt[<<k, job[k].epoch>>].agent
  <2>1. k \in Jobs /\ <<k, job[k].epoch>> \in Jobs \X Epochs
    BY <1>4, <1>5
  <2>2. run'[k] = IF run[k] \in {"queued", "running", "stopping"}
                  THEN RunOutcome(job'[k].status) ELSE run[k]
    BY <1>5, <2>1 DEF RecoverStaleJobs
  <2>3. run'[k] = RunOutcome(job'[k].status)
    BY <1>5, <2>2 DEF RunOutcome
  <2>4. attempt'[<<k, job[k].epoch>>] =
           [attempt[<<k, job[k].epoch>>] EXCEPT !.status = "lease_lost",
                                                !.closes = job'[k].status]
    BY <1>3, <1>5, <2>1
  <2>5. attempt[<<k, job[k].epoch>>] \in Attempt /\ job'[k].status \in JobStatus
    BY <1>5, <2>1 DEF QueueInv, TypeOK, JobStatus, TerminalStatus
  <2> QED
    BY <2>3, <2>4, <2>5 DEF Attempt, SealedStatus
<1>7. ASSUME NEW k \in Stale
      PROVE  JobRow(k)' /\ job'[k].token = NoLease /\ job'[k].epoch = job[k].epoch
  <2>1. k \in Jobs /\ Leased(k) /\ JobRow(k)
    BY <1>4, RowsOfInv
  <2>2. \/ job'[k] = Requeue(job[k]) /\ job[k].retry < MaxRetries /\ ~job[k].cancel
        \/ \E status \in TerminalStatus : job'[k] = Terminate(job[k], status)
    BY <1>5 DEF TerminalStatus
  <2>3. \A e \in Epochs :
           /\ attempt'[<<k, e>>] \in Attempt
           /\ e # job[k].epoch => attempt'[<<k, e>>] = attempt[<<k, e>>]
    <3> SUFFICES ASSUME NEW e \in Epochs
                 PROVE  /\ attempt'[<<k, e>>] \in Attempt
                        /\ e # job[k].epoch => attempt'[<<k, e>>] = attempt[<<k, e>>]
      OBVIOUS
    <3>1. CASE e = job[k].epoch
      BY <1>6, <3>1
    <3>2. CASE e # job[k].epoch
      BY <1>2, <1>5, <2>1, <3>2 DEF QueueInv, TypeOK
    <3> QED
      BY <3>1, <3>2
  <2>4. /\ run'[k] = RunOutcome(job'[k].status)
        /\ attempt'[<<k, job[k].epoch>>].status \in SealedStatus
        /\ attempt'[<<k, job[k].epoch>>].closes = job'[k].status
        /\ job[k].cancel => job'[k].status = "cancelled"
    BY <1>5, <1>6 DEF SealedStatus
  <2> QED
    BY <2>1, <2>2, <2>3, <2>4, LeaseEnded
<1>8. ASSUME NEW k \in Jobs, k \notin Stale
      PROVE  JobRow(k)' /\ job'[k] = job[k]
  <2>1. job'[k] = job[k] /\ run'[k] = run[k]
    BY <1>1, <1>8 DEF RecoverStaleJobs
  <2>2. \A e \in Epochs : attempt'[<<k, e>>] = attempt[<<k, e>>]
    BY <1>2, <1>8
  <2> QED
    BY <2>1, <2>2, RowsOfInv, RowKept
<1>9. RetryBudgetExact' /\ AttemptLineage' /\ RunMirrorsJob' /\ JobShape'
  BY <1>7, <1>8, InvOfRows
<1>10. \A x \in Jobs \X Epochs : attempt'[x] \in Attempt /\ attempt'[x].agent = attempt[x].agent
  <2> SUFFICES ASSUME NEW x \in Jobs \X Epochs
               PROVE  attempt'[x] \in Attempt /\ attempt'[x].agent = attempt[x].agent
    OBVIOUS
  <2>1. CASE Lapsed(x)
    <3>1. x[1] \in Stale /\ x = <<x[1], job[x[1]].epoch>>
      BY <1>5, <2>1
    <3> QED
      BY <1>6, <3>1
  <2>2. CASE ~Lapsed(x)
    BY <1>2, <2>2 DEF QueueInv, TypeOK
  <2> QED
    BY <2>1, <2>2
<1>11. TypeOK'
  <2>1. \A k \in Jobs : job'[k] \in Job /\ run'[k] \in RunStatus
    BY <1>7, <1>8 DEF JobRow
  <2> QED
    BY <1>1, <1>10, <2>1 DEF QueueInv, TypeOK
<1>12. WorkerShape' /\ ChildOwned' /\ OneChildPerHost'
  BY <1>1, <1>7, <1>8, <1>10, ViewKept, {} \in SUBSET Agents
<1>13. WriteFenced'
  <2> SUFFICES ASSUME NEW k \in Jobs, writer[k] # NoLease
               PROVE  /\ job'[k].status = "running"
                      /\ job'[k].token = writer[k]
                      /\ attempt'[<<k, writer[k]>>].status = "running"
    BY <1>1 DEF WriteFenced
  <2>1. k \notin Stale /\ job'[k] = job[k]
    BY <1>4, <1>8
  <2>2. attempt'[<<k, writer[k]>>] = attempt[<<k, writer[k]>>]
    BY <1>2, <2>1 DEF QueueInv, TypeOK
  <2> QED
    BY <2>1, <2>2 DEF QueueInv, WriteFenced
<1> QED
  BY <1>9, <1>11, <1>12, <1>13 DEF QueueInv

LEMMA RequestCancelInv ==
    ASSUME QueueInv, NEW j \in Jobs, RequestCancel(j)
    PROVE  QueueInv'
<1> USE QueueAssumption
<1>1. /\ UNCHANGED <<attempt, snapshots, writer, children, worker, desired>>
      /\ writer[j] = NoLease /\ JobRow(j)
      /\ run' = [run EXCEPT ![j] = IF run[j] = "queued" THEN "cancelled" ELSE "stopping"]
      /\ run[j] \in {"queued", "running", "stopping"}
  BY RowsOfInv DEF RequestCancel, envVars, Unlocked
<1>2. /\ run'[j] = (IF run[j] = "queued" THEN "cancelled" ELSE "stopping")
      /\ \A k \in Jobs : k # j => run'[k] = run[k]
  BY <1>1 DEF QueueInv, TypeOK
<1>3. /\ job' \in [Jobs -> Job] /\ JobRow(j)'
      /\ \A k \in Jobs : k # j => job'[k] = job[k]
      /\ job'[j].epoch = job[j].epoch /\ job'[j].retry = job[j].retry
      /\ job'[j].token = job[j].token /\ job'[j].status \in {job[j].status, "cancelled"}
      /\ job[j].status = "running" => job'[j].status = "running"
  <2> DEFINE r == [job[j] EXCEPT !.cancel = TRUE]
             s == [job[j] EXCEPT !.status = "cancelled", !.cancel = TRUE]
  <2>0. job[j] \in Job /\ job \in [Jobs -> Job]
    BY DEF QueueInv, TypeOK
  <2>1. CASE job[j].status = "queued"
    <3>1. job' = [job EXCEPT ![j] = s]
      BY <2>0, <2>1 DEF RequestCancel, LeasedStatus
    <3>2. /\ s \in Job /\ s.status = "cancelled" /\ s.cancel
          /\ s.agent = job[j].agent /\ s.token = job[j].token /\ s.epoch = job[j].epoch
          /\ s.retry = job[j].retry /\ s.lease = job[j].lease
      BY <2>0 DEF Job, JobStatus, TerminalStatus
    <3> HIDE DEF s
    <3>3. job' \in [Jobs -> Job] /\ job'[j] = s /\ \A k \in Jobs : k # j => job'[k] = job[k]
      BY <2>0, <3>1, <3>2
    <3>4. run[j] = "queued" /\ run'[j] = "cancelled"
      BY <1>1, <1>2, <2>1 DEF JobRow, RunOf
    <3>5. \A e \in Epochs : Told(j, e)'
      <4> SUFFICES ASSUME NEW e \in Epochs PROVE Told(j, e)'
        OBVIOUS
      <4> QED
        BY <1>1, <2>1, <3>2, <3>3 DEF JobRow, Told, Leased, LeasedStatus, CancelledUnclaimed
    <3>6. JobRow(j)'
      BY <1>1, <2>1, <3>2, <3>3, <3>4, <3>5
      DEF JobRow, Leased, LeasedStatus, CancelledUnclaimed, RunOf, RunStatus
    <3> QED
      BY <2>1, <3>2, <3>3, <3>6
  <2>2. CASE job[j].status \in LeasedStatus
    <3>1. job' = [job EXCEPT ![j] = r]
      BY <2>0, <2>2 DEF RequestCancel, LeasedStatus
    <3>2. /\ r \in Job /\ r.status = job[j].status /\ r.cancel
          /\ r.agent = job[j].agent /\ r.token = job[j].token /\ r.epoch = job[j].epoch
          /\ r.retry = job[j].retry
      BY <2>0 DEF Job
    <3> HIDE DEF r
    <3>3. job' \in [Jobs -> Job] /\ job'[j] = r /\ \A k \in Jobs : k # j => job'[k] = job[k]
      BY <2>0, <3>1, <3>2
    <3>4. run'[j] = RunOf(job'[j]) /\ run'[j] \in RunStatus
      BY <1>1, <1>2, <2>2, <3>2, <3>3 DEF JobRow, RunOf, LeasedStatus, RunStatus
    <3>5. \A e \in Epochs : Told(j, e)'
      <4> SUFFICES ASSUME NEW e \in Epochs PROVE Told(j, e)'
        OBVIOUS
      <4> QED
        BY <1>1, <2>2, <3>2, <3>3 DEF JobRow, Told, Leased, LeasedStatus, CancelledUnclaimed
    <3>6. JobRow(j)'
      BY <1>1, <2>2, <3>2, <3>3, <3>4, <3>5
      DEF JobRow, Leased, LeasedStatus, TerminalStatus, CancelledUnclaimed
    <3> QED
      BY <2>2, <3>2, <3>3, <3>6
  <2>3. CASE job[j].status \in TerminalStatus
    <3>1. run[j] \notin {"queued", "running", "stopping"}
      BY <1>1, <2>3 DEF JobRow, RunOf, TerminalStatus
    <3> QED
      BY <1>1, <3>1
  <2> QED
    BY <2>0, <2>1, <2>2, <2>3 DEF Job, JobStatus
<1>4. \A k \in Jobs : k # j => JobRow(k)'
  <2> SUFFICES ASSUME NEW k \in Jobs, k # j PROVE JobRow(k)'
    OBVIOUS
  <2> QED
    BY <1>1, <1>2, <1>3, RowsOfInv, RowKept
<1>5. RetryBudgetExact' /\ AttemptLineage' /\ RunMirrorsJob' /\ JobShape'
  BY <1>3, <1>4, InvOfRows
<1>6. TypeOK'
  <2>1. run' \in [Jobs -> RunStatus]
    BY <1>1 DEF QueueInv, TypeOK, RunStatus
  <2> QED
    BY <1>1, <1>3, <2>1 DEF QueueInv, TypeOK
<1>7. WorkerShape' /\ ChildOwned' /\ OneChildPerHost'
  BY <1>1, <1>3, ViewKept, {} \in SUBSET Agents
<1>8. WriteFenced'
  BY <1>1, <1>3 DEF QueueInv, WriteFenced
<1> QED
  BY <1>5, <1>6, <1>7, <1>8 DEF QueueInv

-----------------------------------------------------------------------------
(* The specification.                                                      *)

LEMMA NextInv ==
    ASSUME QueueInv, [Next]_vars
    PROVE  QueueInv'
<1>1. ASSUME NEW a \in Agents, WorkerStep(a)
      PROVE  QueueInv'
  BY <1>1, LoadDesiredInv, ClaimJobInv, ClaimNothingInv, RejectJobInv, MarkRunningInv,
     SpawnChildInv, HeartbeatInv, ExecutionEndsInv, FinishJobInv, AbandonInv
  DEF WorkerStep
<1>2. ASSUME NEW a \in Agents, HostStep(a)
      PROVE  QueueInv'
  BY <1>2, SetDesiredInv, CrashInv, OrphansDieInv, RestartInv DEF HostStep
<1>3. CASE UNCHANGED vars
  BY <1>3 DEF vars, QueueInv, TypeOK, RetryBudgetExact, AttemptLineage, Told, WriteFenced,
     RunMirrorsJob, RunOf, JobShape, WorkerShape, ChildOwned, OneChildPerHost, ChildrenOf,
     Leased, CancelledUnclaimed, Holding
<1> QED
  BY <1>1, <1>2, <1>3, StagingStepInv, RequestCancelInv, RecoverStaleJobsInv, TickInv
  DEF Next

\* The invariant that carries everything: whatever workers, hosts, staging
\* sessions, reaper and operator do, in any order.
THEOREM QueueSafety == Spec => []QueueInv
BY InitQueueInv, NextInv, PTL DEF Spec

\* Every variable keeps its type; a claim never needs an epoch beyond the budget.
THEOREM TypeCorrect == Spec => []TypeOK
BY QueueSafety, PTL DEF QueueInv

\* A job is claimed once per retry it was given, and once more at most.
THEOREM BudgetExact == Spec => []RetryBudgetExact
BY QueueSafety, PTL DEF QueueInv

\* The attempts tell the job's story without a gap.
THEOREM LineageComplete == Spec => []AttemptLineage
BY QueueSafety, PTL DEF QueueInv

\* No staging session is open for an attempt that lost its lease.
THEOREM WritesFenced == Spec => []WriteFenced
BY QueueSafety, PTL DEF QueueInv

\* The operator's view of a run is a function of the job's row.
THEOREM RunsMirrorJobs == Spec => []RunMirrorsJob
BY QueueSafety, PTL DEF QueueInv

\* A host never runs two crawler children.
THEOREM SingleChild == Spec => []OneChildPerHost
BY QueueSafety, PTL DEF QueueInv

-----------------------------------------------------------------------------
(* What no step may do.                                                    *)

\* The steps that touch the tables, and what the others leave alone.
LEMMA TableSteps ==
    ASSUME Next
    PROVE  \/ \E a \in Agents, j \in Jobs : ClaimJob(a, j)
           \/ \E a \in Agents : MarkRunning(a) \/ Heartbeat(a) \/ FinishJob(a)
           \/ \E j \in Jobs : CommitWrite(j) \/ RequestCancel(j)
           \/ RecoverStaleJobs
           \/ Tick
           \/ UNCHANGED <<job, attempt, run, snapshots>>
<1> USE DEF dbVars, envVars
<1>1. ASSUME NEW a \in Agents, WorkerStep(a)
      PROVE  \/ \E j \in Jobs : ClaimJob(a, j)
             \/ MarkRunning(a) \/ Heartbeat(a) \/ FinishJob(a)
             \/ UNCHANGED <<job, attempt, run, snapshots>>
  BY <1>1 DEF WorkerStep, LoadDesired, ClaimNothing, RejectJob, SpawnChild, ObserveCancel,
     CommandTimeout, ChildExits, ExecutionFails, Abandon
<1>2. ASSUME NEW a \in Agents, HostStep(a)
      PROVE  UNCHANGED <<job, attempt, run, snapshots>>
  BY <1>2 DEF HostStep, SetDesired, Crash, OrphansDie, Restart
<1>3. ASSUME NEW j \in Jobs, StagingStep(j)
      PROVE  CommitWrite(j) \/ UNCHANGED <<job, attempt, run, snapshots>>
  BY <1>3 DEF StagingStep, BeginWrite, AbortWrite
<1> QED
  BY <1>1, <1>2, <1>3 DEF Next

\* Which attempts a step may change: the one a claim opens, and those whose
\* lease ends with them.
LEMMA AttemptSteps ==
    ASSUME QueueInv, Next, NEW x \in Jobs \X Epochs, attempt[x].status \in SealedStatus
    PROVE  attempt'[x] = attempt[x] /\ (x \in snapshots' <=> x \in snapshots)
<1> USE QueueAssumption
<1>0. /\ attempt \in [Jobs \X Epochs -> Attempt] /\ x = <<x[1], x[2]>>
      /\ x[1] \in Jobs /\ x[2] \in Epochs /\ attempt[x].status # "running"
      /\ attempt[x].status # "none" /\ Told(x[1], x[2])
  BY DEF QueueInv, TypeOK, SealedStatus, AttemptLineage
<1>1. ASSUME NEW a \in Agents, NEW j \in Jobs, ClaimJob(a, j)
      PROVE  attempt'[x] = attempt[x] /\ snapshots' = snapshots
  <2>1. <<j, job[j].epoch + 1>> # x
    <3> SUFFICES ASSUME j = x[1], x[2] = job[j].epoch + 1 PROVE FALSE
      BY <1>0
    <3>1. job[j].epoch \in Nat /\ x[2] > job[j].epoch
      BY <1>0 DEF QueueInv, TypeOK, Job, Epochs
    <3> QED
      BY <1>0, <3>1 DEF Told, NoAttempt
  <2> QED
    BY <1>0, <1>1, <2>1 DEF ClaimJob, envVars
<1>2. ASSUME NEW a \in Agents, FinishJob(a)
      PROVE  attempt'[x] = attempt[x] /\ snapshots' = snapshots
  <2>1. CASE attempt' = attempt
    BY <1>2, <2>1 DEF FinishJob, envVars
  <2>2. CASE attempt' # attempt
    <3>1. /\ Fenced(a, LeasedStatus) /\ worker[a].job \in Jobs
          /\ snapshots' = snapshots
          /\ \A y \in Jobs \X Epochs : y # <<worker[a].job, worker[a].epoch>>
                => attempt'[y] = attempt[y]
      BY <1>0, <1>2, <2>2 DEF FinishJob, envVars, dbVars, Fenced
    <3>2. <<worker[a].job, worker[a].epoch>> # x
      BY <1>0, <3>1 DEF Fenced, Told, Leased
    <3> QED
      BY <3>1, <3>2
  <2> QED
    BY <2>1, <2>2
<1>3. CASE RecoverStaleJobs
  <2>1. ~(x[1] \in Stale /\ x[2] = job[x[1]].token)
    <3> SUFFICES ASSUME x[1] \in Stale, x[2] = job[x[1]].token PROVE FALSE
      OBVIOUS
    <3>1. Leased(x[1]) /\ x[2] = job[x[1]].epoch
      BY <1>0 DEF Stale, Leased, QueueInv, RetryBudgetExact
    <3> QED
      BY <1>0, <3>1 DEF Told
  <2> QED
    BY <1>3, <2>1 DEF RecoverStaleJobs, envVars
<1>4. ASSUME NEW j \in Jobs, CommitWrite(j)
      PROVE  attempt'[x] = attempt[x] /\ (x \in snapshots' <=> x \in snapshots)
  <2>1. <<j, writer[j]>> # x
    BY <1>0, <1>4 DEF CommitWrite, QueueInv, WriteFenced
  <2> QED
    BY <1>4, <2>1 DEF CommitWrite, dbVars
<1>5. ASSUME NEW a \in Agents, MarkRunning(a) \/ Heartbeat(a)
      PROVE  attempt'[x] = attempt[x] /\ snapshots' = snapshots
  BY <1>5 DEF MarkRunning, Heartbeat, envVars, dbVars
<1>6. ASSUME NEW j \in Jobs, RequestCancel(j)
      PROVE  attempt'[x] = attempt[x] /\ snapshots' = snapshots
  BY <1>6 DEF RequestCancel, envVars
<1>7. CASE Tick
  BY <1>7 DEF Tick, envVars
<1> QED
  BY <1>1, <1>2, <1>3, <1>4, <1>5, <1>6, <1>7, TableSteps

\* Sealed evidence is immutable.
THEOREM EvidenceImmutable == Spec => SealedImmutable
<1>1. QueueInv /\ [Next]_vars =>
         [\A x \in Jobs \X Epochs : attempt[x].status \in SealedStatus =>
             /\ attempt'[x] = attempt[x]
             /\ x \in snapshots' <=> x \in snapshots]_vars
  BY AttemptSteps
<1> QED
  BY <1>1, QueueSafety, PTL DEF Spec, SealedImmutable

\* The ways a step may treat one job's row.
Untouched(j) ==
    /\ job'[j].status = job[j].status /\ job'[j].agent = job[j].agent
    /\ job'[j].token = job[j].token /\ job'[j].epoch = job[j].epoch
    /\ job'[j].retry = job[j].retry /\ job'[j].cancel = job[j].cancel
    /\ ~Leased(j) => job'[j].lease = 0
    /\ run'[j] = run[j]

Claimed(j) ==
    /\ job[j].status = "queued" /\ ~job[j].cancel
    /\ job'[j].status = "assigned" /\ job'[j].cancel = job[j].cancel
    /\ job'[j].epoch = job[j].epoch + 1 /\ job'[j].token = job[j].epoch + 1
    /\ \E a \in Agents : job'[j].agent = a /\ desired[a] = "active"

Started(j) ==
    /\ Leased(j) /\ ~job[j].cancel
    /\ job'[j].status = "running" /\ job'[j].cancel = job[j].cancel
    /\ job'[j].token = job[j].token /\ job'[j].epoch = job[j].epoch

Stopped(j) ==
    /\ job'[j].cancel /\ job'[j].epoch = job[j].epoch
    /\ job'[j].token = job[j].token
    /\ \/ job[j].status = "queued" /\ ~job[j].cancel /\ job'[j].status = "cancelled"
       \/ Leased(j) /\ job'[j].status = job[j].status

EndsLease(j) ==
    /\ Leased(j)
    /\ job'[j].epoch = job[j].epoch /\ job'[j].cancel = job[j].cancel
    /\ job'[j].token = NoLease /\ ~Leased(j)'
    /\ job[j].cancel => job'[j].status = "cancelled"
    /\ \/ /\ job[j].lease = 0
          /\ job'[j].status = "cancelled" => job[j].cancel
       \/ /\ worker[job[j].agent].pc = "done" /\ worker[job[j].agent].job = j
          /\ worker[job[j].agent].epoch = job[j].epoch
          /\ job'[j].status = "cancelled" => worker[job[j].agent].final = "cancelled"

RowMoves(j) == Untouched(j) \/ Claimed(j) \/ Started(j) \/ Stopped(j) \/ EndsLease(j)

LEMMA SameRow ==
    ASSUME QueueInv, NEW j \in Jobs, job'[j] = job[j], run'[j] = run[j]
    PROVE  RowMoves(j)
BY DEF RowMoves, Untouched, QueueInv, JobShape

LEMMA WorkerMoves ==
    ASSUME QueueInv, NEW a \in Agents, NEW j \in Jobs,
           MarkRunning(a) \/ Heartbeat(a) \/ FinishJob(a)
    PROVE  RowMoves(j)
<1> USE DEF dbVars
<1>0. job \in [Jobs -> Job] /\ run \in [Jobs -> RunStatus] /\ job[j] \in Job
  BY DEF QueueInv, TypeOK
<1>1. CASE MarkRunning(a)
  <2>1. CASE UNCHANGED <<job, run>> \/ worker[a].job # j
    <3>1. job'[j] = job[j] /\ run'[j] = run[j]
      BY <1>0, <1>1, <2>1 DEF MarkRunning
    <3> QED
      BY <3>1, SameRow
  <2>2. CASE ~UNCHANGED <<job, run>> /\ worker[a].job = j
    <3>1. /\ Fenced(a, {"assigned"}) /\ CancelGate(j, "running")
          /\ job' = [job EXCEPT ![j].status = "running", ![j].lease = LeaseTicks]
      BY <1>1, <2>2 DEF MarkRunning
    <3>2. Started(j)
      BY <1>0, <2>2, <3>1 DEF Started, Fenced, CancelGate, Leased, LeasedStatus, Job
    <3> QED
      BY <3>2 DEF RowMoves
  <2> QED
    BY <2>1, <2>2
<1>2. CASE Heartbeat(a)
  <2>1. CASE job' = job \/ worker[a].job # j
    <3>1. job'[j] = job[j] /\ run'[j] = run[j]
      BY <1>0, <1>2, <2>1 DEF Heartbeat
    <3> QED
      BY <3>1, SameRow
  <2>2. CASE job' # job /\ worker[a].job = j
    <3>1. /\ Fenced(a, LeasedStatus)
          /\ job' = [job EXCEPT ![j].lease = LeaseTicks] /\ run' = run
      BY <1>2, <2>2 DEF Heartbeat
    <3>2. Untouched(j)
      BY <1>0, <2>2, <3>1 DEF Untouched, Fenced, Leased, Job
    <3> QED
      BY <3>2 DEF RowMoves
  <2> QED
    BY <2>1, <2>2
<1>3. CASE FinishJob(a)
  <2>1. CASE UNCHANGED <<job, run>> \/ worker[a].job # j
    <3>1. job'[j] = job[j] /\ run'[j] = run[j]
      BY <1>0, <1>3, <2>1 DEF FinishJob
    <3> QED
      BY <3>1, SameRow
  <2>2. CASE ~UNCHANGED <<job, run>> /\ worker[a].job = j
    <3> DEFINE closes == Persisted(worker[a])
    <3>1. /\ Fenced(a, LeasedStatus) /\ CancelGate(j, closes) /\ worker[a].pc = "done"
          /\ job' = [job EXCEPT ![j] = IF closes = "queued" THEN Requeue(job[j])
                                       ELSE Terminate(job[j], closes)]
      BY <1>3, <2>2 DEF FinishJob
    <3>2. /\ Leased(j) /\ job[j].agent = a /\ worker[a].epoch = job[j].epoch
      BY <2>2, <3>1 DEF Fenced, Leased
    <3> HIDE DEF closes
    <3>3. /\ job'[j].status = closes /\ job'[j].epoch = job[j].epoch
          /\ job'[j].cancel = job[j].cancel /\ job'[j].token = NoLease
      BY <1>0, <3>1 DEF Requeue, Terminate, Job
    <3>4. /\ closes \notin LeasedStatus
          /\ closes = "cancelled" => worker[a].final = "cancelled"
      BY <2>2, <3>1 DEF closes, Persisted, LeasedStatus, FinalStatus, QueueInv, WorkerShape
    <3>5. EndsLease(j)
      BY <2>2, <3>1, <3>2, <3>3, <3>4 DEF EndsLease, CancelGate, Leased
    <3> QED
      BY <3>5 DEF RowMoves
  <2> QED
    BY <2>1, <2>2
<1> QED
  BY <1>1, <1>2, <1>3

LEMMA JobSteps ==
    ASSUME QueueInv, Next, NEW j \in Jobs
    PROVE  RowMoves(j)
<1> USE DEF dbVars
<1>0. job \in [Jobs -> Job] /\ run \in [Jobs -> RunStatus] /\ job[j] \in Job
  BY DEF QueueInv, TypeOK
<1>1. ASSUME NEW a \in Agents, NEW k \in Jobs, ClaimJob(a, k)
      PROVE  RowMoves(j)
  <2>1. CASE k # j
    BY <1>0, <1>1, <2>1, SameRow DEF ClaimJob
  <2>2. CASE k = j
    <3>1. Claimed(j)
      BY <1>0, <1>1, <2>2 DEF Claimed, ClaimJob, Claimable, ClaimCompatible, Job
    <3> QED
      BY <3>1 DEF RowMoves
  <2> QED
    BY <2>1, <2>2
<1>2. ASSUME NEW k \in Jobs, RequestCancel(k)
      PROVE  RowMoves(j)
  <2>0. run[k] \in {"queued", "running", "stopping"} /\ run[k] = RunOf(job[k])
        /\ job[k] \in Job
        /\ run' = [run EXCEPT ![k] = IF run[k] = "queued" THEN "cancelled" ELSE "stopping"]
    BY <1>0, <1>2 DEF RequestCancel, QueueInv, RunMirrorsJob
  <2>1. job[k].status = "queued" \/ Leased(k)
    BY <2>0 DEF RunOf, Leased, LeasedStatus, TerminalStatus, Job, JobStatus
  <2>2. CASE k # j
    <3>1. job' = [job EXCEPT ![k].status = "cancelled", ![k].cancel = TRUE]
          \/ job' = [job EXCEPT ![k].cancel = TRUE]
      BY <1>2, <2>1 DEF RequestCancel, Leased, LeasedStatus
    <3>2. job'[j] = job[j] /\ run'[j] = run[j]
      BY <1>0, <2>0, <2>2, <3>1
    <3> QED
      BY <3>2, SameRow
  <2>3. CASE k = j /\ job[j].status = "queued"
    <3>1. ~job[j].cancel
      BY <2>3 DEF QueueInv, JobShape
    <3>2. job' = [job EXCEPT ![j].status = "cancelled", ![j].cancel = TRUE]
      BY <1>2, <2>3 DEF RequestCancel, LeasedStatus
    <3>3. Stopped(j)
      BY <1>0, <2>3, <3>1, <3>2 DEF Stopped, Job
    <3> QED
      BY <3>3 DEF RowMoves
  <2>4. CASE k = j /\ Leased(j)
    <3>1. job' = [job EXCEPT ![j].cancel = TRUE]
      BY <1>2, <2>4 DEF RequestCancel, Leased, LeasedStatus
    <3>2. Stopped(j)
      BY <1>0, <2>4, <3>1 DEF Stopped, Job
    <3> QED
      BY <3>2 DEF RowMoves
  <2> QED
    BY <2>1, <2>2, <2>3, <2>4
<1>3. CASE RecoverStaleJobs
  <2>1. CASE j \notin Stale
    BY <1>3, <2>1, SameRow DEF RecoverStaleJobs
  <2>2. CASE j \in Stale
    <3>1. Leased(j) /\ job[j].lease = 0 /\ job'[j] = Recovered(job[j])
      BY <1>3, <2>2 DEF RecoverStaleJobs, Stale, Leased
    <3>2. /\ job'[j].epoch = job[j].epoch /\ job'[j].cancel = job[j].cancel
          /\ job'[j].token = NoLease /\ job'[j].status \notin LeasedStatus
          /\ job[j].cancel => job'[j].status = "cancelled"
          /\ job'[j].status = "cancelled" => job[j].cancel
      BY <1>0, <3>1 DEF Recovered, Requeue, Terminate, Job, LeasedStatus
    <3>3. EndsLease(j)
      BY <3>1, <3>2 DEF EndsLease, Leased
    <3> QED
      BY <3>3 DEF RowMoves
  <2> QED
    BY <2>1, <2>2
<1>4. CASE Tick
  <2>1. Untouched(j)
    BY <1>0, <1>4 DEF Tick, Untouched, Job, QueueInv, JobShape
  <2> QED
    BY <2>1 DEF RowMoves
<1>5. ASSUME NEW k \in Jobs, CommitWrite(k)
      PROVE  RowMoves(j)
  BY <1>5, SameRow DEF CommitWrite
<1>6. CASE UNCHANGED <<job, attempt, run, snapshots>>
  BY <1>6, SameRow
<1> QED
  BY <1>1, <1>2, <1>3, <1>4, <1>5, <1>6, WorkerMoves, TableSteps

\* A terminal job is never reopened.
THEOREM TerminalIsFinal == Spec => TerminalFinal
<1>1. ASSUME QueueInv, Next, NEW j \in Jobs, job[j].status \in TerminalStatus, QueueInv'
      PROVE  /\ [job'[j] EXCEPT !.wait = 0] = [job[j] EXCEPT !.wait = 0]
             /\ run'[j] = run[j]
  <2>1. ~Leased(j) /\ job[j].status # "queued"
    BY <1>1 DEF Leased, LeasedStatus, TerminalStatus
  <2>2. Untouched(j)
    BY <1>1, <2>1, JobSteps DEF RowMoves, Claimed, Started, Stopped, EndsLease
  <2>3. job[j] \in Job /\ job'[j] \in Job /\ job[j].lease = 0 /\ job'[j].lease = 0
    BY <1>1, <2>1, <2>2 DEF QueueInv, TypeOK, JobShape, Untouched
  <2> QED
    BY <2>2, <2>3 DEF Untouched, Job
<1>2. QueueInv /\ QueueInv' /\ [Next]_vars =>
         [\A j \in Jobs : job[j].status \in TerminalStatus =>
             /\ [job'[j] EXCEPT !.wait = 0] = [job[j] EXCEPT !.wait = 0]
             /\ run'[j] = run[j]]_vars
  BY <1>1
<1> QED
  BY <1>2, QueueSafety, PTL DEF Spec, TerminalFinal

\* A requested stop is never undone or overtaken by another outcome.
THEOREM CancelHolds == Spec => CancelNeverRequeued
<1>1. ASSUME QueueInv, Next, NEW j \in Jobs, job[j].cancel
      PROVE  job'[j].cancel /\ job'[j].status \in LeasedStatus \cup {"cancelled"}
  <2>1. Leased(j) \/ job[j].status = "cancelled"
    BY <1>1 DEF QueueInv, JobShape
  <2> QED
    BY <1>1, <2>1, JobSteps DEF RowMoves, Untouched, Claimed, Started, Stopped, EndsLease,
       Leased, LeasedStatus
<1>2. QueueInv /\ [Next]_vars =>
         [\A j \in Jobs : job[j].cancel =>
             /\ job'[j].cancel
             /\ job'[j].status \in LeasedStatus \cup {"cancelled"}]_vars
  BY <1>1
<1> QED
  BY <1>2, QueueSafety, PTL DEF Spec, CancelNeverRequeued

\* Nobody but its holder ends a lease that has not lapsed.
THEOREM LiveLeaseSafe == Spec => LiveLeaseNotStolen
<1>1. ASSUME QueueInv, Next, NEW j \in Jobs, Leased(j), job[j].lease > 0
      PROVE  \/ job'[j].token = job[j].token
             \/ /\ worker[job[j].agent].pc = "done"
                /\ worker[job[j].agent].job = j
                /\ worker[job[j].agent].epoch = job[j].epoch
  <2>1. job[j].status # "queued" /\ job[j].lease # 0
    BY <1>1 DEF Leased, LeasedStatus
  <2> QED
    BY <1>1, <2>1, JobSteps DEF RowMoves, Untouched, Claimed, Started, Stopped, EndsLease
<1>2. QueueInv /\ [Next]_vars =>
         [\A j \in Jobs : Leased(j) /\ job[j].lease > 0 =>
             \/ job'[j].token = job[j].token
             \/ /\ worker[job[j].agent].pc = "done"
                /\ worker[job[j].agent].job = j
                /\ worker[job[j].agent].epoch = job[j].epoch]_vars
  BY <1>1
<1> QED
  BY <1>2, QueueSafety, PTL DEF Spec, LiveLeaseNotStolen

\* A worker that was disabled or moved between its read and its claim gets no
\* lease.
THEOREM DisabledGetsNothing == Spec => DisabledNotClaiming
<1>1. ASSUME QueueInv, Next, NEW j \in Jobs, job'[j].epoch # job[j].epoch
      PROVE  desired[job'[j].agent] = "active"
  BY <1>1, JobSteps DEF RowMoves, Untouched, Claimed, Started, Stopped, EndsLease
<1>2. QueueInv /\ [Next]_vars =>
         [\A j \in Jobs : job'[j].epoch # job[j].epoch =>
             desired[job'[j].agent] = "active"]_vars
  BY <1>1
<1> QED
  BY <1>2, QueueSafety, PTL DEF Spec, DisabledNotClaiming

-----------------------------------------------------------------------------
(* The queue implements the lifecycle of its jobs.                         *)

\* A worker that settled on `cancelled' saw a stop request of the lease it
\* holds: without this a job could end cancelled that nobody stopped.
StopSeen ==
    \A a \in Agents :
        /\ worker[a].pc = "done" /\ worker[a].final = "cancelled"
        /\ job[worker[a].job].token = worker[a].epoch
        => job[worker[a].job].cancel

LEMMA StopSeenKept ==
    ASSUME QueueInv, StopSeen, [Next]_vars
    PROVE  StopSeen'
<1> USE QueueAssumption
<1>1. CASE UNCHANGED vars
  BY <1>1 DEF vars, StopSeen
<1>2. CASE Next
  <2> SUFFICES ASSUME NEW b \in Agents, worker'[b].pc = "done",
                      worker'[b].final = "cancelled",
                      job'[worker'[b].job].token = worker'[b].epoch
               PROVE  job'[worker'[b].job].cancel
    BY DEF StopSeen
  <2>0. worker \in [Agents -> Worker] /\ worker[b] \in Worker
    BY DEF QueueInv, TypeOK
  <2>1. worker'[b] = worker[b] \/ (ObserveCancel(b) /\ job' = job)
    <3>1. ASSUME NEW a \in Agents, WorkerStep(a)
          PROVE  worker'[b] = worker[b] \/ (ObserveCancel(b) /\ job' = job)
      <4> USE <2>0 DEF Worker
      <4>1. ASSUME GoesIdle(a) \/ worker' = [worker EXCEPT ![a] = AtRest("ready")]
            PROVE  worker'[b] = worker[b]
        BY <4>1 DEF GoesIdle, AtRest
      <4>2. ASSUME NEW final, NEW retryable, Settles(a, final, retryable), final # "cancelled"
            PROVE  worker'[b] = worker[b]
        BY <4>2 DEF Settles
      <4>3. CASE LoadDesired(a) \/ ClaimNothing(a) \/ FinishJob(a) \/ Abandon(a)
        BY <4>1, <4>3 DEF LoadDesired, ClaimNothing, FinishJob, Abandon
      <4>4. CASE RejectJob(a) \/ CommandTimeout(a)
        BY <4>2, <4>4 DEF RejectJob, CommandTimeout
      <4>5. ASSUME NEW final \in {"success", "partial_success", "failed"}, ChildExits(a, final)
            PROVE  worker'[b] = worker[b]
        BY <4>2, <4>5 DEF ChildExits
      <4>6. ASSUME NEW retryable \in BOOLEAN, ExecutionFails(a, retryable)
            PROVE  worker'[b] = worker[b]
        BY <4>2, <4>6 DEF ExecutionFails
      <4>7. ASSUME NEW j \in Jobs, ClaimJob(a, j)
            PROVE  worker'[b] = worker[b]
        BY <4>7 DEF ClaimJob
      <4>8. CASE MarkRunning(a) \/ SpawnChild(a) \/ Heartbeat(a)
        BY <4>1, <4>8 DEF MarkRunning, SpawnChild, Heartbeat
      <4>9. CASE ObserveCancel(a)
        BY <4>9 DEF ObserveCancel, Settles, dbVars
      <4> QED
        BY <3>1, <4>3, <4>4, <4>5, <4>6, <4>7, <4>8, <4>9 DEF WorkerStep
    <3>2. ASSUME NEW a \in Agents, HostStep(a)
          PROVE  worker'[b] = worker[b]
      BY <2>0, <3>2 DEF HostStep, SetDesired, Crash, OrphansDie, Restart, GoesIdle, AtRest
    <3>3. CASE \/ \E j \in Jobs : StagingStep(j) \/ RequestCancel(j)
               \/ RecoverStaleJobs \/ Tick
      BY <3>3 DEF StagingStep, BeginWrite, CommitWrite, AbortWrite, RequestCancel,
         RecoverStaleJobs, Tick
    <3> QED
      BY <1>2, <3>1, <3>2, <3>3 DEF Next
  <2>2. CASE ObserveCancel(b) /\ job' = job
    BY <2>0, <2>2 DEF ObserveCancel, Settles, Worker
  <2>3. CASE worker'[b] = worker[b]
    <3> DEFINE e == worker[b].epoch
    <3>1. PICK j \in Jobs : j = worker[b].job
      BY <2>3 DEF QueueInv, WorkerShape, Holding
    <3>2. e \in 1 .. job[j].epoch /\ job[j] \in Job
      BY <2>3, <3>1 DEF QueueInv, WorkerShape, Holding, TypeOK
    <3>3. e \in Nat /\ e # NoLease /\ e # job[j].epoch + 1
      BY <3>2 DEF Job, NoLease, Epochs
    <3>4. /\ worker[b].pc = "done" /\ worker[b].final = "cancelled"
          /\ job'[j].token = e /\ worker'[b].job = j
      BY <2>3, <3>1
    <3> HIDE DEF e
    <3>5. \/ job'[j].token = job[j].token /\ job'[j].cancel = job[j].cancel
          \/ job'[j].cancel
      BY <1>2, <3>3, <3>4, JobSteps
      DEF RowMoves, Untouched, Claimed, Started, Stopped, EndsLease
    <3>6. job[j].token = e => job[j].cancel
      BY <3>1, <3>4 DEF StopSeen, e
    <3> QED
      BY <3>4, <3>5, <3>6
  <2> QED
    BY <2>1, <2>2, <2>3
<1> QED
  BY <1>1, <1>2

LEMMA StopSeenAlways == Spec => []StopSeen
<1>1. Init => StopSeen
  BY DEF Init, StopSeen, AtRest
<1> QED
  BY <1>1, StopSeenKept, QueueSafety, PTL DEF Spec

\* Snapshots only grow by the attempt that holds the job.
LEMMA EvidenceSteps ==
    ASSUME QueueInv, Next
    PROVE  \/ snapshots' = snapshots
           \/ \E k \in Jobs : /\ snapshots' = snapshots \cup {<<k, job[k].epoch>>}
                              /\ Leased(k) /\ job' = job
<1>1. ASSUME NEW k \in Jobs, CommitWrite(k)
      PROVE  /\ snapshots' = snapshots \cup {<<k, job[k].epoch>>}
             /\ Leased(k) /\ job' = job
  BY <1>1 DEF CommitWrite, QueueInv, WriteFenced, RetryBudgetExact, Leased, LeasedStatus, dbVars
<1>2. CASE snapshots' # snapshots
  BY <1>1, <1>2, TableSteps DEF ClaimJob, MarkRunning, Heartbeat, FinishJob, RequestCancel,
     RecoverStaleJobs, Tick, envVars
<1> QED
  BY <1>1, <1>2

\* How a life may change, field by field.
LifeMoves(r, s) ==
    \/ s = r
    \/ /\ r.phase = "queued" /\ s.phase = "leased" /\ s.tries = r.tries + 1
       /\ s.outcome = r.outcome /\ s.stop = r.stop /\ s.evidence = r.evidence
    \/ /\ r.phase = "queued" /\ s.phase = "done" /\ s.outcome = "cancelled" /\ s.stop
       /\ s.tries = r.tries /\ s.evidence = r.evidence
    \/ /\ r.phase = "leased" /\ s.phase = "leased" /\ s.evidence = r.evidence \cup {r.tries}
       /\ s.outcome = r.outcome /\ s.stop = r.stop /\ s.tries = r.tries
    \/ /\ r.phase = "leased" /\ s.phase = "leased" /\ s.stop
       /\ s.outcome = r.outcome /\ s.tries = r.tries /\ s.evidence = r.evidence
    \/ /\ r.phase = "leased" /\ s.phase = "done"
       /\ s.outcome \in Lifecycle!Outcomes /\ (s.outcome = "cancelled" <=> r.stop)
       /\ s.stop = r.stop /\ s.tries = r.tries /\ s.evidence = r.evidence
    \/ /\ r.phase = "leased" /\ s.phase = "queued" /\ ~r.stop /\ r.tries < MaxRetries + 1
       /\ s.outcome = r.outcome /\ s.stop = r.stop /\ s.tries = r.tries
       /\ s.evidence = r.evidence

LEMMA MovesAreSteps ==
    ASSUME NEW r \in Lifecycle!Life, NEW s \in Lifecycle!Life, LifeMoves(r, s)
    PROVE  s = r \/ s \in Lifecycle!Steps(r)
<1> USE QueueAssumption DEF Lifecycle!Life
<1>1. CASE /\ r.phase = "queued" /\ s.phase = "leased" /\ s.tries = r.tries + 1
           /\ s.outcome = r.outcome /\ s.stop = r.stop /\ s.evidence = r.evidence
  <2>1. s = [r EXCEPT !.phase = "leased", !.tries = r.tries + 1]
    BY <1>1
  <2>2. r.tries < MaxRetries + 1
    BY <1>1
  <2> QED
    BY <1>1, <2>1, <2>2 DEF Lifecycle!Steps, Lifecycle!Lease
<1>2. CASE /\ r.phase = "queued" /\ s.phase = "done" /\ s.outcome = "cancelled" /\ s.stop
           /\ s.tries = r.tries /\ s.evidence = r.evidence
  <2>1. s = [[r EXCEPT !.phase = "done", !.outcome = "cancelled"] EXCEPT !.stop = TRUE]
    BY <1>2
  <2> QED
    BY <1>2, <2>1 DEF Lifecycle!Steps, Lifecycle!End
<1>3. CASE /\ r.phase = "leased" /\ s.phase = "leased" /\ s.evidence = r.evidence \cup {r.tries}
           /\ s.outcome = r.outcome /\ s.stop = r.stop /\ s.tries = r.tries
  <2>1. s = [r EXCEPT !.evidence = r.evidence \cup {r.tries}]
    BY <1>3
  <2> QED
    BY <1>3, <2>1 DEF Lifecycle!Steps
<1>4. CASE /\ r.phase = "leased" /\ s.phase = "leased" /\ s.stop
           /\ s.outcome = r.outcome /\ s.tries = r.tries /\ s.evidence = r.evidence
  <2>1. s = [r EXCEPT !.stop = TRUE]
    BY <1>4
  <2> QED
    BY <1>4, <2>1 DEF Lifecycle!Steps
<1>5. CASE /\ r.phase = "leased" /\ s.phase = "done"
           /\ s.outcome \in Lifecycle!Outcomes /\ (s.outcome = "cancelled" <=> r.stop)
           /\ s.stop = r.stop /\ s.tries = r.tries /\ s.evidence = r.evidence
  <2>1. s = [r EXCEPT !.phase = "done", !.outcome = s.outcome]
    BY <1>5
  <2>2. CASE r.stop
    BY <1>5, <2>1, <2>2 DEF Lifecycle!Steps, Lifecycle!End
  <2>3. CASE ~r.stop
    <3>1. s.outcome \in Lifecycle!Outcomes \ {"cancelled"} /\ s = Lifecycle!End(r, s.outcome)
      BY <1>5, <2>1, <2>3 DEF Lifecycle!End
    <3>2. s \in {Lifecycle!End(r, o) : o \in Lifecycle!Outcomes \ {"cancelled"}}
      BY <3>1
    <3> QED
      BY <1>5, <2>3, <3>2 DEF Lifecycle!Steps
  <2> QED
    BY <2>2, <2>3
<1>6. CASE /\ r.phase = "leased" /\ s.phase = "queued" /\ ~r.stop /\ r.tries < MaxRetries + 1
           /\ s.outcome = r.outcome /\ s.stop = r.stop /\ s.tries = r.tries
           /\ s.evidence = r.evidence
  <2>1. s = [r EXCEPT !.phase = "queued"]
    BY <1>6
  <2> QED
    BY <1>6, <2>1 DEF Lifecycle!Steps, Lifecycle!GiveBack
<1> QED
  BY <1>1, <1>2, <1>3, <1>4, <1>5, <1>6 DEF LifeMoves

\* The life of a job, field by field.
LifeFacts(j) ==
    /\ LifeOf(j) \in Lifecycle!Life
    /\ LifeOf(j).phase = IF job[j].status = "queued" THEN "queued"
                         ELSE IF Leased(j) THEN "leased" ELSE "done"
    /\ LifeOf(j).outcome = IF job[j].status \in TerminalStatus THEN job[j].status
                           ELSE "none"
    /\ LifeOf(j).tries = job[j].epoch
    /\ LifeOf(j).stop = job[j].cancel
    /\ LifeOf(j).evidence = {e \in Epochs : <<j, e>> \in snapshots}

LEMMA LifeTyped == QueueInv => \A j \in Jobs : LifeFacts(j)
<1> SUFFICES ASSUME QueueInv, NEW j \in Jobs PROVE LifeFacts(j)
  OBVIOUS
<1> USE QueueAssumption
<1>1. /\ job[j] \in Job
  BY DEF QueueInv, TypeOK
<1>2. LifeOf(j).phase = IF job[j].status = "queued" THEN "queued"
                        ELSE IF Leased(j) THEN "leased" ELSE "done"
  BY DEF LifeOf, Leased, LeasedStatus
<1>3. /\ LifeOf(j).outcome = IF job[j].status \in TerminalStatus THEN job[j].status
                             ELSE "none"
      /\ LifeOf(j).tries = job[j].epoch
      /\ LifeOf(j).stop = job[j].cancel
      /\ LifeOf(j).evidence = {e \in Epochs : <<j, e>> \in snapshots}
  BY DEF LifeOf
<1>4. LifeOf(j) \in Lifecycle!Life
  <2> DEFINE p == LifeOf(j).phase
             o == LifeOf(j).outcome
             evidence == LifeOf(j).evidence
  <2>1. LifeOf(j) = [phase |-> p, outcome |-> o, tries |-> job[j].epoch,
                     stop |-> job[j].cancel, evidence |-> evidence]
    BY DEF LifeOf
  <2>2. p \in {"queued", "leased", "done"}
    BY <1>2
  <2>3. o \in Lifecycle!Outcomes \cup {"none"}
    BY <1>3 DEF Lifecycle!Outcomes, TerminalStatus
  <2>4. job[j].epoch \in 0 .. (MaxRetries + 1) /\ job[j].cancel \in BOOLEAN
    BY <1>1 DEF Job, Epochs
  <2>5. evidence \in SUBSET (1 .. (MaxRetries + 1))
    BY <1>3 DEF Epochs
  <2> HIDE DEF p, o, evidence
  <2> QED
    BY <2>1, <2>2, <2>3, <2>4, <2>5 DEF Lifecycle!Life
<1> QED
  BY <1>2, <1>3, <1>4 DEF LifeFacts

LEMMA LifeTypedNext == (QueueInv => \A j \in Jobs : LifeFacts(j))'
BY LifeTyped, PTL

LEMMA LifeEqual ==
    ASSUME NEW r \in Lifecycle!Life, NEW s \in Lifecycle!Life,
           s.phase = r.phase, s.outcome = r.outcome, s.tries = r.tries, s.stop = r.stop,
           s.evidence = r.evidence
    PROVE  s = r
BY DEF Lifecycle!Life

LEMMA LifeStep ==
    ASSUME QueueInv, StopSeen, Next, NEW j \in Jobs
    PROVE  LifeMoves(LifeOf(j), LifeOf(j)')
<1> USE QueueAssumption
<1>1. QueueInv' /\ LifeFacts(j) /\ LifeFacts(j)'
  BY LifeTyped, LifeTypedNext, NextInv
<1>2. /\ job[j] \in Job /\ job'[j] \in Job
      /\ Leased(j) <=> job[j].status \in LeasedStatus
      /\ Leased(j)' <=> job'[j].status \in LeasedStatus
  BY <1>1 DEF QueueInv, TypeOK, Leased
<1> DEFINE r == LifeOf(j)
           s == LifeOf(j)'
           same == {e \in Epochs : <<j, e>> \in snapshots'} =
                   {e \in Epochs : <<j, e>> \in snapshots}
<1>3. CASE \E k \in Jobs : /\ snapshots' = snapshots \cup {<<k, job[k].epoch>>}
                           /\ Leased(k) /\ job' = job
  <2> PICK k \in Jobs : /\ snapshots' = snapshots \cup {<<k, job[k].epoch>>}
                         /\ Leased(k) /\ job' = job
    BY <1>3
  <2>1. /\ s.phase = r.phase /\ s.outcome = r.outcome /\ s.tries = r.tries
        /\ s.stop = r.stop
    BY <1>1 DEF LifeFacts, Leased
  <2>2. CASE k # j
    <3>1. s.evidence = r.evidence
      BY <1>1, <2>2 DEF LifeFacts
    <3>2. s = r
      BY <1>1, <2>1, <3>1, LifeEqual DEF LifeFacts
    <3> QED
      BY <3>2 DEF LifeMoves
  <2>3. CASE k = j
    <3>1. job[j].epoch \in Epochs
      BY <2>3 DEF QueueInv, RetryBudgetExact, TypeOK, Job, Leased, LeasedStatus,
         CancelledUnclaimed, Epochs
    <3>2. s.evidence = r.evidence \cup {r.tries}
      BY <1>1, <2>3, <3>1 DEF LifeFacts
    <3>3. r.phase = "leased"
      BY <1>1, <2>3 DEF LifeFacts, Leased, LeasedStatus
    <3> QED
      BY <2>1, <3>2, <3>3 DEF LifeMoves
  <2> QED
    BY <2>2, <2>3
<1>4. CASE snapshots' = snapshots
  <2>0. s.evidence = r.evidence
    BY <1>1, <1>4 DEF LifeFacts
  <2>1. CASE Untouched(j)
    <3>1. s.phase = r.phase /\ s.outcome = r.outcome /\ s.tries = r.tries /\ s.stop = r.stop
      BY <1>1, <1>2, <2>1 DEF LifeFacts, Untouched
    <3>2. s = r
      BY <1>1, <2>0, <3>1, LifeEqual DEF LifeFacts
    <3> QED
      BY <3>2 DEF LifeMoves
  <2>2. CASE Claimed(j)
    BY <1>1, <1>2, <2>0, <2>2 DEF LifeFacts, Claimed, LifeMoves, LeasedStatus, TerminalStatus
  <2>3. CASE Started(j)
    <3>1. s.phase = r.phase /\ s.outcome = r.outcome /\ s.tries = r.tries /\ s.stop = r.stop
      BY <1>1, <1>2, <2>3 DEF LifeFacts, Started, LeasedStatus, TerminalStatus
    <3>2. s = r
      BY <1>1, <2>0, <3>1, LifeEqual DEF LifeFacts
    <3> QED
      BY <3>2 DEF LifeMoves
  <2>4. CASE Stopped(j)
    BY <1>1, <1>2, <2>0, <2>4 DEF LifeFacts, Stopped, LifeMoves, LeasedStatus, TerminalStatus
  <2>5. CASE EndsLease(j)
    <3>1. /\ r.phase = "leased" /\ r.outcome = "none" /\ s.tries = r.tries /\ s.stop = r.stop
      BY <1>1, <1>2, <2>5 DEF LifeFacts, EndsLease, LeasedStatus, TerminalStatus
    <3>2. job'[j].status = "cancelled" <=> job[j].cancel
      <4>1. job'[j].status = "cancelled" /\ job[j].lease # 0 => job[j].cancel
        <5> SUFFICES ASSUME job'[j].status = "cancelled", job[j].lease # 0
                     PROVE  job[j].cancel
          OBVIOUS
        <5>1. PICK a \in Agents : a = job[j].agent
          BY <2>5 DEF EndsLease, QueueInv, JobShape
        <5>2. worker[a].pc = "done" /\ worker[a].final = "cancelled"
              /\ worker[a].job = j /\ worker[a].epoch = job[j].epoch
          BY <2>5, <5>1 DEF EndsLease
        <5>3. job[j].token = job[j].epoch
          BY <2>5 DEF EndsLease, QueueInv, RetryBudgetExact
        <5> QED
          BY <5>2, <5>3 DEF StopSeen
      <4>2. job[j].cancel => job'[j].status = "cancelled"
        BY <2>5 DEF EndsLease
      <4>3. job'[j].status = "cancelled" /\ job[j].lease = 0 => job[j].cancel
        BY <2>5, <4>1 DEF EndsLease, StopSeen, QueueInv, JobShape, RetryBudgetExact
      <4> QED
        BY <4>1, <4>2, <4>3
    <3>3. CASE job'[j].status = "queued"
      <4>1. job'[j].epoch < MaxRetries + 1
        BY <1>1, <1>2, <3>3 DEF QueueInv, RetryBudgetExact, Job
      <4>2. s.phase = "queued" /\ s.outcome = "none" /\ ~r.stop /\ r.tries < MaxRetries + 1
        BY <1>1, <1>2, <2>5, <3>2, <3>3, <4>1 DEF LifeFacts, EndsLease, TerminalStatus
      <4> QED
        BY <2>0, <3>1, <4>2 DEF LifeMoves
    <3>4. CASE job'[j].status # "queued"
      <4>1. job'[j].status \in TerminalStatus
        BY <1>2, <2>5, <3>4 DEF EndsLease, Job, JobStatus
      <4>2. /\ s.phase = "done" /\ s.outcome = job'[j].status
            /\ s.outcome \in Lifecycle!Outcomes
            /\ s.outcome = "cancelled" <=> r.stop
        BY <1>1, <1>2, <2>5, <3>2, <3>4, <4>1
        DEF LifeFacts, EndsLease, Lifecycle!Outcomes, TerminalStatus
      <4> QED
        BY <2>0, <3>1, <4>2 DEF LifeMoves
    <3> QED
      BY <3>3, <3>4
  <2> QED
    BY <2>1, <2>2, <2>3, <2>4, <2>5, JobSteps DEF RowMoves
<1> QED
  BY <1>3, <1>4, EvidenceSteps

\* The queue implements the job lifecycle: whatever workers, sessions, reaper
\* and operator do to a job is a step its consumers expect.
THEOREM QueueRefinesLifecycle == Spec => ImplementsLifecycle
<1> USE QueueAssumption
<1> DEFINE life == [j \in Jobs |-> LifeOf(j)]
<1>1. Init => Lifecycle!Init
  <2> SUFFICES ASSUME Init PROVE life \in [Jobs -> {Lifecycle!Unborn, Lifecycle!Born}]
    BY DEF Lifecycle!Init
  <2> SUFFICES ASSUME NEW j \in Jobs PROVE LifeOf(j) = Lifecycle!Born
    OBVIOUS
  <2>1. QueueInv
    BY InitQueueInv
  <2>2. /\ LifeOf(j) \in Lifecycle!Life /\ LifeOf(j).phase = "queued"
        /\ LifeOf(j).outcome = "none" /\ LifeOf(j).tries = 0 /\ LifeOf(j).stop = FALSE
        /\ LifeOf(j).evidence = {}
    BY <2>1, LifeTyped DEF LifeFacts, Init, FreshJob, TerminalStatus
  <2>3. Lifecycle!Born = [phase |-> "queued", outcome |-> "none", tries |-> 0,
                          stop |-> FALSE, evidence |-> {}]
    BY DEF Lifecycle!Born, Lifecycle!Untried
  <2> QED
    BY <2>2, <2>3 DEF Lifecycle!Life
<1>2. QueueInv /\ StopSeen /\ QueueInv' /\ [Next]_vars => [Lifecycle!Next]_life
  <2> SUFFICES ASSUME QueueInv, StopSeen, QueueInv', [Next]_vars, life' # life
               PROVE  Lifecycle!Next
    OBVIOUS
  <2>1. Next
    <3> SUFFICES ASSUME UNCHANGED vars PROVE life' = life
      OBVIOUS
    <3> QED
      BY DEF vars, LifeOf
  <2>2. \A j \in Jobs : LifeOf(j) \in Lifecycle!Life /\ LifeOf(j)' \in Lifecycle!Life
    BY LifeTyped, LifeTypedNext DEF LifeFacts
  <2>3. \A j \in Jobs : LifeOf(j)' = LifeOf(j) \/ LifeOf(j)' \in Lifecycle!Steps(LifeOf(j))
    BY <2>1, <2>2, LifeStep, MovesAreSteps
  <2> QED
    BY <2>2, <2>3 DEF Lifecycle!Next
<1> QED
  BY <1>1, <1>2, QueueSafety, StopSeenAlways, PTL
  DEF Spec, ImplementsLifecycle, Lifecycle!Spec
=============================================================================
