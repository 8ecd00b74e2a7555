--------------------------- MODULE CrawlerBatches ---------------------------
(***************************************************************************)
(* Batches of crawler jobs: planned by the scheduler or the canary tool    *)
(* (ops_agent/crawler_control_scheduler.py, tools/enqueue_crawler_canary.  *)
(* py), decided and sealed by the finalizer (ops_agent/                    *)
(* crawler_control_finalizer.py), reviewed, and approved for promotion     *)
(* (tools/approve_crawler_control_batch.py).                               *)
(*                                                                         *)
(* The jobs move as JobLifecycle says, which CrawlerQueue implements; who  *)
(* moves them is not looked at here.  The planner's and the finalizer's    *)
(* transactions are READ COMMITTED: each is a first step that takes its    *)
(* advisory lock and reads, and a second one that reads again, writes and  *)
(* commits; anything may happen in between.                                *)
(***************************************************************************)
EXTENDS Naturals, FiniteSets

CONSTANTS Slots,       \* scheduled_slot of the batches of one environment
          Daily,       \* the slots of the daily schedule; the others are canaries
          Providers,   \* the concrete providers of the pinned manifest
          Planners,    \* sessions that enqueue: scheduler replicas, canary tool
          Finalizers,  \* sessions that finalize
          MaxTries,    \* max_retries + 1
          NoSlot

ASSUME BatchAssumption ==
    /\ Slots \subseteq Nat
    /\ Daily \subseteq Slots
    /\ Providers # {}
    /\ MaxTries \in Nat \ {0}
    /\ NoSlot \notin Slots

VARIABLES
    life,       \* the jobs, by slot and provider
    batch,      \* ops_crawler_batches and the batch's row of crawl_batches
    planner,    \* the transaction of each planner
    finalizer,  \* the transaction of each finalizer
    reviewed    \* the dry-run documents reviewed so far

vars == <<life, batch, planner, finalizer, reviewed>>

Jobs == Slots \X Providers
Lifecycle == INSTANCE JobLifecycle

OpenStatus == {"queued", "running"}
SealedStatus == {"success", "partial_success", "failed", "cancelled", "dead_lettered"}

\* `selected' is the sealed result's selected_attempts: the last try of each task.
Selections == SUBSET (Providers \X (1 .. MaxTries))
Batch == [status : {"absent"} \cup OpenStatus \cup SealedStatus,
          scope : SUBSET Providers, staging : {"none", "COLLECTED", "FAILED"},
          selected : Selections, promotion : {"none", "held", "approved"}]
Planner == [pc : {"idle", "surveyed"}, slot : Slots \cup {NoSlot}, scope : SUBSET Providers]
Finalizer == [pc : {"idle", "decided"}, slot : Slots \cup {NoSlot},
              decision : {"none"} \cup OpenStatus \cup SealedStatus, selected : Selections]

NoBatch == [status |-> "absent", scope |-> {}, staging |-> "none", selected |-> {},
            promotion |-> "none"]
NoPlan == [pc |-> "idle", slot |-> NoSlot, scope |-> {}]
NoDecision == [pc |-> "idle", slot |-> NoSlot, decision |-> "none", selected |-> {}]

Init ==
    /\ life = [j \in Jobs |-> Lifecycle!Unborn]
    /\ batch = [s \in Slots |-> NoBatch]
    /\ planner = [x \in Planners |-> NoPlan]
    /\ finalizer = [f \in Finalizers |-> NoDecision]
    /\ reviewed = {}

-----------------------------------------------------------------------------
(* Planning a batch.                                                       *)

\* A definition marked `Mutant' is a fault the checks must notice.

ActivePhases == {"queued", "leased"}
Active(p) == \E s \in Slots : life[<<s, p>>].phase \in ActivePhases

\* Mutant: every planner believes it is the leader.
PlannersAll == TRUE

\* pg_try_advisory_xact_lock of the scheduler: held to the end of a transaction.
PlannersIdle == \A x \in Planners : planner[x].pc = "idle"

ScopesOf(s) == IF s \in Daily THEN {Providers} ELSE {{p} : p \in Providers}

\* The leader finds no active job of the providers it plans for.
Survey(x, s, scope) ==
    /\ PlannersIdle
    /\ planner[x].pc = "idle"
    /\ scope \in ScopesOf(s)
    /\ \A p \in scope : ~Active(p)
    /\ planner' = [planner EXCEPT ![x] = [pc |-> "surveyed", slot |-> s, scope |-> scope]]
    /\ UNCHANGED <<life, batch, finalizer, reviewed>>

\* ON CONFLICT (environment, scheduled_slot) DO NOTHING.
SlotFree(s) == batch[s].status = "absent"

\* The batch and one queued job per provider; the unique index on the active
\* deduplication keys is a second guard, against which only a failure is left.
Enqueue(x) ==
    LET s == planner[x].slot
        scope == planner[x].scope
    IN
    /\ planner[x].pc = "surveyed"
    /\ IF SlotFree(s)
       THEN /\ \A p \in scope : ~Active(p)
            /\ batch' = [batch EXCEPT ![s] = [NoBatch EXCEPT !.status = "queued",
                                                             !.scope = scope]]
            /\ life' = [j \in Jobs |-> IF j[1] = s /\ j[2] \in scope
                                       THEN Lifecycle!Born ELSE life[j]]
       ELSE UNCHANGED <<batch, life>>
    /\ planner' = [planner EXCEPT ![x] = NoPlan]
    /\ UNCHANGED <<finalizer, reviewed>>

\* Any exception, or the end of the process: the transaction is rolled back.
PlannerFails(x) ==
    /\ planner[x].pc = "surveyed"
    /\ planner' = [planner EXCEPT ![x] = NoPlan]
    /\ UNCHANGED <<life, batch, finalizer, reviewed>>

-----------------------------------------------------------------------------
(* Crawling: workers, reaper, staging sessions and operators.              *)

\* A transaction that moves several jobs is the sequence of their steps: nothing
\* here tells the states in between from states it must cope with anyway.
JobStep(j) ==
    /\ life[j].phase # "absent"
    /\ \E r \in Lifecycle!Steps(life[j]) : life' = [life EXCEPT ![j] = r]
    /\ UNCHANGED <<batch, planner, finalizer, reviewed>>

-----------------------------------------------------------------------------
(* Finalizing a batch.                                                     *)

Open(s) == batch[s].status \in OpenStatus

\* A staging session's first insert locks the row of its batch FOR KEY SHARE, by the
\* foreign keys of the snapshots, until the session ends; it can be open only while
\* its job is leased (WriteFenced of CrawlerQueue), and may be open whenever it is.
MayBeLocked(s) == \E p \in batch[s].scope : life[<<s, p>>].phase = "leased"

\* Mutant: the newest open batch is taken first.
NextBatches ==
    {s \in Slots : Open(s) /\ \A t \in Slots : Open(t) /\ t > s => MayBeLocked(t)}

\* FOR UPDATE SKIP LOCKED: the open batch with the oldest slot, but for those that a
\* staging session keeps locked at the moment.
NextBatch ==
    {s \in Slots : Open(s) /\ \A t \in Slots : Open(t) /\ t < s => MayBeLocked(t)}

Tasks(s) == {life[<<s, p>>] : p \in batch[s].scope}
Selected(s) ==
    {<<p, life[<<s, p>>].tries>> : p \in {q \in batch[s].scope : life[<<s, q>>].tries > 0}}

\* Mutant: a job that waits for its retry does not keep the batch open.
DecideEarly(tasks) ==
    IF \E r \in tasks : r.phase = "leased" THEN "running"
    ELSE IF \A r \in tasks : r.outcome = "success" THEN "success"
    ELSE IF \E r \in tasks : r.outcome = "success" THEN "partial_success"
    ELSE "failed"

\* Mutant: the outcome all tasks share is taken over as it is.
DecideRaw(tasks) ==
    IF \E r \in tasks : r.phase \in ActivePhases THEN "running"
    ELSE CHOOSE o \in Lifecycle!Outcomes : \E r \in tasks : r.outcome = o

\* Mutant: one success is enough.
DecideAny(tasks) ==
    IF \E r \in tasks : r.phase \in ActivePhases THEN "running"
    ELSE IF \E r \in tasks : r.outcome = "success" THEN "success"
    ELSE "failed"

\* decide_batch.  A success of this environment is under the batch's contract
\* and carries its result: the claim and the finish see to both.
Decide(tasks) ==
    IF \E r \in tasks : r.phase = "leased" THEN "running"
    ELSE IF \E r \in tasks : r.phase = "queued" THEN "queued"
    ELSE IF \A r \in tasks : r.outcome = "success" THEN "success"
    ELSE IF \E r \in tasks : r.outcome = "success" THEN "partial_success"
    ELSE IF \A r \in tasks : r.outcome = "cancelled" THEN "cancelled"
    ELSE IF \E r \in tasks : r.outcome = "dead_lettered" THEN "dead_lettered"
    ELSE "failed"

\* pg_try_advisory_xact_lock of the finalizer.
FinalizersIdle == \A f \in Finalizers : finalizer[f].pc = "idle"

\* The tasks are read once; decision and selected attempts come from that read.  (The
\* batch's row lock makes its staging sessions wait; nothing here relies on that.)
LoadTasks(f, s) ==
    /\ FinalizersIdle
    /\ finalizer[f].pc = "idle"
    /\ s \in NextBatch
    /\ finalizer' = [finalizer EXCEPT ![f] =
                        [pc |-> "decided", slot |-> s, decision |-> Decide(Tasks(s)),
                         selected |-> Selected(s)]]
    /\ UNCHANGED <<life, batch, planner, reviewed>>

\* Tasks are active: only the batch's progress is written.
Postpone(f) ==
    LET s == finalizer[f].slot IN
    /\ finalizer[f].pc = "decided"
    /\ finalizer[f].decision \in OpenStatus
    /\ Open(s)
    /\ batch' = [batch EXCEPT ![s].status = finalizer[f].decision]
    /\ finalizer' = [finalizer EXCEPT ![f] = NoDecision]
    /\ UNCHANGED <<life, planner, reviewed>>

\* The snapshots of the jobs' last tries, counted when the batch is published.
Counted(s) == {x \in Selected(s) : x[2] \in life[<<s, x[1]>>].evidence}

\* The status and the tries that are sealed.  Results that do not agree with the
\* tasks or with the snapshots, or a success without snapshots, fail the batch
\* and leave it without tries.
Verdict(decision, selected, counted, sound) ==
    IF sound /\ (decision = "success" => counted # {})
    THEN [status |-> decision, selected |-> selected]
    ELSE [status |-> "failed", selected |-> {}]

\* _publish_staging_batch.
Publish(f) ==
    LET s == finalizer[f].slot IN
    /\ finalizer[f].pc = "decided"
    /\ finalizer[f].decision \in SealedStatus
    /\ Open(s)
    /\ \E sound \in BOOLEAN :
          LET v == Verdict(finalizer[f].decision, finalizer[f].selected, Counted(s), sound) IN
          batch' = [batch EXCEPT ![s] =
              [status |-> v.status, scope |-> batch[s].scope,
               staging |-> IF v.status = "success" THEN "COLLECTED" ELSE "FAILED",
               selected |-> v.selected, promotion |-> "held"]]
    /\ finalizer' = [finalizer EXCEPT ![f] = NoDecision]
    /\ UNCHANGED <<life, planner, reviewed>>

FinalizerFails(f) ==
    /\ finalizer[f].pc = "decided"
    /\ finalizer' = [finalizer EXCEPT ![f] = NoDecision]
    /\ UNCHANGED <<life, batch, planner, reviewed>>

-----------------------------------------------------------------------------
(* Reviewing and approving a sealed batch.                                 *)

\* The staging rows of the selected attempts, as they are now.
StagedRows(s) == {x \in batch[s].selected : x[2] \in life[<<s, x[1]>>].evidence}

\* staging_selection_fingerprint: the metadata with the result, and the rows.
Fingerprint(s) == [slot |-> s, batch |-> batch[s], rows |-> StagedRows(s)]

\* A pinned dry run, whose document is kept only for a complete collection.
Review(s) ==
    /\ batch[s].staging = "COLLECTED"
    /\ reviewed' = reviewed \cup {Fingerprint(s)}
    /\ UNCHANGED <<life, batch, planner, finalizer>>

\* Mutant: the approver does not ask for the reviewed document.
ApprovableUnreviewed(s) ==
    batch[s].staging = "COLLECTED" /\ batch[s].promotion = "held"

\* Mutant: the approver does not look at the status.
ApprovableAny(s) == batch[s].promotion = "held"

\* approve_batch and enforce_crawler_promotion_role_separation.
Approvable(s) ==
    /\ batch[s].staging = "COLLECTED"
    /\ batch[s].status = "success"
    /\ batch[s].promotion = "held"
    /\ Fingerprint(s) \in reviewed

Approve(s) ==
    /\ Approvable(s)
    /\ batch' = [batch EXCEPT ![s].promotion = "approved"]
    /\ UNCHANGED <<life, planner, finalizer, reviewed>>

-----------------------------------------------------------------------------
PlannerStep(x) ==
    \/ \E s \in Slots : \E scope \in ScopesOf(s) : Survey(x, s, scope)
    \/ Enqueue(x)
    \/ PlannerFails(x)

FinalizerStep(f) ==
    \/ \E s \in Slots : LoadTasks(f, s)
    \/ Postpone(f)
    \/ Publish(f)
    \/ FinalizerFails(f)

Next ==
    \/ \E x \in Planners : PlannerStep(x)
    \/ \E f \in Finalizers : FinalizerStep(f)
    \/ \E j \in Jobs : JobStep(j)
    \/ \E s \in Slots : Review(s) \/ Approve(s)

Spec == Init /\ [][Next]_vars

\* The finalizer polls; its transactions may fail again and again, not always.
FairSpec ==
    /\ Spec
    /\ WF_vars(\E f \in Finalizers : FinalizerStep(f))
    /\ SF_vars(\E f \in Finalizers : Postpone(f) \/ Publish(f))
-----------------------------------------------------------------------------
(* What must hold.                                                         *)

Over(r) == r.phase = "done"
Sealed(s) == batch[s].staging # "none"

\* Every row, and every local state of a transaction, has its shape.
TypeOK ==
    /\ life \in [Jobs -> Lifecycle!Life]
    /\ batch \in [Slots -> Batch]
    /\ planner \in [Planners -> Planner]
    /\ finalizer \in [Finalizers -> Finalizer]
    /\ \A d \in reviewed : d.slot \in Slots /\ d.batch \in Batch /\ d.rows \in Selections

\* A provider never has two jobs that wait or run: two crawls of one provider
\* would write each other's courses (active_deduplication, and the scheduler's
\* query for active jobs).
OneActivePerProvider ==
    \A p \in Providers : \A s, t \in Slots :
        life[<<s, p>>].phase \in ActivePhases /\ life[<<t, p>>].phase \in ActivePhases => s = t

\* What a planner found stays true until it inserts, in spite of READ COMMITTED:
\* its providers have no active job, so the unique index never rejects a whole
\* daily batch because a canary came in between.
SurveyHolds ==
    \A x \in Planners : planner[x].pc = "surveyed" => \A p \in planner[x].scope : ~Active(p)

\* What the finalizer decided stays true until it publishes: the batch is its
\* own, no task got another lease or another outcome, and the tries it will seal
\* are the last ones.  (_load_tasks reads without locking the jobs.)
DecisionHolds ==
    \A f \in Finalizers :
        LET s == finalizer[f].slot IN
        finalizer[f].decision \in SealedStatus =>
            /\ Open(s)
            /\ finalizer[f].decision = Decide(Tasks(s))
            /\ finalizer[f].selected = Selected(s)

\* A batch is COLLECTED only if every provider it was planned for succeeded, by
\* a try that nobody stopped, and there is something to promote.
CollectedComplete ==
    \A s \in Slots : batch[s].staging = "COLLECTED" =>
        /\ batch[s].scope # {}
        /\ \A p \in batch[s].scope :
              /\ Over(life[<<s, p>>])
              /\ life[<<s, p>>].outcome = "success"
              /\ ~life[<<s, p>>].stop
              /\ \A n \in 1 .. MaxTries :
                    <<p, n>> \in batch[s].selected <=> n = life[<<s, p>>].tries
        /\ StagedRows(s) # {}

\* Once a batch is sealed nothing it offers ever changes, neither the result nor
\* the rows it names, which crawler children wrote in other sessions; promotion
\* only goes from held to approved.
EvidenceFrozen ==
    [][\A s \in Slots : Sealed(s) =>
          /\ StagedRows(s)' = StagedRows(s)
          /\ \/ batch'[s] = batch[s]
             \/ /\ batch[s].promotion = "held"
                /\ batch'[s] = [batch[s] EXCEPT !.promotion = "approved"]]_vars

\* An approved batch is a complete one, exactly as somebody reviewed it.
ApprovedAsReviewed ==
    \A s \in Slots : batch[s].promotion = "approved" =>
        /\ batch[s].staging = "COLLECTED"
        /\ [slot |-> s, batch |-> [batch[s] EXCEPT !.promotion = "held"],
            rows |-> StagedRows(s)] \in reviewed

\* A batch whose jobs, and those of older batches, have ended for good is sealed:
\* neither newer batches, which may be taken first while sessions lock older ones, nor
\* failing transactions starve it.
SettledUpTo(s) ==
    /\ batch[s].status # "absent"
    /\ \A t \in Slots : t <= s => \A p \in batch[t].scope : Over(life[<<t, p>>])
BatchSettles == \A s \in Slots : <>[]SettledUpTo(s) => <>Sealed(s)

\* The jobs move along JobLifecycle and are never planned twice: what
\* CrawlerQueue guarantees is what is assumed here, and nothing here breaks it.
JobsFollowLifecycle == Lifecycle!Spec

-----------------------------------------------------------------------------
(* What the batches are for those who promote them.                        *)

StateOf(s) ==
    IF batch[s].status = "absent" THEN "absent"
    ELSE IF ~Sealed(s) THEN "open"
    ELSE IF batch[s].promotion = "approved" THEN "approved"
    ELSE IF batch[s].staging = "COLLECTED" THEN "held"
    ELSE "rejected"

Offered(s) == batch[s].staging = "COLLECTED"

LedgerOf(s) ==
    [state |-> StateOf(s), scope |-> batch[s].scope,
     picked |-> IF Offered(s) THEN batch[s].selected ELSE {},
     rows |-> IF Offered(s) THEN StagedRows(s) ELSE {}]

\* The batches keep the promises of the ledger.
Ledger == INSTANCE BatchLedger WITH ledger <- [s \in Slots |-> LedgerOf(s)]
ImplementsLedger == Ledger!Spec
=============================================================================
