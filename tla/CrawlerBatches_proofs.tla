----------------------- MODULE CrawlerBatches_proofs ------------------------
(* The safety of CrawlerBatches for any slots, providers and sessions.     *)
EXTENDS CrawlerBatches, TLAPS

-----------------------------------------------------------------------------
(* The inductive invariant.                                                *)

\* What every life satisfies on its way along JobLifecycle.
Sane(r) ==
    /\ r \in Lifecycle!Life
    /\ r.phase \in {"absent", "queued", "leased"} => r.outcome = "none"
    /\ r.phase = "done" => r.outcome # "none"
    /\ r.phase = "leased" => r.tries > 0
    /\ r.phase \in {"absent", "queued"} => r.stop = FALSE
    /\ r.outcome = "success" => r.tries > 0 /\ r.stop = FALSE

LivesSane == \A j \in Jobs : Sane(life[j])

\* The fields of a batch that go together, and the jobs a batch has.
ShapeAt(s) ==
    /\ batch[s].status = "absent" => batch[s] = NoBatch
    /\ Open(s) => /\ batch[s].staging = "none" /\ batch[s].selected = {}
                  /\ batch[s].promotion = "none" /\ batch[s].scope # {}
    /\ batch[s].status \in SealedStatus =>
          batch[s].staging # "none" /\ batch[s].promotion # "none"
    /\ batch[s].staging = "COLLECTED" <=> batch[s].status = "success"
    /\ \A p \in Providers : p \in batch[s].scope <=> life[<<s, p>>].phase # "absent"

BatchShape == \A s \in Slots : ShapeAt(s)

\* The jobs of a sealed batch have ended, and it names tries of its own jobs.
SealedOver ==
    \A s \in Slots : Sealed(s) =>
        /\ \A p \in batch[s].scope : Over(life[<<s, p>>])
        /\ \A x \in batch[s].selected : x[1] \in batch[s].scope

\* One planner and one finalizer at a time, each with its batch.
SessionShape ==
    /\ \A x \in Planners : planner[x].pc = "surveyed" =>
          /\ planner[x].slot \in Slots /\ planner[x].scope # {}
          /\ \A y \in Planners : planner[y].pc = "surveyed" => y = x
    /\ \A f \in Finalizers :
          /\ finalizer[f].pc = "decided" =>
                /\ finalizer[f].slot \in Slots
                /\ \A g \in Finalizers : finalizer[g].pc = "decided" => g = f
          /\ finalizer[f].decision # "none" => finalizer[f].pc = "decided"

BatchInv ==
    /\ TypeOK
    /\ LivesSane
    /\ BatchShape
    /\ SealedOver
    /\ SessionShape
    /\ OneActivePerProvider
    /\ SurveyHolds
    /\ DecisionHolds
    /\ CollectedComplete
    /\ ApprovedAsReviewed

-----------------------------------------------------------------------------
(* Lives.                                                                  *)

\* A job that waits or runs stays sane and never becomes unplanned.
LEMMA StepsSane ==
    ASSUME NEW r, Sane(r), r.phase # "absent", NEW q \in Lifecycle!Steps(r)
    PROVE  Sane(q) /\ q.phase # "absent" /\ r.phase \in ActivePhases
<1> USE BatchAssumption DEF Lifecycle!Life, Sane, ActivePhases
<1>0. /\ r \in Lifecycle!Life
      /\ r.phase \in {"queued", "leased", "done"}
  OBVIOUS
<1>1. CASE r.phase = "queued"
  <2>1. \/ r.tries < MaxTries /\ q = Lifecycle!Lease(r)
        \/ q = [Lifecycle!End(r, "cancelled") EXCEPT !.stop = TRUE]
    BY <1>1 DEF Lifecycle!Steps
  <2>2. CASE r.tries < MaxTries /\ q = Lifecycle!Lease(r)
    <3>1. /\ r.tries \in Nat /\ r.tries + 1 \in 0 .. MaxTries /\ r.tries + 1 > 0
          /\ r.outcome = "none" /\ r.stop = FALSE
      BY <1>1, <2>2
    <3>2. q = [r EXCEPT !.phase = "leased", !.tries = r.tries + 1]
      BY <2>2 DEF Lifecycle!Lease
    <3>3. q \in Lifecycle!Life
      BY <3>1, <3>2
    <3>4. q.phase = "leased" /\ q.tries = r.tries + 1 /\ q.outcome = r.outcome
      BY <3>2
    <3> QED
      BY <1>1, <3>1, <3>3, <3>4
  <2>3. CASE q = [Lifecycle!End(r, "cancelled") EXCEPT !.stop = TRUE]
    BY <1>1, <2>3 DEF Lifecycle!End, Lifecycle!Outcomes
  <2> QED
    BY <2>1, <2>2, <2>3
<1>2. CASE r.phase = "leased"
  <2>1. \/ q = [r EXCEPT !.evidence = @ \cup {r.tries}]
        \/ q = [r EXCEPT !.stop = TRUE]
        \/ r.stop /\ q = Lifecycle!End(r, "cancelled")
        \/ r.stop = FALSE /\ \E o \in Lifecycle!Outcomes \ {"cancelled"} :
                                q = Lifecycle!End(r, o)
        \/ r.stop = FALSE /\ q = Lifecycle!GiveBack(r)
    BY <1>2 DEF Lifecycle!Steps
  <2>2. CASE q = [r EXCEPT !.evidence = @ \cup {r.tries}]
    BY <1>2, <2>2
  <2>3. CASE q = [r EXCEPT !.stop = TRUE]
    BY <1>2, <2>3
  <2>4. CASE r.stop /\ q = Lifecycle!End(r, "cancelled")
    BY <1>2, <2>4 DEF Lifecycle!End, Lifecycle!Outcomes
  <2>5. CASE r.stop = FALSE /\ \E o \in Lifecycle!Outcomes \ {"cancelled"} :
                                  q = Lifecycle!End(r, o)
    BY <1>2, <2>5 DEF Lifecycle!End, Lifecycle!Outcomes
  <2>6. CASE r.stop = FALSE /\ q = Lifecycle!GiveBack(r)
    BY <1>2, <2>6 DEF Lifecycle!GiveBack
  <2> QED
    BY <2>1, <2>2, <2>3, <2>4, <2>5, <2>6
<1>3. CASE r.phase = "done"
  BY <1>3 DEF Lifecycle!Steps
<1> QED
  BY <1>0, <1>1, <1>2, <1>3

\* A newly planned job, and one that is not planned, are sane.
LEMMA BornSane ==
    /\ Sane(Lifecycle!Born) /\ Lifecycle!Born.phase = "queued"
    /\ Sane(Lifecycle!Unborn) /\ Lifecycle!Unborn.phase = "absent"
BY BatchAssumption DEF Sane, Lifecycle!Born, Lifecycle!Unborn, Lifecycle!Untried, Lifecycle!Life

-----------------------------------------------------------------------------
(* Decisions.                                                              *)

\* A decision that ends a batch finds no task that waits or runs.
LEMMA DecideShape ==
    ASSUME NEW tasks
    PROVE  /\ Decide(tasks) \in OpenStatus \cup SealedStatus
           /\ Decide(tasks) \in SealedStatus => \A r \in tasks : r.phase \notin ActivePhases
           /\ Decide(tasks) = "success" => \A r \in tasks : r.outcome = "success"
BY DEF Decide, OpenStatus, SealedStatus, ActivePhases

\* DecisionHolds, batch by batch.
HoldsFor(f, s) ==
    finalizer[f].slot = s /\ finalizer[f].decision \in SealedStatus =>
        /\ Open(s)
        /\ finalizer[f].decision = Decide(Tasks(s))
        /\ finalizer[f].selected = Selected(s)

LEMMA DecisionBySlot ==
    SessionShape => (DecisionHolds <=> \A f \in Finalizers, s \in Slots : HoldsFor(f, s))
<1>1. ASSUME SessionShape, NEW f \in Finalizers, finalizer[f].decision \in SealedStatus
      PROVE  finalizer[f].slot \in Slots
  BY <1>1 DEF SessionShape, SealedStatus
<1> QED
  BY <1>1 DEF DecisionHolds, HoldsFor

LEMMA DecisionBySlotNext ==
    (SessionShape => (DecisionHolds <=> \A f \in Finalizers, s \in Slots : HoldsFor(f, s)))'
BY DecisionBySlot, PTL

\* A slot whose jobs and scope stay the same is decided the same.
LEMMA SlotKept ==
    ASSUME NEW s \in Slots, batch'[s].scope = batch[s].scope,
           \A p \in batch[s].scope : life'[<<s, p>>] = life[<<s, p>>]
    PROVE  /\ Tasks(s)' = Tasks(s)
           /\ Decide(Tasks(s))' = Decide(Tasks(s))
           /\ Selected(s)' = Selected(s)
<1>1. Tasks(s)' = Tasks(s)
  BY DEF Tasks
<1>2. Selected(s)' = Selected(s)
  BY DEF Selected
<1> QED
  BY <1>1, <1>2 DEF Decide

\* The rows of a slot whose jobs and tries stay the same stay the same.
LEMMA RowsKept ==
    ASSUME NEW s \in Slots, batch'[s].selected = batch[s].selected,
           \A x \in batch[s].selected : life'[<<s, x[1]>>] = life[<<s, x[1]>>]
    PROVE  StagedRows(s)' = StagedRows(s)
BY DEF StagedRows

-----------------------------------------------------------------------------
(* The initial states, and what sessions do on their own.                  *)

LEMMA InitBatchInv == Init => BatchInv
<1> SUFFICES ASSUME Init PROVE BatchInv
  OBVIOUS
<1> USE BatchAssumption DEF Init, NoBatch, NoPlan, NoDecision
<1>1. TypeOK
  <2>1. Lifecycle!Unborn \in Lifecycle!Life
    BY BornSane DEF Sane
  <2>2. life \in [Jobs -> Lifecycle!Life]
    BY <2>1
  <2> QED
    BY <2>2 DEF TypeOK, Batch, Planner, Finalizer, Selections
<1>2. LivesSane
  BY BornSane DEF LivesSane
<1>3. \A s \in Slots, p \in Providers : life[<<s, p>>].phase = "absent"
  BY BornSane DEF Jobs
<1>4. BatchShape /\ SealedOver
  BY <1>3 DEF BatchShape, ShapeAt, SealedOver, Open, OpenStatus, SealedStatus, Sealed
<1>5. SessionShape /\ SurveyHolds /\ DecisionHolds
  BY DEF SessionShape, SurveyHolds, DecisionHolds, SealedStatus
<1>6. OneActivePerProvider
  BY <1>3 DEF OneActivePerProvider, ActivePhases
<1>7. CollectedComplete /\ ApprovedAsReviewed
  BY DEF CollectedComplete, ApprovedAsReviewed
<1> QED
  BY <1>1, <1>2, <1>4, <1>5, <1>6, <1>7 DEF BatchInv

\* Steps that touch neither jobs nor batches keep what is said of those.
LEMMA StoreKept ==
    ASSUME BatchInv, UNCHANGED <<life, batch>>, reviewed \subseteq reviewed'
    PROVE  /\ LivesSane' /\ BatchShape' /\ SealedOver' /\ OneActivePerProvider'
           /\ CollectedComplete' /\ ApprovedAsReviewed'
<1>1. LivesSane' /\ BatchShape' /\ SealedOver' /\ OneActivePerProvider'
  BY DEF BatchInv, LivesSane, BatchShape, ShapeAt, Open, SealedOver, Sealed, OneActivePerProvider
<1>2. \A s \in Slots : StagedRows(s)' = StagedRows(s)
  BY DEF StagedRows
<1>3. CollectedComplete' /\ ApprovedAsReviewed'
  BY <1>2 DEF BatchInv, CollectedComplete, ApprovedAsReviewed
<1> QED
  BY <1>1, <1>3

\* The planners' part of the invariant, and the finalizers', are kept by steps
\* that do not touch what they read.
LEMMA PlannersKept ==
    ASSUME SurveyHolds, UNCHANGED <<life, planner>>
    PROVE  SurveyHolds'
BY DEF SurveyHolds, Active

LEMMA FinalizersKept ==
    ASSUME BatchInv, SessionShape', UNCHANGED <<life, batch>>,
           \A g \in Finalizers : \/ finalizer'[g] = finalizer[g]
                                 \/ finalizer'[g].decision \notin SealedStatus
    PROVE  DecisionHolds'
<1> SUFFICES ASSUME NEW g \in Finalizers, NEW s \in Slots PROVE HoldsFor(g, s)'
  BY DecisionBySlotNext
<1>1. HoldsFor(g, s)
  BY DecisionBySlot DEF BatchInv
<1>2. Decide(Tasks(s))' = Decide(Tasks(s)) /\ Selected(s)' = Selected(s)
  BY SlotKept
<1> QED
  BY <1>1, <1>2 DEF HoldsFor, Open

LEMMA SurveyInv ==
    ASSUME BatchInv, NEW x \in Planners, NEW s \in Slots, NEW scope \in ScopesOf(s),
           Survey(x, s, scope)
    PROVE  BatchInv'
<1> USE BatchAssumption DEF BatchInv, Survey
<1>0. scope \subseteq Providers /\ scope # {}
  BY DEF ScopesOf
<1>1. TypeOK'
  BY <1>0 DEF TypeOK, Planner
<1>2. SessionShape'
  BY <1>0 DEF SessionShape, PlannersIdle, TypeOK, Planner
<1>3. SurveyHolds'
  BY <1>0 DEF SurveyHolds, Active, TypeOK, Planner
<1> QED
  BY <1>1, <1>2, <1>3, StoreKept, FinalizersKept

LEMMA PlannerFailsInv ==
    ASSUME BatchInv, NEW x \in Planners, PlannerFails(x)
    PROVE  BatchInv'
<1> USE BatchAssumption DEF BatchInv, PlannerFails, NoPlan
<1>1. TypeOK'
  BY DEF TypeOK, Planner
<1>2. SessionShape' /\ SurveyHolds'
  BY DEF SessionShape, SurveyHolds, Active, TypeOK, Planner
<1> QED
  BY <1>1, <1>2, StoreKept, FinalizersKept

\* The selected tries of a batch are tries of its providers.
LEMMA SelectedTyped ==
    ASSUME TypeOK, NEW s \in Slots
    PROVE  /\ Selected(s) \in Selections
           /\ \A x \in Selected(s) : x[1] \in batch[s].scope
<1>1. batch[s].scope \subseteq Providers
  BY DEF TypeOK, Batch
<1>2. \A p \in Providers : life[<<s, p>>].tries \in 0 .. MaxTries
  BY DEF TypeOK, Jobs, Lifecycle!Life
<1>3. ASSUME NEW x \in Selected(s)
      PROVE  x \in Providers \X (1 .. MaxTries) /\ x[1] \in batch[s].scope
  <2>1. PICK p \in batch[s].scope : life[<<s, p>>].tries > 0 /\ x = <<p, life[<<s, p>>].tries>>
    BY DEF Selected
  <2> QED
    BY <1>1, <1>2, <2>1, BatchAssumption
<1> QED
  BY <1>3 DEF Selections

LEMMA LoadTasksInv ==
    ASSUME BatchInv, NEW f \in Finalizers, NEW s \in Slots, LoadTasks(f, s)
    PROVE  BatchInv'
<1> USE BatchAssumption DEF BatchInv, LoadTasks
<1> DEFINE d == [pc |-> "decided", slot |-> s, decision |-> Decide(Tasks(s)),
                 selected |-> Selected(s)]
<1>0. Decide(Tasks(s)) \in OpenStatus \cup SealedStatus /\ Selected(s) \in Selections
  BY DecideShape, SelectedTyped
<1>1. d \in Finalizer
  BY <1>0 DEF Finalizer
<1>2. TypeOK'
  BY <1>1 DEF TypeOK
<1>3. SessionShape'
  BY <1>0 DEF SessionShape, FinalizersIdle, TypeOK, Finalizer
<1>4. DecisionHolds'
  <2> SUFFICES ASSUME NEW g \in Finalizers, NEW t \in Slots PROVE HoldsFor(g, t)'
    BY <1>3, DecisionBySlotNext
  <2>1. CASE g = f
    <3>1. finalizer'[g] = d
      BY <2>1 DEF TypeOK
    <3>2. Decide(Tasks(s))' = Decide(Tasks(s)) /\ Selected(s)' = Selected(s)
      BY SlotKept
    <3>3. Open(s)'
      BY DEF NextBatch, Open
    <3> QED
      BY <3>1, <3>2, <3>3 DEF HoldsFor
  <2>2. CASE g # f
    <3>1. finalizer'[g] = finalizer[g] /\ finalizer[g].decision \notin SealedStatus
      BY <2>2 DEF TypeOK, FinalizersIdle, SessionShape, SealedStatus
    <3> QED
      BY <3>1 DEF HoldsFor
  <2> QED
    BY <2>1, <2>2
<1> QED
  BY <1>2, <1>3, <1>4, StoreKept, PlannersKept

LEMMA FinalizerFailsInv ==
    ASSUME BatchInv, NEW f \in Finalizers, FinalizerFails(f)
    PROVE  BatchInv'
<1> USE BatchAssumption DEF BatchInv, FinalizerFails, NoDecision
<1>1. TypeOK'
  BY DEF TypeOK, Finalizer, Selections
<1>2. SessionShape'
  BY DEF SessionShape, TypeOK, Finalizer
<1>3. DecisionHolds'
  BY <1>2, FinalizersKept DEF TypeOK, SealedStatus
<1> QED
  BY <1>1, <1>2, <1>3, StoreKept, PlannersKept

LEMMA ReviewInv ==
    ASSUME BatchInv, NEW s \in Slots, Review(s)
    PROVE  BatchInv'
<1> USE BatchAssumption DEF BatchInv, Review
<1>1. StagedRows(s) \in Selections
  BY DEF StagedRows, TypeOK, Batch, Selections
<1>2. TypeOK'
  BY <1>1 DEF TypeOK, Fingerprint
<1>3. SessionShape'
  BY DEF SessionShape
<1> QED
  BY <1>2, <1>3, StoreKept, PlannersKept, FinalizersKept

-----------------------------------------------------------------------------
(* Steps that move jobs or batches.                                        *)

\* What is said of a sealed batch, slot by slot.
SealFacts(s) ==
    /\ Sealed(s) =>
          /\ \A p \in batch[s].scope : Over(life[<<s, p>>])
          /\ \A x \in batch[s].selected : x[1] \in batch[s].scope
    /\ batch[s].staging = "COLLECTED" =>
          /\ batch[s].scope # {}
          /\ \A p \in batch[s].scope :
                /\ Over(life[<<s, p>>])
                /\ life[<<s, p>>].outcome = "success"
                /\ ~life[<<s, p>>].stop
                /\ \A n \in 1 .. MaxTries :
                      <<p, n>> \in batch[s].selected <=> n = life[<<s, p>>].tries
          /\ StagedRows(s) # {}
    /\ batch[s].promotion = "approved" =>
          /\ batch[s].staging = "COLLECTED"
          /\ [slot |-> s, batch |-> [batch[s] EXCEPT !.promotion = "held"],
              rows |-> StagedRows(s)] \in reviewed

LEMMA SealBySlot ==
    SealedOver /\ CollectedComplete /\ ApprovedAsReviewed <=> \A s \in Slots : SealFacts(s)
BY DEF SealedOver, CollectedComplete, ApprovedAsReviewed, SealFacts

LEMMA SealBySlotNext ==
    (SealedOver /\ CollectedComplete /\ ApprovedAsReviewed <=> \A s \in Slots : SealFacts(s))'
BY SealBySlot, PTL

\* A batch that does not move, and whose jobs do not if it is sealed, keeps it all.
LEMMA SealFactsKept ==
    ASSUME BatchInv, NEW s \in Slots, batch'[s] = batch[s], reviewed \subseteq reviewed',
           Sealed(s) => \A p \in batch[s].scope : life'[<<s, p>>] = life[<<s, p>>]
    PROVE  SealFacts(s)' /\ (Sealed(s) => StagedRows(s)' = StagedRows(s))
<1>0. SealFacts(s)
  BY SealBySlot DEF BatchInv
<1>1. Sealed(s)' <=> Sealed(s)
  BY DEF Sealed
<1>2. CASE ~Sealed(s)
  <2>1. batch[s].staging = "none"
    BY <1>2 DEF Sealed
  <2>2. batch[s].promotion # "approved"
    BY <1>0, <2>1 DEF SealFacts
  <2> QED
    BY <1>1, <1>2, <2>1, <2>2 DEF SealFacts
<1>3. CASE Sealed(s)
  <2>1. StagedRows(s)' = StagedRows(s)
    BY <1>0, <1>3, RowsKept DEF SealFacts
  <2> QED
    BY <1>0, <1>1, <1>3, <2>1 DEF SealFacts, Over
<1> QED
  BY <1>2, <1>3

\* A batch that is not open is not sealed by a decision either.
LEMMA UnsealedFacts ==
    ASSUME NEW s \in Slots, batch'[s].staging = "none", batch'[s].promotion = "none"
    PROVE  SealFacts(s)'
BY DEF SealFacts, Sealed

LEMMA JobStepInv ==
    ASSUME BatchInv, NEW j \in Jobs, JobStep(j)
    PROVE  BatchInv'
<1> USE BatchAssumption DEF BatchInv
<1>0. PICK r \in Lifecycle!Steps(life[j]) : life' = [life EXCEPT ![j] = r]
  BY DEF JobStep
<1>1. /\ UNCHANGED <<batch, planner, finalizer, reviewed>>
      /\ life[j].phase # "absent" /\ Sane(life[j])
  BY DEF JobStep, LivesSane
<1>2. Sane(r) /\ r.phase # "absent" /\ life[j].phase \in ActivePhases
  BY <1>1, StepsSane
<1>3. \A k \in Jobs : life'[k] = IF k = j THEN r ELSE life[k]
  BY <1>0 DEF TypeOK
<1>4. TypeOK'
  BY <1>0, <1>1, <1>2 DEF TypeOK, Sane
<1>5. LivesSane'
  BY <1>2, <1>3 DEF LivesSane
<1>6. BatchShape'
  BY <1>1, <1>2, <1>3 DEF BatchShape, ShapeAt, Open, Jobs
<1>7. SessionShape'
  BY <1>1 DEF SessionShape
<1>8. \A s \in Slots, p \in Providers :
          life'[<<s, p>>].phase \in ActivePhases => life[<<s, p>>].phase \in ActivePhases
  BY <1>2, <1>3 DEF Jobs
<1>9. OneActivePerProvider' /\ SurveyHolds'
  BY <1>1, <1>8 DEF OneActivePerProvider, SurveyHolds, Active, TypeOK, Planner
<1>10. SealedOver' /\ CollectedComplete' /\ ApprovedAsReviewed'
  <2> SUFFICES ASSUME NEW s \in Slots PROVE SealFacts(s)'
    BY SealBySlotNext
  <2>1. Sealed(s) => \A p \in batch[s].scope : life'[<<s, p>>] = life[<<s, p>>]
    BY <1>2, <1>3 DEF SealedOver, Over, ActivePhases, Jobs, TypeOK, Batch
  <2> QED
    BY <1>1, <2>1, SealFactsKept
<1>11. DecisionHolds'
  <2> SUFFICES ASSUME NEW g \in Finalizers, NEW s \in Slots, finalizer[g].slot = s,
                      finalizer[g].decision \in SealedStatus
               PROVE  HoldsFor(g, s)'
    BY <1>1, <1>7, DecisionBySlotNext DEF HoldsFor
  <2>1. HoldsFor(g, s)
    BY DecisionBySlot
  <2>2. \A p \in batch[s].scope : life[<<s, p>>].phase \notin ActivePhases
    BY <2>1, DecideShape DEF HoldsFor, Tasks
  <2>3. \A p \in batch[s].scope : life'[<<s, p>>] = life[<<s, p>>]
    BY <1>2, <1>3, <2>2 DEF Jobs, TypeOK, Batch
  <2>4. Decide(Tasks(s))' = Decide(Tasks(s)) /\ Selected(s)' = Selected(s)
    BY <1>1, <2>3, SlotKept
  <2> QED
    BY <1>1, <2>1, <2>4 DEF HoldsFor, Open
<1> QED
  BY <1>4, <1>5, <1>6, <1>7, <1>9, <1>10, <1>11

LEMMA EnqueueInv ==
    ASSUME BatchInv, NEW x \in Planners, Enqueue(x)
    PROVE  BatchInv'
<1> USE BatchAssumption DEF BatchInv, NoPlan
<1>0. PICK s \in Slots, scope \in SUBSET Providers :
          s = planner[x].slot /\ scope = planner[x].scope /\ scope # {}
  BY DEF Enqueue, SessionShape, TypeOK, Planner
<1>1. /\ planner[x].pc = "surveyed" /\ planner' = [planner EXCEPT ![x] = NoPlan]
      /\ UNCHANGED <<finalizer, reviewed>>
  BY DEF Enqueue
<1>2. /\ \A y \in Planners : planner'[y].pc # "surveyed"
      /\ planner' \in [Planners -> Planner]
  BY <1>1 DEF SessionShape, TypeOK, Planner
<1>3. SessionShape' /\ SurveyHolds'
  BY <1>1, <1>2 DEF SessionShape, SurveyHolds
<1>4. CASE ~SlotFree(s)
  <2>1. UNCHANGED <<batch, life>>
    BY <1>0, <1>4 DEF Enqueue
  <2> QED
    BY <1>1, <1>2, <1>3, <2>1, StoreKept, FinalizersKept DEF TypeOK
<1>5. CASE SlotFree(s)
  <2> DEFINE b == [NoBatch EXCEPT !.status = "queued", !.scope = scope]
  <2>1. /\ \A p \in scope : ~Active(p)
        /\ batch' = [batch EXCEPT ![s] = b]
        /\ life' = [j \in Jobs |-> IF j[1] = s /\ j[2] \in scope
                                   THEN Lifecycle!Born ELSE life[j]]
    BY <1>0, <1>5 DEF Enqueue
  <2>2. /\ b \in Batch /\ b.status = "queued" /\ b.scope = scope /\ b.staging = "none"
        /\ b.selected = {} /\ b.promotion = "none"
    BY DEF NoBatch, Batch, OpenStatus, Selections
  <2>3. /\ batch'[s] = b
        /\ \A t \in Slots : t # s => batch'[t] = batch[t]
    BY <2>1 DEF TypeOK
  <2>4. \A t \in Slots, p \in Providers :
            life'[<<t, p>>] = IF t = s /\ p \in scope THEN Lifecycle!Born ELSE life[<<t, p>>]
    BY <2>1 DEF Jobs
  <2>5. batch[s].status = "absent" /\ \A p \in Providers : life[<<s, p>>].phase = "absent"
    BY <1>5 DEF SlotFree, BatchShape, ShapeAt, NoBatch
  <2>6. TypeOK'
    BY <1>1, <1>2, <2>1, <2>2, BornSane DEF TypeOK, Sane
  <2>7. LivesSane'
    BY <2>1, BornSane DEF LivesSane
  <2>8. BatchShape'
    <3> SUFFICES ASSUME NEW t \in Slots PROVE ShapeAt(t)'
      BY DEF BatchShape, ShapeAt
    <3>1. CASE t = s
      BY <1>0, <2>2, <2>3, <2>4, <2>5, <3>1, BornSane DEF ShapeAt, SealedStatus
    <3>2. CASE t # s
      BY <2>3, <2>4, <3>2 DEF BatchShape, ShapeAt, Open
    <3> QED
      BY <3>1, <3>2
  <2>9. OneActivePerProvider'
    BY <2>1, <2>4 DEF OneActivePerProvider, Active
  <2>10. SealedOver' /\ CollectedComplete' /\ ApprovedAsReviewed'
    <3> SUFFICES ASSUME NEW t \in Slots PROVE SealFacts(t)'
      BY SealBySlotNext
    <3>1. CASE t = s
      BY <2>2, <2>3, <3>1, UnsealedFacts
    <3>2. CASE t # s
      <4>1. \A p \in batch[t].scope : life'[<<t, p>>] = life[<<t, p>>]
        BY <2>4, <3>2 DEF TypeOK, Batch
      <4> QED
        BY <1>1, <2>3, <3>2, <4>1, SealFactsKept
    <3> QED
      BY <3>1, <3>2
  <2>11. DecisionHolds'
    <3> SUFFICES ASSUME NEW g \in Finalizers, NEW t \in Slots, finalizer[g].slot = t,
                        finalizer[g].decision \in SealedStatus
                 PROVE  HoldsFor(g, t)'
      BY <1>1, <1>3, DecisionBySlotNext DEF HoldsFor
    <3>1. HoldsFor(g, t)
      BY DecisionBySlot
    <3>2. t # s
      BY <2>5, <3>1 DEF HoldsFor, Open, OpenStatus
    <3>3. \A p \in batch[t].scope : life'[<<t, p>>] = life[<<t, p>>]
      BY <2>4, <3>2 DEF TypeOK, Batch
    <3>4. Decide(Tasks(t))' = Decide(Tasks(t)) /\ Selected(t)' = Selected(t)
      BY <2>3, <3>2, <3>3, SlotKept
    <3> QED
      BY <1>1, <2>3, <3>1, <3>2, <3>4 DEF HoldsFor, Open
  <2> QED
    BY <1>3, <2>6, <2>7, <2>8, <2>9, <2>10, <2>11
<1> QED
  BY <1>4, <1>5

\* After a finalizer's step no finalizer has a decision.
LEMMA DecisionSpent ==
    ASSUME BatchInv, NEW f \in Finalizers, finalizer[f].pc = "decided",
           finalizer' = [finalizer EXCEPT ![f] = NoDecision]
    PROVE  /\ \A g \in Finalizers : finalizer'[g].decision = "none"
           /\ finalizer' \in [Finalizers -> Finalizer]
           /\ \A g \in Finalizers : finalizer'[g].pc = "idle"
<1> USE DEF NoDecision
<1>1. finalizer'[f] = NoDecision /\ \A g \in Finalizers : g # f => finalizer'[g] = finalizer[g]
  BY DEF BatchInv, TypeOK
<1>2. \A g \in Finalizers : g # f => finalizer[g].pc = "idle" /\ finalizer[g].decision = "none"
  BY DEF BatchInv, TypeOK, SessionShape, Finalizer
<1> QED
  BY <1>1, <1>2 DEF BatchInv, TypeOK, Finalizer, Selections

LEMMA PostponeInv ==
    ASSUME BatchInv, NEW f \in Finalizers, Postpone(f)
    PROVE  BatchInv'
<1> USE BatchAssumption DEF BatchInv
<1>0. PICK s \in Slots : s = finalizer[f].slot
  BY DEF Postpone, SessionShape
<1> DEFINE d == finalizer[f].decision
<1>1. /\ finalizer[f].pc = "decided" /\ d \in OpenStatus /\ Open(s)
      /\ batch' = [batch EXCEPT ![s].status = d]
      /\ finalizer' = [finalizer EXCEPT ![f] = NoDecision]
      /\ UNCHANGED <<life, planner, reviewed>>
  BY <1>0 DEF Postpone
<1>2. /\ \A t \in Slots : t # s => batch'[t] = batch[t]
      /\ batch'[s] = [batch[s] EXCEPT !.status = d]
  BY <1>1 DEF TypeOK
<1>3. /\ batch'[s] \in Batch /\ batch'[s].status = d /\ batch'[s].scope = batch[s].scope
      /\ batch'[s].staging = "none" /\ batch'[s].selected = {} /\ batch'[s].promotion = "none"
      /\ batch'[s].scope # {}
  BY <1>1, <1>2 DEF TypeOK, Batch, BatchShape, ShapeAt, OpenStatus
<1>4. TypeOK'
  BY <1>1, <1>3, DecisionSpent DEF TypeOK
<1>5. LivesSane' /\ OneActivePerProvider'
  BY <1>1 DEF LivesSane, OneActivePerProvider
<1>6. BatchShape'
  BY <1>1, <1>2, <1>3 DEF BatchShape, ShapeAt, Open, OpenStatus, SealedStatus
<1>7. SessionShape' /\ SurveyHolds' /\ DecisionHolds'
  <2>1. \A g \in Finalizers : finalizer'[g].decision = "none" /\ finalizer'[g].pc = "idle"
    BY <1>1, DecisionSpent
  <2>2. SessionShape'
    BY <1>1, <2>1 DEF SessionShape
  <2>3. SurveyHolds'
    BY <1>1, PlannersKept
  <2>4. DecisionHolds'
    BY <2>1 DEF DecisionHolds, SealedStatus
  <2> QED
    BY <2>2, <2>3, <2>4
<1>8. SealedOver' /\ CollectedComplete' /\ ApprovedAsReviewed'
  <2> SUFFICES ASSUME NEW t \in Slots PROVE SealFacts(t)'
    BY SealBySlotNext
  <2>1. CASE t = s
    BY <1>3, <2>1, UnsealedFacts
  <2>2. CASE t # s
    BY <1>1, <1>2, <2>2, SealFactsKept
  <2> QED
    BY <2>1, <2>2
<1> QED
  BY <1>4, <1>5, <1>6, <1>7, <1>8

\* The verdict on a batch the finalizer may seal.
LEMMA VerdictShape ==
    ASSUME NEW d \in SealedStatus, NEW selected, NEW counted, NEW sound \in BOOLEAN,
           NEW v, v = Verdict(d, selected, counted, sound)
    PROVE  /\ v.status \in SealedStatus
           /\ v.selected \in {selected, {}}
           /\ v.status = "success" => d = "success" /\ counted # {} /\ v.selected = selected
BY DEF Verdict, SealedStatus

\* What a decision to seal says of the jobs.
LEMMA DecisionSettled ==
    ASSUME BatchInv, NEW f \in Finalizers, NEW s \in Slots, finalizer[f].slot = s,
           finalizer[f].decision \in SealedStatus
    PROVE  /\ Open(s) /\ finalizer[f].selected = Selected(s)
           /\ \A p \in batch[s].scope : Over(life[<<s, p>>])
           /\ finalizer[f].decision = "success" =>
                 \A p \in batch[s].scope :
                    /\ life[<<s, p>>].outcome = "success"
                    /\ life[<<s, p>>].stop = FALSE
                    /\ life[<<s, p>>].tries > 0
<1> USE DEF BatchInv
<1>1. HoldsFor(f, s)
  BY DecisionBySlot
<1>2. \A p \in batch[s].scope : /\ Sane(life[<<s, p>>]) /\ life[<<s, p>>].phase # "absent"
                                /\ life[<<s, p>>].phase \notin ActivePhases
  <2> SUFFICES ASSUME NEW p \in batch[s].scope
               PROVE  /\ Sane(life[<<s, p>>]) /\ life[<<s, p>>].phase # "absent"
                      /\ life[<<s, p>>].phase \notin ActivePhases
    OBVIOUS
  <2>1. p \in Providers
    BY DEF TypeOK, Batch
  <2>2. Sane(life[<<s, p>>]) /\ life[<<s, p>>].phase # "absent"
    BY <2>1 DEF LivesSane, Jobs, BatchShape, ShapeAt
  <2>3. \A r \in Tasks(s) : r.phase \notin ActivePhases
    BY <1>1, DecideShape DEF HoldsFor
  <2> QED
    BY <2>2, <2>3 DEF Tasks
<1>3. finalizer[f].decision = "success" =>
          \A p \in batch[s].scope : life[<<s, p>>].outcome = "success"
  BY <1>1, DecideShape DEF HoldsFor, Tasks
<1> QED
  BY <1>1, <1>2, <1>3 DEF HoldsFor, Sane, Over, ActivePhases, Lifecycle!Life

\* What Publish writes.
Sealing(f, s, v) ==
    [status |-> v.status, scope |-> batch[s].scope,
     staging |-> IF v.status = "success" THEN "COLLECTED" ELSE "FAILED",
     selected |-> v.selected, promotion |-> "held"]

\* A batch that is published has ended, and is complete if it is a success.
LEMMA PublishFacts ==
    ASSUME BatchInv, NEW f \in Finalizers, Publish(f), NEW s \in Slots, s = finalizer[f].slot
    PROVE  /\ finalizer[f].pc = "decided"
           /\ finalizer' = [finalizer EXCEPT ![f] = NoDecision]
           /\ UNCHANGED <<life, planner, reviewed>>
           /\ \A t \in Slots : t # s => batch'[t] = batch[t]
           /\ batch' \in [Slots -> Batch]
           /\ Open(s) /\ batch'[s].scope = batch[s].scope /\ batch'[s].scope # {}
           /\ batch'[s].status \in SealedStatus
           /\ batch'[s].staging = IF batch'[s].status = "success" THEN "COLLECTED" ELSE "FAILED"
           /\ batch'[s].promotion = "held"
           /\ SealFacts(s)'
<1> USE BatchAssumption DEF BatchInv
<1>1. /\ finalizer[f].pc = "decided" /\ finalizer[f].decision \in SealedStatus
      /\ finalizer' = [finalizer EXCEPT ![f] = NoDecision]
      /\ UNCHANGED <<life, planner, reviewed>>
  BY DEF Publish
<1>2. PICK sound \in BOOLEAN :
          batch' = [batch EXCEPT ![s] = Sealing(f, s, Verdict(finalizer[f].decision,
                        finalizer[f].selected, Counted(s), sound))]
  BY DEF Publish, Sealing
<1>3. PICK v : v = Verdict(finalizer[f].decision, finalizer[f].selected, Counted(s), sound)
  OBVIOUS
<1>4. /\ v.status \in SealedStatus /\ v.selected \in {Selected(s), {}}
      /\ v.status = "success" => /\ finalizer[f].decision = "success"
                                 /\ Counted(s) # {} /\ v.selected = Selected(s)
  <2>1. finalizer[f].selected = Selected(s)
    BY <1>1, DecisionSettled
  <2>2. /\ v.status \in SealedStatus /\ v.selected \in {finalizer[f].selected, {}}
        /\ v.status = "success" => /\ finalizer[f].decision = "success" /\ Counted(s) # {}
                                   /\ v.selected = finalizer[f].selected
    BY <1>1, <1>3, VerdictShape
  <2> QED
    BY <2>1, <2>2
<1>5. /\ batch'[s] = Sealing(f, s, v)
      /\ \A t \in Slots : t # s => batch'[t] = batch[t]
  BY <1>2, <1>3 DEF TypeOK
<1>6. /\ batch'[s].status = v.status /\ batch'[s].scope = batch[s].scope
      /\ batch'[s].staging = IF v.status = "success" THEN "COLLECTED" ELSE "FAILED"
      /\ batch'[s].selected = v.selected /\ batch'[s].promotion = "held"
  BY <1>5 DEF Sealing
<1>7. Sealing(f, s, v) \in Batch
  BY <1>4, SelectedTyped DEF Sealing, Batch, Selections, TypeOK
<1>8. batch' \in [Slots -> Batch]
  BY <1>2, <1>3, <1>7 DEF TypeOK
<1>9. Open(s) /\ batch'[s].scope # {}
  BY <1>1, <1>6, DecisionSettled DEF BatchShape, ShapeAt
<1>10. SealFacts(s)'
  <2>1. \A p \in batch[s].scope : Over(life'[<<s, p>>])
    BY <1>1, DecisionSettled
  <2>2. \A x \in batch'[s].selected : x[1] \in batch[s].scope
    BY <1>4, <1>6, SelectedTyped
  <2>3. ASSUME v.status = "success"
        PROVE  /\ \A p \in batch[s].scope :
                     /\ life'[<<s, p>>].outcome = "success" /\ ~life'[<<s, p>>].stop
                     /\ \A n \in 1 .. MaxTries :
                           <<p, n>> \in batch'[s].selected <=> n = life'[<<s, p>>].tries
               /\ StagedRows(s)' # {}
    <3>1. batch'[s].selected = Selected(s) /\ Counted(s) # {}
      BY <1>4, <1>6, <2>3
    <3>2. StagedRows(s)' = Counted(s)
      BY <1>1, <3>1 DEF StagedRows, Counted
    <3>3. \A p \in batch[s].scope : /\ life[<<s, p>>].outcome = "success"
                                    /\ life[<<s, p>>].stop = FALSE
                                    /\ life[<<s, p>>].tries > 0
      BY <1>1, <1>4, <2>3, DecisionSettled
    <3>4. \A p \in batch[s].scope : \A n \in 1 .. MaxTries :
              <<p, n>> \in Selected(s) <=> n = life[<<s, p>>].tries
      BY <3>3 DEF Selected
    <3> QED
      BY <1>1, <3>1, <3>2, <3>3, <3>4
  <2> QED
    BY <1>6, <1>9, <2>1, <2>2, <2>3 DEF SealFacts
<1> QED
  BY <1>1, <1>4, <1>5, <1>6, <1>8, <1>9, <1>10

LEMMA PublishInv ==
    ASSUME BatchInv, NEW f \in Finalizers, Publish(f)
    PROVE  BatchInv'
<1> USE BatchAssumption
<1>0. PICK s \in Slots : s = finalizer[f].slot
  BY DEF Publish, BatchInv, SessionShape
<1>1. /\ finalizer[f].pc = "decided"
      /\ finalizer' = [finalizer EXCEPT ![f] = NoDecision]
      /\ UNCHANGED <<life, planner, reviewed>>
      /\ \A t \in Slots : t # s => batch'[t] = batch[t]
      /\ batch' \in [Slots -> Batch]
      /\ Open(s) /\ batch'[s].scope = batch[s].scope
      /\ batch'[s].status \in SealedStatus
      /\ batch'[s].staging = IF batch'[s].status = "success" THEN "COLLECTED" ELSE "FAILED"
      /\ batch'[s].promotion = "held"
      /\ SealFacts(s)'
  BY <1>0, PublishFacts
<1> USE DEF BatchInv
<1>2. TypeOK'
  BY <1>1, DecisionSpent DEF TypeOK
<1>3. LivesSane' /\ OneActivePerProvider'
  BY <1>1 DEF LivesSane, OneActivePerProvider
<1>4. BatchShape'
  BY <1>1 DEF BatchShape, ShapeAt, Open, OpenStatus, SealedStatus
<1>5. SessionShape' /\ SurveyHolds' /\ DecisionHolds'
  <2>1. \A g \in Finalizers : finalizer'[g].decision = "none" /\ finalizer'[g].pc = "idle"
    BY <1>1, DecisionSpent
  <2>2. SessionShape'
    BY <1>1, <2>1 DEF SessionShape
  <2>3. SurveyHolds'
    BY <1>1, PlannersKept
  <2>4. DecisionHolds'
    BY <2>1 DEF DecisionHolds, SealedStatus
  <2> QED
    BY <2>2, <2>3, <2>4
<1>6. SealedOver' /\ CollectedComplete' /\ ApprovedAsReviewed'
  <2> SUFFICES ASSUME NEW t \in Slots PROVE SealFacts(t)'
    BY SealBySlotNext
  <2>1. CASE t # s
    BY <1>1, <2>1, SealFactsKept
  <2> QED
    BY <1>1, <2>1
<1> QED
  BY <1>2, <1>3, <1>4, <1>5, <1>6

\* Approval changes the promotion of one batch.
LEMMA ApproveFacts ==
    ASSUME BatchInv, NEW s \in Slots, Approve(s)
    PROVE  /\ UNCHANGED <<life, planner, finalizer, reviewed>>
           /\ \A t \in Slots : t # s => batch'[t] = batch[t]
           /\ batch'[s] = [batch[s] EXCEPT !.promotion = "approved"]
           /\ batch' \in [Slots -> Batch]
           /\ batch[s] = [batch'[s] EXCEPT !.promotion = "held"]
           /\ batch[s].promotion = "held" /\ batch'[s].promotion = "approved"
           /\ batch[s].staging = "COLLECTED" /\ batch[s].status = "success"
           /\ batch'[s].status = batch[s].status /\ batch'[s].scope = batch[s].scope
           /\ batch'[s].staging = batch[s].staging /\ batch'[s].selected = batch[s].selected
           /\ Fingerprint(s) \in reviewed
<1>1. /\ UNCHANGED <<life, planner, finalizer, reviewed>> /\ Approvable(s)
      /\ batch' = [batch EXCEPT ![s].promotion = "approved"]
  BY DEF Approve
<1>2. /\ batch[s] \in Batch
      /\ batch'[s] = [batch[s] EXCEPT !.promotion = "approved"]
      /\ \A t \in Slots : t # s => batch'[t] = batch[t]
  BY <1>1 DEF BatchInv, TypeOK
<1>3. batch'[s] \in Batch /\ batch' \in [Slots -> Batch]
  BY <1>1, <1>2 DEF Batch, BatchInv, TypeOK
<1>4. batch[s] = [batch'[s] EXCEPT !.promotion = "held"]
  BY <1>1, <1>2 DEF Batch, Approvable
<1> QED
  BY <1>1, <1>2, <1>3, <1>4 DEF Approvable, Batch

LEMMA ApproveInv ==
    ASSUME BatchInv, NEW s \in Slots, Approve(s)
    PROVE  BatchInv'
<1>1. /\ UNCHANGED <<life, planner, finalizer, reviewed>>
      /\ \A t \in Slots : t # s => batch'[t] = batch[t]
      /\ batch' \in [Slots -> Batch]
      /\ batch[s] = [batch'[s] EXCEPT !.promotion = "held"]
      /\ batch'[s].promotion = "approved"
      /\ batch[s].staging = "COLLECTED" /\ batch[s].status = "success"
      /\ batch'[s].status = batch[s].status /\ batch'[s].scope = batch[s].scope
      /\ batch'[s].staging = batch[s].staging /\ batch'[s].selected = batch[s].selected
      /\ Fingerprint(s) \in reviewed
  BY ApproveFacts
<1> USE DEF BatchInv
<1>2. TypeOK'
  BY <1>1 DEF TypeOK
<1>3. LivesSane' /\ OneActivePerProvider'
  BY <1>1 DEF LivesSane, OneActivePerProvider
<1>4. BatchShape'
  <2> SUFFICES ASSUME NEW t \in Slots PROVE ShapeAt(t)'
    BY DEF BatchShape, ShapeAt
  <2>1. CASE t = s
    BY <1>1, <2>1 DEF BatchShape, ShapeAt, Open, OpenStatus
  <2>2. CASE t # s
    BY <1>1, <2>2 DEF BatchShape, ShapeAt, Open
  <2> QED
    BY <2>1, <2>2
<1>5. SessionShape' /\ SurveyHolds'
  BY <1>1, PlannersKept DEF SessionShape
<1>6. SealedOver' /\ CollectedComplete' /\ ApprovedAsReviewed'
  <2> SUFFICES ASSUME NEW t \in Slots PROVE SealFacts(t)'
    BY SealBySlotNext
  <2>1. CASE t # s
    BY <1>1, <2>1, SealFactsKept
  <2>2. CASE t = s
    <3>1. SealFacts(s) /\ StagedRows(s)' = StagedRows(s)
      BY <1>1, SealBySlot, RowsKept
    <3>2. [slot |-> s, batch |-> [batch'[s] EXCEPT !.promotion = "held"],
           rows |-> StagedRows(s)'] \in reviewed'
      BY <1>1, <3>1 DEF Fingerprint
    <3> QED
      BY <1>1, <2>2, <3>1, <3>2 DEF SealFacts, Sealed
  <2> QED
    BY <2>1, <2>2
<1>7. DecisionHolds'
  <2> SUFFICES ASSUME NEW g \in Finalizers, NEW t \in Slots, finalizer[g].slot = t,
                      finalizer[g].decision \in SealedStatus
               PROVE  HoldsFor(g, t)'
    BY <1>1, <1>5, DecisionBySlotNext DEF HoldsFor
  <2>1. HoldsFor(g, t)
    BY DecisionBySlot
  <2>2. t # s
    BY <1>1, <2>1 DEF HoldsFor, Open, OpenStatus
  <2>3. Decide(Tasks(t))' = Decide(Tasks(t)) /\ Selected(t)' = Selected(t)
    BY <1>1, <2>2, SlotKept
  <2> QED
    BY <1>1, <2>1, <2>2, <2>3 DEF HoldsFor, Open
<1> QED
  BY <1>2, <1>3, <1>4, <1>5, <1>6, <1>7

-----------------------------------------------------------------------------
(* Safety.                                                                 *)

LEMMA NextInv == BatchInv /\ [Next]_vars => BatchInv'
<1> SUFFICES ASSUME BatchInv, [Next]_vars PROVE BatchInv'
  OBVIOUS
<1>1. CASE Next
  <2>1. ASSUME NEW x \in Planners, PlannerStep(x) PROVE BatchInv'
    BY <2>1, SurveyInv, EnqueueInv, PlannerFailsInv DEF PlannerStep
  <2>2. ASSUME NEW f \in Finalizers, FinalizerStep(f) PROVE BatchInv'
    BY <2>2, LoadTasksInv, PostponeInv, PublishInv, FinalizerFailsInv DEF FinalizerStep
  <2> QED
    BY <1>1, <2>1, <2>2, JobStepInv, ReviewInv, ApproveInv DEF Next
<1>2. CASE UNCHANGED vars
  <2>1. /\ UNCHANGED <<life, batch, planner, finalizer, reviewed>>
    BY <1>2 DEF vars
  <2>2. TypeOK' /\ SessionShape'
    BY <2>1 DEF BatchInv, TypeOK, SessionShape
  <2> QED
    BY <2>1, <2>2, StoreKept, PlannersKept, FinalizersKept DEF BatchInv
<1> QED
  BY <1>1, <1>2

\* BatchInv, the inductive invariant, holds in every state.
THEOREM BatchSafety == Spec => []BatchInv
BY InitBatchInv, NextInv, PTL DEF Spec

\* Whatever the outcomes of its tasks, a batch gets a status the database accepts.
THEOREM TypeCorrect == Spec => []TypeOK
BY BatchSafety, PTL DEF BatchInv

\* A provider never has two jobs that wait or run.
THEOREM SingleActiveJob == Spec => []OneActivePerProvider
BY BatchSafety, PTL DEF BatchInv

\* A planner's survey stays true until it inserts or gives up.
THEOREM SurveyStable == Spec => []SurveyHolds
BY BatchSafety, PTL DEF BatchInv

\* A finalizer's decision stays true until it publishes or gives up.
THEOREM DecisionStable == Spec => []DecisionHolds
BY BatchSafety, PTL DEF BatchInv

\* A collected batch is complete.
THEOREM CollectionComplete == Spec => []CollectedComplete
BY BatchSafety, PTL DEF BatchInv

\* An approved batch is the reviewed one.
THEOREM ApprovalReviewed == Spec => []ApprovedAsReviewed
BY BatchSafety, PTL DEF BatchInv

-----------------------------------------------------------------------------
(* What one step may do to a batch and to a job.                           *)

\* The jobs of an open or sealed slot are not planned again.
LEMMA EnqueueFresh ==
    ASSUME BatchInv, NEW x \in Planners, Enqueue(x)
    PROVE  \/ UNCHANGED <<life, batch>>
           \/ \E s \in Slots, scope \in SUBSET Providers :
                 /\ batch[s].status = "absent" /\ scope # {}
                 /\ \A t \in Slots : t # s => batch'[t] = batch[t]
                 /\ batch'[s] = [NoBatch EXCEPT !.status = "queued", !.scope = scope]
                 /\ life' = [j \in Jobs |-> IF j[1] = s /\ j[2] \in scope
                                            THEN Lifecycle!Born ELSE life[j]]
                 /\ \A p \in Providers : life[<<s, p>>].phase = "absent"
<1>0. PICK s \in Slots, scope \in SUBSET Providers :
          s = planner[x].slot /\ scope = planner[x].scope /\ scope # {}
  BY DEF Enqueue, BatchInv, SessionShape, TypeOK, Planner
<1>1. CASE ~SlotFree(s)
  BY <1>0, <1>1 DEF Enqueue
<1>2. CASE SlotFree(s)
  <2>1. /\ batch' = [batch EXCEPT ![s] = [NoBatch EXCEPT !.status = "queued", !.scope = scope]]
        /\ life' = [j \in Jobs |-> IF j[1] = s /\ j[2] \in scope
                                   THEN Lifecycle!Born ELSE life[j]]
    BY <1>0, <1>2 DEF Enqueue
  <2>2. batch[s].status = "absent" /\ \A p \in Providers : life[<<s, p>>].phase = "absent"
    BY <1>2 DEF SlotFree, BatchInv, BatchShape, ShapeAt, NoBatch
  <2>3. /\ \A t \in Slots : t # s => batch'[t] = batch[t]
        /\ batch'[s] = [NoBatch EXCEPT !.status = "queued", !.scope = scope]
    BY <2>1 DEF BatchInv, TypeOK
  <2> QED
    BY <1>0, <2>1, <2>2, <2>3
<1> QED
  BY <1>1, <1>2

\* A job that moves has not ended, so it belongs to no sealed batch.
LEMMA JobStepMoves ==
    ASSUME BatchInv, NEW j \in Jobs, JobStep(j)
    PROVE  /\ batch' = batch
           /\ \E r \in Lifecycle!Steps(life[j]) : life' = [life EXCEPT ![j] = r]
           /\ \A s \in Slots : Sealed(s) =>
                 \A p \in batch[s].scope : life'[<<s, p>>] = life[<<s, p>>]
<1>0. PICK r \in Lifecycle!Steps(life[j]) : life' = [life EXCEPT ![j] = r]
  BY DEF JobStep
<1>1. batch' = batch /\ life[j].phase # "absent" /\ Sane(life[j])
  BY DEF JobStep, BatchInv, LivesSane
<1>2. life[j].phase \in ActivePhases
  BY <1>1, StepsSane
<1>3. \A k \in Jobs : k # j => life'[k] = life[k]
  BY <1>0 DEF BatchInv, TypeOK
<1>4. ASSUME NEW s \in Slots, Sealed(s), NEW p \in batch[s].scope
      PROVE  life'[<<s, p>>] = life[<<s, p>>]
  <2>1. p \in Providers /\ life[<<s, p>>].phase = "done"
    BY <1>4 DEF BatchInv, SealedOver, Over, TypeOK, Batch
  <2> QED
    BY <1>2, <1>3, <2>1 DEF Jobs, ActivePhases
<1> QED
  BY <1>0, <1>1, <1>4

\* The steps that touch neither jobs nor batches.
LEMMA QuietSteps ==
    ASSUME [Next]_vars
    PROVE  \/ UNCHANGED <<life, batch>>
           \/ \E x \in Planners : Enqueue(x)
           \/ \E f \in Finalizers : Postpone(f) \/ Publish(f)
           \/ \E j \in Jobs : JobStep(j)
           \/ \E s \in Slots : Approve(s)
<1>1. ASSUME NEW x \in Planners, PlannerStep(x)
      PROVE  UNCHANGED <<life, batch>> \/ Enqueue(x)
  BY <1>1 DEF PlannerStep, Survey, PlannerFails
<1>2. ASSUME NEW f \in Finalizers, FinalizerStep(f)
      PROVE  UNCHANGED <<life, batch>> \/ Postpone(f) \/ Publish(f)
  BY <1>2 DEF FinalizerStep, LoadTasks, FinalizerFails
<1>3. ASSUME NEW s \in Slots, Review(s) PROVE UNCHANGED <<life, batch>>
  BY <1>3 DEF Review
<1> QED
  BY <1>1, <1>2, <1>3 DEF Next, vars

\* Frozen(s) is what EvidenceFrozen asks of one batch.
Frozen(s) ==
    Sealed(s) =>
        /\ StagedRows(s)' = StagedRows(s)
        /\ \/ batch'[s] = batch[s]
           \/ /\ batch[s].promotion = "held"
              /\ batch'[s] = [batch[s] EXCEPT !.promotion = "approved"]

LEMMA FrozenKept ==
    ASSUME BatchInv, NEW s \in Slots, batch'[s] = batch[s],
           Sealed(s) => \A p \in batch[s].scope : life'[<<s, p>>] = life[<<s, p>>]
    PROVE  Frozen(s)
<1> SUFFICES ASSUME Sealed(s) PROVE StagedRows(s)' = StagedRows(s)
  BY DEF Frozen
<1>1. \A x \in batch[s].selected : x[1] \in batch[s].scope
  BY DEF BatchInv, SealedOver
<1> QED
  BY <1>1, RowsKept

LEMMA StepFrozen ==
    ASSUME BatchInv, [Next]_vars, NEW s \in Slots
    PROVE  Frozen(s)
<1>1. CASE UNCHANGED <<life, batch>>
  BY <1>1, FrozenKept
<1>2. ASSUME NEW x \in Planners, Enqueue(x) PROVE Frozen(s)
  <2>1. CASE UNCHANGED <<life, batch>>
    BY <2>1, FrozenKept
  <2>2. ASSUME NEW t \in Slots, NEW scope \in SUBSET Providers,
               batch[t].status = "absent",
               \A u \in Slots : u # t => batch'[u] = batch[u],
               life' = [j \in Jobs |-> IF j[1] = t /\ j[2] \in scope
                                       THEN Lifecycle!Born ELSE life[j]]
        PROVE  Frozen(s)
    <3>1. CASE s = t
      BY <2>2, <3>1 DEF Frozen, Sealed, BatchInv, BatchShape, ShapeAt, NoBatch
    <3>2. CASE s # t
      <4>1. \A p \in batch[s].scope : life'[<<s, p>>] = life[<<s, p>>]
        BY <2>2, <3>2 DEF Jobs, BatchInv, TypeOK, Batch
      <4> QED
        BY <2>2, <3>2, <4>1, FrozenKept
    <3> QED
      BY <3>1, <3>2
  <2> QED
    BY <1>2, <2>1, <2>2, EnqueueFresh
<1>3. ASSUME NEW f \in Finalizers, Postpone(f) \/ Publish(f) PROVE Frozen(s)
  <2>1. /\ life' = life
        /\ \A t \in Slots : t # finalizer[f].slot => batch'[t] = batch[t]
        /\ Open(finalizer[f].slot)
    BY <1>3 DEF Postpone, Publish, BatchInv, TypeOK
  <2>2. CASE s = finalizer[f].slot
    BY <2>1, <2>2 DEF Frozen, Sealed, BatchInv, BatchShape, ShapeAt
  <2>3. CASE s # finalizer[f].slot
    BY <2>1, <2>3, FrozenKept
  <2> QED
    BY <2>2, <2>3
<1>4. ASSUME NEW j \in Jobs, JobStep(j) PROVE Frozen(s)
  BY <1>4, JobStepMoves, FrozenKept
<1>5. ASSUME NEW t \in Slots, Approve(t) PROVE Frozen(s)
  <2>1. CASE s = t
    BY <1>5, <2>1, ApproveFacts, RowsKept DEF Frozen
  <2>2. CASE s # t
    BY <1>5, <2>2, ApproveFacts, FrozenKept
  <2> QED
    BY <2>1, <2>2
<1> QED
  BY <1>1, <1>2, <1>3, <1>4, <1>5, QuietSteps

\* What a sealed batch offers never changes, and it is approved at most once.
THEOREM EvidenceIsFrozen == Spec => EvidenceFrozen
<1>1. BatchInv /\ [Next]_vars =>
         [\A s \in Slots : Sealed(s) =>
            /\ StagedRows(s)' = StagedRows(s)
            /\ \/ batch'[s] = batch[s]
               \/ /\ batch[s].promotion = "held"
                  /\ batch'[s] = [batch[s] EXCEPT !.promotion = "approved"]]_vars
  BY StepFrozen DEF Frozen
<1> QED
  BY <1>1, BatchSafety, PTL DEF Spec, EvidenceFrozen

-----------------------------------------------------------------------------
(* The jobs follow their lifecycle.                                        *)

LEMMA LifecycleStep ==
    ASSUME BatchInv, BatchInv', [Next]_vars, NEW j \in Jobs, life'[j] # life[j]
    PROVE  life'[j] \in Lifecycle!Steps(life[j])
<1>1. ASSUME NEW x \in Planners, Enqueue(x)
      PROVE  life'[j] \in Lifecycle!Steps(life[j])
  <2>1. PICK s \in Slots, scope \in SUBSET Providers :
            /\ life' = [k \in Jobs |-> IF k[1] = s /\ k[2] \in scope
                                       THEN Lifecycle!Born ELSE life[k]]
            /\ \A p \in Providers : life[<<s, p>>].phase = "absent"
    BY <1>1, EnqueueFresh
  <2>2. life'[j] = Lifecycle!Born /\ j[1] = s
    BY <2>1
  <2>3. life[j].phase = "absent"
    BY <2>1, <2>2 DEF Jobs
  <2> QED
    BY <2>2, <2>3 DEF Lifecycle!Steps
<1>2. ASSUME NEW k \in Jobs, JobStep(k) PROVE life'[j] \in Lifecycle!Steps(life[j])
  <2>1. PICK r \in Lifecycle!Steps(life[k]) : life' = [life EXCEPT ![k] = r]
    BY <1>2, JobStepMoves
  <2>2. j = k /\ life'[j] = r
    BY <2>1 DEF BatchInv, TypeOK
  <2> QED
    BY <2>1, <2>2
<1>3. ASSUME NEW f \in Finalizers, Postpone(f) \/ Publish(f) PROVE life' = life
  BY <1>3 DEF Postpone, Publish
<1>4. ASSUME NEW s \in Slots, Approve(s) PROVE life' = life
  BY <1>4 DEF Approve
<1> QED
  BY <1>1, <1>2, <1>3, <1>4, QuietSteps

\* Nothing here moves a job against its lifecycle or plans one again.
THEOREM JobsKeepLifecycle == Spec => JobsFollowLifecycle
<1>1. Init => Lifecycle!Init
  BY DEF Init, Lifecycle!Init
<1>2. BatchInv /\ BatchInv' /\ [Next]_vars => [Lifecycle!Next]_life
  <2> SUFFICES ASSUME BatchInv, BatchInv', [Next]_vars, life' # life PROVE Lifecycle!Next
    OBVIOUS
  <2>1. life' \in [Jobs -> Lifecycle!Life]
    BY DEF BatchInv, TypeOK
  <2> QED
    BY <2>1, LifecycleStep DEF Lifecycle!Next
<1> QED
  BY <1>1, <1>2, BatchSafety, PTL DEF Spec, JobsFollowLifecycle, Lifecycle!Spec

-----------------------------------------------------------------------------
(* The batches keep the ledger.                                            *)

\* The entry of a batch that is not sealed says no more than its scope.
LEMMA EntryShape ==
    BatchInv => \A s \in Slots :
        /\ batch[s].status = "absent" => LedgerOf(s) = Ledger!Unused
        /\ Open(s) => LedgerOf(s) = Ledger!Blank("open", batch[s].scope)
<1> SUFFICES ASSUME BatchInv, NEW s \in Slots
             PROVE  /\ batch[s].status = "absent" => LedgerOf(s) = Ledger!Unused
                    /\ Open(s) => LedgerOf(s) = Ledger!Blank("open", batch[s].scope)
  OBVIOUS
<1> USE DEF LedgerOf, StateOf, Offered, Sealed, BatchInv, BatchShape, ShapeAt, NoBatch,
            Ledger!Blank
<1>1. CASE batch[s].status = "absent"
  BY <1>1 DEF Ledger!Unused, Open, OpenStatus
<1>2. CASE Open(s)
  BY <1>2 DEF Open, OpenStatus
<1> QED
  BY <1>1, <1>2

LEMMA EntryShapeNext ==
    (BatchInv => \A s \in Slots :
        /\ batch[s].status = "absent" => LedgerOf(s) = Ledger!Unused
        /\ Open(s) => LedgerOf(s) = Ledger!Blank("open", batch[s].scope))'
BY EntryShape, PTL

\* A batch that does not move keeps its entry.
LEMMA EntryKept ==
    ASSUME BatchInv, NEW s \in Slots, batch'[s] = batch[s],
           Sealed(s) => \A p \in batch[s].scope : life'[<<s, p>>] = life[<<s, p>>]
    PROVE  LedgerOf(s)' = LedgerOf(s)
<1>1. StateOf(s)' = StateOf(s) /\ (Offered(s)' <=> Offered(s))
  BY DEF StateOf, Sealed, Offered
<1>2. Offered(s) => StagedRows(s)' = StagedRows(s)
  BY FrozenKept DEF Frozen, Offered, Sealed
<1> QED
  BY <1>1, <1>2 DEF LedgerOf

\* One entry that moves is a step of the ledger.
LEMMA LedgerMoves ==
    ASSUME NEW s \in Slots, LedgerOf(s)' \in Ledger!Steps(LedgerOf(s)),
           \A t \in Slots : t # s => LedgerOf(t)' = LedgerOf(t)
    PROVE  Ledger!Next
BY DEF Ledger!Next

LEMMA PublishEntry ==
    ASSUME BatchInv, BatchInv', NEW f \in Finalizers, Publish(f),
           NEW s \in Slots, s = finalizer[f].slot
    PROVE  LedgerOf(s)' \in Ledger!Steps(LedgerOf(s))
<1> USE BatchAssumption
<1>1. /\ Open(s) /\ batch'[s].scope = batch[s].scope /\ batch'[s].status \in SealedStatus
      /\ batch'[s].staging = IF batch'[s].status = "success" THEN "COLLECTED" ELSE "FAILED"
      /\ batch'[s].promotion = "held" /\ SealFacts(s)' /\ batch'[s] \in Batch
      /\ batch[s].scope \subseteq Providers
  BY PublishFacts DEF BatchInv, TypeOK, Batch
<1>2. LedgerOf(s) = [state |-> "open", scope |-> batch[s].scope, picked |-> {}, rows |-> {}]
  BY <1>1, EntryShape DEF Ledger!Blank
<1>3. CASE batch'[s].status # "success"
  <2>1. LedgerOf(s)' = [state |-> "rejected", scope |-> batch[s].scope,
                        picked |-> {}, rows |-> {}]
    BY <1>1, <1>3 DEF LedgerOf, StateOf, Offered, Sealed, SealedStatus
  <2> QED
    BY <1>2, <2>1 DEF Ledger!Steps, Ledger!Blank
<1>4. CASE batch'[s].status = "success"
  <2>1. LedgerOf(s)' = [state |-> "held", scope |-> batch[s].scope,
                        picked |-> batch'[s].selected, rows |-> StagedRows(s)']
    BY <1>1, <1>4 DEF LedgerOf, StateOf, Offered, Sealed, SealedStatus
  <2>2. /\ batch'[s].selected \in Ledger!Rows /\ StagedRows(s)' \subseteq batch'[s].selected
        /\ StagedRows(s)' \in Ledger!Rows
    BY <1>1 DEF Batch, Selections, Ledger!Rows, StagedRows
  <2>3. /\ StagedRows(s)' # {}
        /\ \A x \in batch'[s].selected : x[1] \in batch[s].scope
    BY <1>1, <1>4 DEF SealFacts, Sealed
  <2>4. ASSUME NEW p \in batch[s].scope
        PROVE  \E x \in batch'[s].selected : x[1] = p
    <3>1. /\ life'[<<s, p>>].outcome = "success"
          /\ \A n \in 1 .. MaxTries :
                <<p, n>> \in batch'[s].selected <=> n = life'[<<s, p>>].tries
      BY <1>1, <1>4 DEF SealFacts
    <3>2. life'[<<s, p>>].tries \in 1 .. MaxTries
      BY <1>1, <3>1 DEF BatchInv, LivesSane, Sane, Jobs, Lifecycle!Life
    <3>3. <<p, life'[<<s, p>>].tries>> \in batch'[s].selected
      BY <3>1, <3>2
    <3> QED
      BY <3>3
  <2>5. LedgerOf(s)' \in Ledger!Offers(batch[s].scope)
    BY <2>1, <2>2, <2>3, <2>4 DEF Ledger!Offers
  <2> QED
    BY <1>2, <2>5 DEF Ledger!Steps
<1> QED
  BY <1>3, <1>4

LEMMA LedgerStep ==
    ASSUME BatchInv, BatchInv', [Next]_vars
    PROVE  Ledger!Next \/ \A s \in Slots : LedgerOf(s)' = LedgerOf(s)
<1>1. CASE UNCHANGED <<life, batch>>
  BY <1>1, EntryKept
<1>2. ASSUME NEW x \in Planners, Enqueue(x), ~UNCHANGED <<life, batch>> PROVE Ledger!Next
  <2>1. PICK s \in Slots, scope \in SUBSET Providers :
            /\ batch[s].status = "absent" /\ scope # {}
            /\ \A t \in Slots : t # s => batch'[t] = batch[t]
            /\ batch'[s] = [NoBatch EXCEPT !.status = "queued", !.scope = scope]
            /\ life' = [j \in Jobs |-> IF j[1] = s /\ j[2] \in scope
                                       THEN Lifecycle!Born ELSE life[j]]
    BY <1>2, EnqueueFresh
  <2>2. LedgerOf(s) = Ledger!Unused
    BY <2>1, EntryShape
  <2>3. LedgerOf(s)' = Ledger!Blank("open", scope)
    BY <2>1, EntryShapeNext DEF Open, OpenStatus, NoBatch
  <2>4. LedgerOf(s)' \in Ledger!Steps(LedgerOf(s))
    <3>1. LedgerOf(s).state = "absent"
      BY <2>2 DEF Ledger!Unused, Ledger!Blank
    <3>2. Ledger!Steps(LedgerOf(s)) = {Ledger!Blank("open", u) : u \in SUBSET Providers}
      BY <3>1 DEF Ledger!Steps
    <3> QED
      BY <2>3, <3>2
  <2>5. ASSUME NEW t \in Slots, t # s PROVE LedgerOf(t)' = LedgerOf(t)
    <3>1. \A p \in batch[t].scope : life'[<<t, p>>] = life[<<t, p>>]
      BY <2>1, <2>5 DEF Jobs, BatchInv, TypeOK, Batch
    <3> QED
      BY <2>1, <2>5, <3>1, EntryKept
  <2> QED
    BY <2>4, <2>5, LedgerMoves
<1>3. ASSUME NEW f \in Finalizers, Postpone(f)
      PROVE  \A s \in Slots : LedgerOf(s)' = LedgerOf(s)
  <2> SUFFICES ASSUME NEW s \in Slots PROVE LedgerOf(s)' = LedgerOf(s)
    OBVIOUS
  <2>1. CASE s = finalizer[f].slot
    <3>1. /\ Open(s) /\ batch'[s].status \in OpenStatus /\ batch'[s].scope = batch[s].scope
      BY <1>3, <2>1 DEF Postpone, BatchInv, TypeOK, Batch
    <3> QED
      BY <3>1, EntryShape, EntryShapeNext DEF Open
  <2>2. CASE s # finalizer[f].slot
    <3>1. batch'[s] = batch[s] /\ life' = life
      BY <1>3, <2>2 DEF Postpone, BatchInv, TypeOK
    <3> QED
      BY <3>1, EntryKept
  <2> QED
    BY <2>1, <2>2
<1>4. ASSUME NEW f \in Finalizers, Publish(f) PROVE Ledger!Next
  <2>1. PICK s \in Slots : s = finalizer[f].slot
    BY <1>4 DEF Publish, BatchInv, SessionShape
  <2>2. life' = life /\ \A t \in Slots : t # s => batch'[t] = batch[t]
    BY <1>4, <2>1, PublishFacts
  <2>3. \A t \in Slots : t # s => LedgerOf(t)' = LedgerOf(t)
    BY <2>2, EntryKept
  <2> QED
    BY <1>4, <2>1, <2>3, PublishEntry, LedgerMoves
<1>5. ASSUME NEW j \in Jobs, JobStep(j)
      PROVE  \A s \in Slots : LedgerOf(s)' = LedgerOf(s)
  BY <1>5, JobStepMoves, EntryKept
<1>6. ASSUME NEW s \in Slots, Approve(s) PROVE Ledger!Next
  <2>1. /\ life' = life /\ \A t \in Slots : t # s => batch'[t] = batch[t]
        /\ batch[s].promotion = "held" /\ batch'[s].promotion = "approved"
        /\ batch[s].staging = "COLLECTED" /\ batch[s].status = "success"
        /\ batch'[s].status = batch[s].status /\ batch'[s].scope = batch[s].scope
        /\ batch'[s].staging = batch[s].staging /\ batch'[s].selected = batch[s].selected
    BY <1>6, ApproveFacts
  <2>2. StagedRows(s)' = StagedRows(s)
    BY <2>1, RowsKept
  <2>3. LedgerOf(s) = [state |-> "held", scope |-> batch[s].scope,
                       picked |-> batch[s].selected, rows |-> StagedRows(s)]
    BY <2>1 DEF LedgerOf, StateOf, Offered, Sealed
  <2>4. LedgerOf(s)' = [state |-> "approved", scope |-> batch[s].scope,
                        picked |-> batch[s].selected, rows |-> StagedRows(s)]
    BY <2>1, <2>2 DEF LedgerOf, StateOf, Offered, Sealed
  <2>5. LedgerOf(s)' = [LedgerOf(s) EXCEPT !.state = "approved"]
    BY <2>3, <2>4
  <2>6. \A t \in Slots : t # s => LedgerOf(t)' = LedgerOf(t)
    BY <2>1, EntryKept
  <2>7. LedgerOf(s)' \in Ledger!Steps(LedgerOf(s))
    BY <2>3, <2>5 DEF Ledger!Steps
  <2> QED
    BY <2>6, <2>7, LedgerMoves
<1> QED
  BY <1>1, <1>2, <1>3, <1>4, <1>5, <1>6, QuietSteps

\* Planning, finalizing and approving implement the ledger that promotion reads.
THEOREM BatchesKeepLedger == Spec => ImplementsLedger
<1> DEFINE ledger == [s \in Slots |-> LedgerOf(s)]
<1>1. Init => Ledger!Init
  <2> SUFFICES ASSUME Init PROVE \A s \in Slots : LedgerOf(s) = Ledger!Unused
    BY DEF Ledger!Init
  <2>1. BatchInv /\ \A s \in Slots : batch[s].status = "absent"
    BY InitBatchInv DEF Init, NoBatch
  <2> QED
    BY <2>1, EntryShape
<1>2. BatchInv /\ BatchInv' /\ [Next]_vars => [Ledger!Next]_ledger
  BY LedgerStep
<1> QED
  BY <1>1, <1>2, BatchSafety, PTL DEF Spec, ImplementsLedger, Ledger!Spec
=============================================================================
