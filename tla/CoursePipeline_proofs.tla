----------------------- MODULE CoursePipeline_proofs -----------------------
(* The safety of CoursePipeline, put together from what is proved of the   *)
(* batches (CrawlerBatches_proofs) and of their promotion                  *)
(* (BatchPromotion_proofs), for any slots, providers, sessions and runs.   *)
EXTENDS CoursePipeline, CrawlerBatches_proofs

\* The theorems of BatchPromotion, read over the entries of the real batches.
Proved == INSTANCE BatchPromotion_proofs WITH ledger <- [s \in Slots |-> LedgerOf(s)]

-----------------------------------------------------------------------------
(* The batches of the pipeline are the batches of CrawlerBatches.          *)

\* What holds of the constants here is what the proofs about promotion assume.
LEMMA PromotionConstants == Proved!PromotionAssumption
BY BatchAssumption, PipelineAssumption DEF Proved!PromotionAssumption

LEMMA BatchesStep == [PipelineNext]_pipelineVars => [Next]_vars
BY DEF PipelineNext, pipelineVars, vars, BatchesMove, RunMoves

\* The runs disturb nothing that the batches' invariant speaks of.
THEOREM PipelineBatches == PipelineSpec => []BatchInv
<1>1. PipelineInit => BatchInv
  BY InitBatchInv DEF PipelineInit
<1>2. BatchInv /\ [PipelineNext]_pipelineVars => BatchInv'
  BY BatchesStep, NextInv
<1> QED
  BY <1>1, <1>2, PTL DEF PipelineSpec

-----------------------------------------------------------------------------
(* The pipeline promotes as BatchPromotion does.                           *)

\* The two readings of the ledger's module speak of the same steps.
LEMMA SameEntries ==
    ASSUME NEW e
    PROVE  Ledger!Steps(e) = Promotion!Ledger!Steps(e)
BY DEF Ledger!Steps, Ledger!Offers, Ledger!Rows, Ledger!Blank,
       Promotion!Ledger!Steps, Promotion!Ledger!Offers, Promotion!Ledger!Rows,
       Promotion!Ledger!Blank

\* Whatever the batches do, promotion sees one entry move along the ledger, or none.
LEMMA BatchesMovePromotion ==
    ASSUME BatchInv, BatchInv', BatchesMove
    PROVE  [Promotion!Next]_(Promotion!vars)
<1>1. Ledger!Next \/ \A s \in Slots : LedgerOf(s)' = LedgerOf(s)
  BY LedgerStep DEF BatchesMove
<1>2. CASE \A s \in Slots : LedgerOf(s)' = LedgerOf(s)
  BY <1>2 DEF BatchesMove, promotionVars, Promotion!vars
<1>3. CASE Ledger!Next
  <2>1. PICK s \in Slots : Promotion!LedgerStep(s)
    BY <1>3, SameEntries DEF Ledger!Next, Promotion!LedgerStep, BatchesMove, promotionVars
  <2> QED
    BY <2>1 DEF Promotion!Next
<1> QED
  BY <1>1, <1>2, <1>3

LEMMA PipelineStep ==
    BatchInv /\ BatchInv' /\ [PipelineNext]_pipelineVars => [Promotion!Next]_(Promotion!vars)
<1> SUFFICES ASSUME BatchInv, BatchInv', [PipelineNext]_pipelineVars
             PROVE  [Promotion!Next]_(Promotion!vars)
  OBVIOUS
<1>1. CASE BatchesMove
  BY <1>1, BatchesMovePromotion
<1>2. ASSUME NEW a \in Promotion!Sessions, RunMoves(a) PROVE Promotion!Next
  BY <1>2 DEF RunMoves, Promotion!Next
<1>3. CASE UNCHANGED pipelineVars
  <2>1. \A s \in Slots : LedgerOf(s)' = LedgerOf(s)
    BY <1>3 DEF pipelineVars, LedgerOf, StateOf, Sealed, Offered, StagedRows
  <2> QED
    BY <1>3, <2>1 DEF pipelineVars, Promotion!vars
<1> QED
  BY <1>1, <1>2, <1>3 DEF PipelineNext

\* Planner, workers, finalizer, approver and runs together promote as BatchPromotion
\* does over batches of which it knows the ledger only.
THEOREM PipelinePromotes == PipelineSpec => ImplementsPromotion
<1>1. PipelineInit => Promotion!Init
  BY DEF PipelineInit
<1> QED
  BY <1>1, PipelineStep, PipelineBatches, PTL DEF PipelineSpec, ImplementsPromotion, Promotion!Spec

-----------------------------------------------------------------------------
(* So what is proved of promotion holds of the pipeline.                   *)

\* Promotion and Proved read the same module over the same entries, so each step of
\* the one is, written out, the step of the other.
LEMMA SameSteps ==
    /\ \A s \in Slots : Promotion!LedgerStep(s) => Proved!LedgerStep(s)
    /\ \A a : Promotion!SessionStep(a) => Proved!SessionStep(a)
<1>1. ASSUME NEW s \in Slots, Promotion!LedgerStep(s) PROVE Proved!LedgerStep(s)
  <2>1. \A e : Promotion!Ledger!Steps(e) = Proved!Ledger!Steps(e)
    BY DEF Promotion!Ledger!Steps, Promotion!Ledger!Offers, Promotion!Ledger!Rows,
           Promotion!Ledger!Blank, Proved!Ledger!Steps, Proved!Ledger!Offers,
           Proved!Ledger!Rows, Proved!Ledger!Blank
  <2> QED
    BY <1>1, <2>1 DEF Promotion!LedgerStep, Proved!LedgerStep
<1>2. ASSUME NEW a, Promotion!SessionStep(a) PROVE Proved!SessionStep(a)
  <2>1. \A s : Promotion!IsLatest(s) <=> Proved!IsLatest(s)
    BY DEF Promotion!IsLatest, Promotion!Eligible, Proved!IsLatest, Proved!Eligible
  <2>2. Promotion!LockFree <=> Proved!LockFree
    BY DEF Promotion!LockFree, Promotion!Sessions, Proved!LockFree, Proved!Sessions
  <2>3. Promotion!Idle = Proved!Idle
    BY DEF Promotion!Idle, Promotion!Ledger!Unused, Promotion!Ledger!Blank,
           Proved!Idle, Proved!Ledger!Unused, Proved!Ledger!Blank
  <2>4. \A s : Promotion!Looked(s) = Proved!Looked(s)
    BY <2>3 DEF Promotion!Looked, Proved!Looked
  <2>5. ASSUME NEW s \in Slots, Promotion!Look(a, s) PROVE Proved!Look(a, s)
    BY <2>1, <2>4, <2>5 DEF Promotion!Look, Proved!Look
  <2>6. ASSUME NEW s \in Slots, Promotion!ReviewForActivation(a, s)
        PROVE  Proved!ReviewForActivation(a, s)
    BY <2>1, <2>2, <2>4, <2>6
    DEF Promotion!ReviewForActivation, Proved!ReviewForActivation
  <2>7. Promotion!DryRun(a) => Proved!DryRun(a)
    BY <2>1, <2>2 DEF Promotion!DryRun, Proved!DryRun
  <2>8. Promotion!BeginApply(a) => Proved!BeginApply(a)
    BY <2>1, <2>2 DEF Promotion!BeginApply, Promotion!Eligible, Promotion!Unapplied,
                      Proved!BeginApply, Proved!Eligible, Proved!Unapplied
  <2>9. Promotion!CommitApply(a) => Proved!CommitApply(a)
    BY <2>3 DEF Promotion!CommitApply, Promotion!Written,
                Proved!CommitApply, Proved!Written
  <2>10. Promotion!GiveUp(a) => Proved!GiveUp(a)
    BY <2>3 DEF Promotion!GiveUp, Proved!GiveUp
  <2> QED
    BY <1>2, <2>5, <2>6, <2>7, <2>8, <2>9, <2>10
    DEF Promotion!SessionStep, Proved!SessionStep
<1> QED
  BY <1>1, <1>2

LEMMA SamePromotion ==
    /\ Promotion!Init => Proved!Init
    /\ [Promotion!Next]_(Promotion!vars) => [Proved!Next]_(Proved!vars)
<1>1. Promotion!Init => Proved!Init
  BY DEF Promotion!Init, Promotion!Idle, Promotion!Sessions, Promotion!Ledger!Unused,
         Promotion!Ledger!Blank, Proved!Init, Proved!Idle, Proved!Sessions,
         Proved!Ledger!Unused, Proved!Ledger!Blank
<1>2. Promotion!Next => Proved!Next
  BY SameSteps DEF Promotion!Next, Proved!Next, Promotion!Sessions,
                   Proved!Sessions
<1>3. UNCHANGED Promotion!vars <=> UNCHANGED Proved!vars
  BY DEF Promotion!vars, Proved!vars
<1> QED
  BY <1>1, <1>2, <1>3

\* The inductive invariant of promotion holds over the real batches.
THEOREM PipelineRuns == PipelineSpec => []Proved!PromotionInv
BY SamePromotion, PipelinePromotes, PromotionConstants, Proved!PromotionSafety, PTL
DEF Proved!PromotionSafety, ImplementsPromotion, Promotion!Spec, Proved!Spec

\* Of real batches, too, the primary shows for every provider the newest one applied.
THEOREM PipelineShowsNewest == PipelineSpec => []Promotion!PrimaryMatchesLog
<1>1. Proved!PromotionInv => Promotion!PrimaryMatchesLog
  BY DEF Proved!PromotionInv, Proved!PrimaryMatchesLog, Proved!Offers,
         Promotion!PrimaryMatchesLog, Promotion!Offers
<1> QED
  BY <1>1, PipelineRuns, PTL

\* And a run of the timer applies no real batch that was applied before.
THEOREM PipelineAppliesOnce == PipelineSpec => []Promotion!TimerAppliesOnce
<1>1. Proved!PromotionInv => Promotion!TimerAppliesOnce
  BY DEF Proved!PromotionInv, Proved!SessionFacts, Proved!Applying, Proved!Sessions,
         Promotion!TimerAppliesOnce
<1> QED
  BY <1>1, PipelineRuns, PTL

-----------------------------------------------------------------------------
(* Where the courses come from.                                            *)

\* An approved batch that offers rows of p is fit to be shown.
LEMMA OfferSourced ==
    ASSUME BatchInv, NEW s \in Slots, NEW p \in Providers, LedgerOf(s).state = "approved",
           NEW x \in LedgerOf(s).rows, x[1] = p
    PROVE  Sourced(s, p)
<1>1. batch[s].promotion = "approved"
  BY DEF LedgerOf, StateOf
<1>2. /\ batch[s].staging = "COLLECTED"
      /\ \E d \in reviewed : d.slot = s /\ d.rows = StagedRows(s)
  BY <1>1 DEF BatchInv, ApprovedAsReviewed
<1>3. x \in StagedRows(s) /\ x \in batch[s].selected /\ x[2] \in life[<<s, p>>].evidence
  BY <1>2 DEF LedgerOf, Offered, StagedRows
<1>4. p \in batch[s].scope
  BY <1>2, <1>3 DEF BatchInv, SealedOver, Sealed
<1>5. x = <<p, x[2]>> /\ x[2] \in 1 .. MaxTries
  BY <1>3 DEF BatchInv, TypeOK, Batch, Selections
<1>6. /\ \A q \in batch[s].scope :
            Over(life[<<s, q>>]) /\ life[<<s, q>>].outcome = "success" /\ ~life[<<s, q>>].stop
      /\ \A n \in 1 .. MaxTries :
            <<p, n>> \in batch[s].selected <=> n = life[<<s, p>>].tries
  BY <1>2, <1>4 DEF BatchInv, CollectedComplete
<1>7. x[2] = life[<<s, p>>].tries
  BY <1>3, <1>5, <1>6
<1> QED
  BY <1>2, <1>3, <1>5, <1>6, <1>7 DEF Sourced

\* What the primary shows of a provider comes from such a batch.
THEOREM ProvenanceHolds == PipelineSpec => []PrimaryProvenance
<1>1. ASSUME BatchInv, Proved!PromotionInv PROVE PrimaryProvenance
  <2> SUFFICES ASSUME NEW p \in Providers, primary[p] # NoSlot
               PROVE  Sourced(primary[p], p)
    BY DEF PrimaryProvenance
  <2>1. /\ primary[p] \in Slots /\ LedgerOf(primary[p]).state = "approved"
        /\ \E x \in LedgerOf(primary[p]).rows : x[1] = p
    BY <1>1 DEF Proved!PromotionInv, Proved!TypeOK, Proved!PrimaryMatchesLog, Proved!Offers
  <2> QED
    BY <1>1, <2>1, OfferSourced
<1> QED
  BY <1>1, PipelineBatches, PipelineRuns, PTL

-----------------------------------------------------------------------------
(* The whole pipeline, as its readers see it.                              *)

\* Promotion and Proved abstract from the runs in the same way.
LEMMA SameCourses ==
    /\ Proved!Courses!CoursesInit => Promotion!Courses!CoursesInit
    /\ [Proved!Courses!CoursesNext]_(Proved!Courses!coursesVars)
          => [Promotion!Courses!CoursesNext]_(Promotion!Courses!coursesVars)
<1>1. Proved!Courses!CoursesInit => Promotion!Courses!CoursesInit
  BY DEF Proved!Courses!CoursesInit, Proved!Courses!Ledger!Init,
         Proved!Courses!Ledger!Unused, Proved!Courses!Ledger!Blank,
         Promotion!Courses!CoursesInit, Promotion!Courses!Ledger!Init,
         Promotion!Courses!Ledger!Unused, Promotion!Courses!Ledger!Blank
<1>2. Proved!Courses!BatchMoves => Promotion!Courses!BatchMoves
  <2>1. \A e : Proved!Courses!Ledger!Steps(e) = Promotion!Courses!Ledger!Steps(e)
    BY DEF Proved!Courses!Ledger!Steps, Proved!Courses!Ledger!Offers,
           Proved!Courses!Ledger!Rows, Proved!Courses!Ledger!Blank,
           Promotion!Courses!Ledger!Steps, Promotion!Courses!Ledger!Offers,
           Promotion!Courses!Ledger!Rows, Promotion!Courses!Ledger!Blank
  <2> QED
    BY <2>1 DEF Proved!Courses!BatchMoves, Proved!Courses!Ledger!Next,
                Promotion!Courses!BatchMoves, Promotion!Courses!Ledger!Next
<1>3. \A s \in Slots : Proved!Courses!TakeOver(s) => Promotion!Courses!TakeOver(s)
  BY DEF Proved!Courses!TakeOver, Proved!Courses!RowsOf,
         Promotion!Courses!TakeOver, Promotion!Courses!RowsOf
<1>4. UNCHANGED Proved!Courses!coursesVars => UNCHANGED Promotion!Courses!coursesVars
  BY DEF Proved!Courses!coursesVars, Promotion!Courses!coursesVars
<1> QED
  BY <1>1, <1>2, <1>3, <1>4 DEF Proved!Courses!CoursesNext, Promotion!Courses!CoursesNext

\* From the planner's first job to the last upsert: the primary changes by whole
\* approved batches of the control plane, each once, the older first.
THEOREM PipelineTakesOver == PipelineSpec => Promotion!ImplementsCourses
BY SamePromotion, SameCourses, PipelinePromotes, PromotionConstants, Proved!RunsInvisible, PTL
DEF Proved!RunsInvisible, ImplementsPromotion, Promotion!Spec, Proved!Spec,
    Proved!ImplementsCourses, Proved!Courses!CoursesSpec,
    Promotion!ImplementsCourses, Promotion!Courses!CoursesSpec
=============================================================================
