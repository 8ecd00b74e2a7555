--------------------------- MODULE CoursePipeline ---------------------------
(***************************************************************************)
(* From planned crawls to the courses people see: the batches that         *)
(* CrawlerBatches plans, finalizes and approves are the ones that the runs *)
(* of BatchPromotion look at, dry-run and apply.  Nothing joins the two    *)
(* but the staging database: the runs read what the ledger of the batches  *)
(* shows at that moment, and write the primary.                            *)
(***************************************************************************)
EXTENDS CrawlerBatches

CONSTANTS
    Timers,      \* runs of the timer's service
    Activations  \* pinned applies of an operator, with --force

ASSUME PipelineAssumption == Timers \cap Activations = {}

VARIABLES
    primary,  \* by provider, the batch that wrote its courses last
    log,      \* the batches with a successful row in crawl_batch_apply_logs
    session   \* the local state of each run

promotionVars == <<primary, log, session>>
pipelineVars == <<life, batch, planner, finalizer, reviewed, primary, log, session>>

\* The runs see of a batch what its ledger entry shows.
Promotion == INSTANCE BatchPromotion WITH ledger <- [s \in Slots |-> LedgerOf(s)]

PipelineInit == Init /\ Promotion!Init

\* Planning, crawling, finalizing, reviewing and approving.
BatchesMove == Next /\ UNCHANGED promotionVars

\* A run reads the batches and moves on; what it writes is the primary.
RunMoves(a) == UNCHANGED vars /\ Promotion!SessionStep(a)

PipelineNext == BatchesMove \/ \E a \in Promotion!Sessions : RunMoves(a)

PipelineSpec == PipelineInit /\ [][PipelineNext]_pipelineVars

-----------------------------------------------------------------------------
(* What must hold.                                                         *)

\* The rows of provider p in batch s are fit to be shown: every provider of the batch
\* succeeded and nobody stopped it, and somebody reviewed exactly these rows, those
\* of the last try among them.
Sourced(s, p) ==
    /\ \A q \in batch[s].scope :
          /\ Over(life[<<s, q>>])
          /\ life[<<s, q>>].outcome = "success"
          /\ ~life[<<s, q>>].stop
    /\ life[<<s, p>>].tries \in life[<<s, p>>].evidence
    /\ \E d \in reviewed :
          /\ d.slot = s
          /\ d.rows = StagedRows(s)
          /\ <<p, life[<<s, p>>].tries>> \in d.rows

\* Whatever the primary shows of a provider has that history, although planner,
\* workers, finalizer, approver and the runs each see a part of it only.
PrimaryProvenance == \A p \in Providers : primary[p] # NoSlot => Sourced(primary[p], p)

\* The composed system promotes as BatchPromotion does over batches that nobody
\* explains: all that is checked and proved of promotion holds of the real batches.
ImplementsPromotion == Promotion!Spec
=============================================================================
