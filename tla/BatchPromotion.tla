--------------------------- MODULE BatchPromotion ---------------------------
(***************************************************************************)
(* Promotion of approved batches to the primary: the hourly timer          *)
(* (tools/promote_latest_staging_batch.py), the pinned apply of an         *)
(* activation (tools/run_pinned_staging_apply.py) and the apply itself     *)
(* (tools/apply_staging_batch.py), over the batches of BatchLedger.        *)
(*                                                                         *)
(* A run looks for the latest batch, writes a dry-run document, and starts *)
(* an apply that pins the document.  The apply is one transaction on the   *)
(* primary under an advisory lock; all it reads of staging comes from one  *)
(* REPEATABLE READ snapshot.  Approvals and other runs come in between.    *)
(***************************************************************************)
EXTENDS Naturals

CONSTANTS Slots, Providers, MaxTries,
          Timers,      \* runs of the timer's service
          Activations, \* pinned applies of an operator, with --force
          NoSlot

ASSUME PromotionAssumption ==
    /\ Slots \subseteq Nat
    /\ NoSlot \notin Slots
    /\ Timers \cap Activations = {}

VARIABLES
    ledger,   \* the batches of the control plane in staging
    primary,  \* by provider, the batch that wrote its courses last
    log,      \* the batches with a successful row in crawl_batch_apply_logs
    session   \* the local state of each run

vars == <<ledger, primary, log, session>>

Ledger == INSTANCE BatchLedger
Sessions == Timers \cup Activations

\* `pin' is the fingerprint of the dry-run document, `seen' the batch in the
\* apply's snapshot.
Session == [pc : {"idle", "looked", "pinned", "applying"}, slot : Slots \cup {NoSlot},
            pin : Ledger!Entry, seen : Ledger!Entry]
Idle == [pc |-> "idle", slot |-> NoSlot, pin |-> Ledger!Unused, seen |-> Ledger!Unused]
Looked(s) == [Idle EXCEPT !.pc = "looked", !.slot = s]

Init ==
    /\ ledger = [s \in Slots |-> Ledger!Unused]
    /\ primary = [p \in Providers |-> NoSlot]
    /\ log = {}
    /\ session = [a \in Sessions |-> Idle]

\* The control plane opens, seals and approves batches.
LedgerStep(s) ==
    /\ \E e \in Ledger!Steps(ledger[s]) : ledger' = [ledger EXCEPT ![s] = e]
    /\ UNCHANGED <<primary, log, session>>

-----------------------------------------------------------------------------
\* A definition marked `Mutant' is a fault the checks must notice.

\* Mutant: the promotion bit is not looked at.
EligibleHeld(s) == ledger[s].state \in {"held", "approved"}

\* A complete batch with the sealed promotion bit, by the query and by the gate.
Eligible(s) == ledger[s].state = "approved"

\* Mutant: any eligible batch counts as the latest.
IsLatestAny(s) == Eligible(s)

\* latest_batch_id: the eligible batch with the greatest started_at, which the
\* finalizer sets to the slot.
IsLatest(s) == Eligible(s) /\ \A t \in Slots : Eligible(t) => t <= s

\* pg_try_advisory_xact_lock on the primary, held to the end of an apply.
LockFree == \A a \in Sessions : session[a].pc # "applying"

\* Mutant: any successful apply counts as the batch's own.
LookAnyLog(a, s) ==
    /\ a \in Timers
    /\ session[a].pc = "idle"
    /\ IsLatest(s)
    /\ log = {}
    /\ session' = [session EXCEPT ![a] = Looked(s)]
    /\ UNCHANGED <<ledger, primary, log>>

\* The timer's service reads the latest batch and the apply log, without lock.
Look(a, s) ==
    /\ a \in Timers
    /\ session[a].pc = "idle"
    /\ IsLatest(s)
    /\ s \notin log
    /\ session' = [session EXCEPT ![a] = Looked(s)]
    /\ UNCHANGED <<ledger, primary, log>>

\* Its pinned dry run: the batch must still be the latest; the document keeps
\* the fingerprint.
DryRun(a) ==
    LET s == session[a].slot IN
    /\ session[a].pc = "looked"
    /\ LockFree
    /\ IsLatest(s)
    /\ session' = [session EXCEPT ![a] = [@ EXCEPT !.pc = "pinned", !.pin = ledger[s]]]
    /\ UNCHANGED <<ledger, primary, log>>

\* An operator's dry run of a complete batch; of a held one if asked to.
ReviewForActivation(a, s) ==
    /\ a \in Activations
    /\ session[a].pc = "idle"
    /\ LockFree
    /\ ledger[s].state = "held" \/ IsLatest(s)
    /\ session' = [session EXCEPT ![a] = [Looked(s) EXCEPT !.pc = "pinned",
                                                           !.pin = ledger[s]]]
    /\ UNCHANGED <<ledger, primary, log>>

\* Mutant: the apply trusts the look that found the batch not applied.
UnappliedTrusted(a) == session[a].slot \in Slots

\* Only --force lets an apply run again for a batch with a successful log.
Unapplied(a) == a \in Activations \/ session[a].slot \notin log

\* The apply takes the lock, then the snapshot, and checks: the batch is the
\* latest, may be promoted, has the pinned fingerprint, is not applied yet.
BeginApply(a) ==
    LET s == session[a].slot IN
    /\ session[a].pc = "pinned"
    /\ LockFree
    /\ IsLatest(s)
    /\ Eligible(s)
    /\ ledger[s] = session[a].pin
    /\ Unapplied(a)
    /\ session' = [session EXCEPT ![a] = [@ EXCEPT !.pc = "applying", !.seen = ledger[s]]]
    /\ UNCHANGED <<ledger, primary, log>>

\* upsert_courses writes the rows of a provider.  A batch of the control plane closes
\* no courses as missing; that the same transaction closes courses of any provider
\* whose dates have passed (apply_ended_course_lifecycle) is not modelled.
Written(a, p) == \E x \in session[a].seen.rows : x[1] = p

\* Upserts and the log row are one transaction.
CommitApply(a) ==
    LET s == session[a].slot IN
    /\ session[a].pc = "applying"
    /\ primary' = [p \in Providers |-> IF Written(a, p) THEN s ELSE primary[p]]
    /\ log' = log \cup {s}
    /\ session' = [session EXCEPT ![a] = Idle]
    /\ UNCHANGED ledger

\* Mutant: the documents of a failed run are found by the next one.
GiveUpKeeps(a) ==
    /\ session[a].pc # "idle"
    /\ session' = [session EXCEPT ![a] = [@ EXCEPT !.pc = "idle"]]
    /\ UNCHANGED <<ledger, primary, log>>

\* A check fails, close safety refuses, a process dies or runs into its timeout:
\* the transaction is rolled back, if there is one, and the documents are void.
GiveUp(a) ==
    /\ session[a].pc # "idle"
    /\ session' = [session EXCEPT ![a] = Idle]
    /\ UNCHANGED <<ledger, primary, log>>

-----------------------------------------------------------------------------
SessionStep(a) ==
    \/ \E s \in Slots : Look(a, s) \/ ReviewForActivation(a, s)
    \/ DryRun(a)
    \/ BeginApply(a)
    \/ CommitApply(a)
    \/ GiveUp(a)

Next ==
    \/ \E s \in Slots : LedgerStep(s)
    \/ \E a \in Sessions : SessionStep(a)

Spec == Init /\ [][Next]_vars

\* The timer starts a run every hour and systemd ends it after two; steps of a
\* run that fail now and then succeed when they are tried again and again.  An
\* operator need not start an activation, but each one ends.
FairSpec ==
    /\ Spec
    /\ \A a \in Activations : WF_vars(CommitApply(a) \/ GiveUp(a))
    /\ \A a \in Timers :
          /\ WF_vars(SessionStep(a))
          /\ SF_vars(DryRun(a)) /\ SF_vars(BeginApply(a)) /\ SF_vars(CommitApply(a))

-----------------------------------------------------------------------------
(* What must hold.                                                         *)

Offers(s, p) == \E x \in ledger[s].rows : x[1] = p

\* The log, the primary, the batches and the runs have their shape; nothing of
\* an ended run is left for the next.
TypeOK ==
    /\ ledger \in [Slots -> Ledger!Entry]
    /\ primary \in [Providers -> Slots \cup {NoSlot}]
    /\ log \subseteq Slots
    /\ session \in [Sessions -> Session]
    /\ \A a \in Sessions : session[a].pc = "idle" => session[a] = Idle

\* Only approved batches reach the primary, whoever applies them, and it shows,
\* for every provider, the newest batch that was ever logged as applied and has
\* rows of it: no batch is logged that is there in part, and no slow run puts an
\* older one over a newer one.
PrimaryMatchesLog ==
    /\ \A s \in log : ledger[s].state = "approved"
    /\ \A p \in Providers :
          LET offering == {s \in log : Offers(s, p)} IN
          /\ primary[p] = NoSlot <=> offering = {}
          /\ \A s \in offering : primary[p] \in offering /\ s <= primary[p]

\* A run of the timer never writes a batch that was applied before, although it
\* looked at the log long ago, in another transaction.
TimerAppliesOnce ==
    \A a \in Timers : session[a].pc = "applying" => session[a].slot \notin log

\* The courses of a provider never go back to an older batch.
NeverBack ==
    [][\A p \in Providers : primary[p] # NoSlot =>
          primary'[p] \in Slots /\ primary[p] <= primary'[p]]_vars

\* A batch that stays the latest is applied at last, whatever fails in between
\* and whoever held the lock, once operators leave the apply to the timer.
LeftToTimer(s) == IsLatest(s) /\ \A a \in Activations : session[a].pc = "idle"
LatestReachesPrimary == \A s \in Slots : <>[]LeftToTimer(s) => <>(s \in log)

\* To those who read the primary the runs are invisible: its courses change as
\* PrimaryCourses says, by whole approved batches, each once, the older first.  An
\* apply that is forced to run again changes nothing.
Courses == INSTANCE PrimaryCourses
ImplementsCourses == Courses!CoursesSpec
=============================================================================
