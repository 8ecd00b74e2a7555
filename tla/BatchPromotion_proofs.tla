----------------------- MODULE BatchPromotion_proofs ------------------------
(* The safety of BatchPromotion for any slots, providers and runs.         *)
EXTENDS BatchPromotion, TLAPS

-----------------------------------------------------------------------------
(* The inductive invariant.                                                *)

Applying(a) == session[a].pc = "applying"

\* A run past its look has a batch; one that applies saw the batch as it is and
\* as it stays, with no newer one in the log.
SessionFacts(a) ==
    /\ session[a].pc # "idle" => session[a].slot \in Slots
    /\ Applying(a) =>
          /\ session[a].seen = ledger[session[a].slot]
          /\ ledger[session[a].slot].state = "approved"
          /\ \A t \in log : t <= session[a].slot
          /\ \A b \in Sessions : Applying(b) => b = a
          /\ a \in Timers => session[a].slot \notin log

PromotionInv ==
    /\ TypeOK
    /\ \A a \in Sessions : SessionFacts(a)
    /\ \A s \in log : ledger[s].state = "approved"
    /\ PrimaryMatchesLog

-----------------------------------------------------------------------------
(* The ledger.                                                             *)

LEMMA SlotsOrdered == \A s \in Slots : s # NoSlot /\ s <= s
    BY PromotionAssumption

\* A step of a batch keeps its shape; an approved batch has none.
LEMMA LedgerSteps ==
    ASSUME NEW e \in Ledger!Entry, NEW f \in Ledger!Steps(e)
    PROVE  f \in Ledger!Entry /\ e.state # "approved"
<1> USE DEF Ledger!Entry, Ledger!Rows, Ledger!Blank
<1>1. CASE e.state = "absent"
    BY <1>1 DEF Ledger!Steps
<1>2. CASE e.state = "open"
    BY <1>2 DEF Ledger!Steps, Ledger!Offers
<1>3. CASE e.state = "held"
  <2>1. f = [e EXCEPT !.state = "approved"]
      BY <1>3 DEF Ledger!Steps
  <2> QED
      BY <1>3, <2>1
<1>4. CASE e.state \in {"rejected", "approved"}
    BY <1>4 DEF Ledger!Steps
<1> QED
    BY <1>1, <1>2, <1>3, <1>4

LEMMA UnusedTyped == Ledger!Unused \in Ledger!Entry
    BY DEF Ledger!Unused, Ledger!Blank, Ledger!Entry, Ledger!Rows

LEMMA InitPromotion == Init => PromotionInv
    BY UnusedTyped, PromotionAssumption
    DEF Init, PromotionInv, TypeOK, SessionFacts, Applying, PrimaryMatchesLog, Idle, Session

-----------------------------------------------------------------------------
(* One lemma for the control plane, one for steps of a run that leave the  *)
(* primary alone, one for the commit.                                      *)

LEMMA LedgerStepInv ==
    ASSUME PromotionInv, NEW s \in Slots, LedgerStep(s)
    PROVE  PromotionInv'
<1> USE DEF PromotionInv
<1>1. PICK e \in Ledger!Steps(ledger[s]) : ledger' = [ledger EXCEPT ![s] = e]
    BY DEF LedgerStep
<1>2. ledger[s] \in Ledger!Entry
    BY DEF TypeOK
<1>3. e \in Ledger!Entry /\ ledger[s].state # "approved"
    BY <1>2, LedgerSteps
<1>4. UNCHANGED <<primary, log, session>>
    BY DEF LedgerStep
<1>5. \A t \in Slots : ledger[t].state = "approved" => ledger'[t] = ledger[t]
    BY <1>1, <1>3 DEF TypeOK
<1>6. TypeOK'
    BY <1>1, <1>3, <1>4 DEF TypeOK
<1>7. \A a \in Sessions : SessionFacts(a)'
    BY <1>4, <1>5 DEF SessionFacts, Applying
<1>8. \A t \in log' : ledger'[t].state = "approved"
    BY <1>4, <1>5 DEF TypeOK
<1>9. PrimaryMatchesLog'
  <2>1. \A t \in log : \A p \in Providers : Offers(t, p)' <=> Offers(t, p)
      BY <1>5 DEF TypeOK, Offers
  <2> QED
      BY <1>4, <1>8, <2>1 DEF PrimaryMatchesLog
<1> QED
    BY <1>6, <1>7, <1>8, <1>9

\* A run moves and writes nothing: what it becomes decides.
LEMMA RunMovesInv ==
    ASSUME PromotionInv, NEW a \in Sessions, NEW r \in Session,
           session' = [session EXCEPT ![a] = r],
           UNCHANGED <<ledger, primary, log>>,
           r.pc = "idle" => r = Idle,
           r.pc # "idle" => r.slot \in Slots,
           r.pc = "applying" =>
              /\ LockFree
              /\ r.seen = ledger[r.slot]
              /\ ledger[r.slot].state = "approved"
              /\ \A t \in log : t <= r.slot
              /\ a \in Timers => r.slot \notin log
    PROVE  PromotionInv'
<1> USE DEF PromotionInv
<1>1. session'[a] = r /\ \A b \in Sessions : b # a => session'[b] = session[b]
    BY DEF TypeOK
<1>2. TypeOK'
    BY <1>1 DEF TypeOK
<1>3. ASSUME NEW b \in Sessions PROVE SessionFacts(b)'
  <2>1. CASE b = a
      BY <1>1, <2>1 DEF SessionFacts, Applying, LockFree
  <2>2. CASE b # a
      BY <1>1, <2>2 DEF SessionFacts, Applying, LockFree
  <2> QED
      BY <2>1, <2>2
<1>4. PrimaryMatchesLog'
    BY DEF PrimaryMatchesLog, Offers
<1> QED
    BY <1>2, <1>3, <1>4

LEMMA LookInv ==
    ASSUME PromotionInv, NEW a \in Sessions, NEW s \in Slots, Look(a, s)
    PROVE  PromotionInv'
    BY RunMovesInv, UnusedTyped DEF Look, Looked, Idle, Session

LEMMA ReviewInv ==
    ASSUME PromotionInv, NEW a \in Sessions, NEW s \in Slots, ReviewForActivation(a, s)
    PROVE  PromotionInv'
<1>1. ledger[s] \in Ledger!Entry
    BY DEF PromotionInv, TypeOK
<1> QED
    BY <1>1, RunMovesInv, UnusedTyped DEF ReviewForActivation, Looked, Idle, Session

LEMMA DryRunInv ==
    ASSUME PromotionInv, NEW a \in Sessions, DryRun(a)
    PROVE  PromotionInv'
<1> DEFINE r == [session[a] EXCEPT !.pc = "pinned", !.pin = ledger[session[a].slot]]
<1>1. session[a] \in Session /\ session[a].slot \in Slots
    BY DEF PromotionInv, TypeOK, SessionFacts, DryRun
<1>2. ledger[session[a].slot] \in Ledger!Entry
    BY <1>1 DEF PromotionInv, TypeOK
<1>3. r \in Session /\ r.pc = "pinned" /\ r.slot = session[a].slot
    BY <1>1, <1>2 DEF Session
<1>4. session' = [session EXCEPT ![a] = r] /\ UNCHANGED <<ledger, primary, log>>
    BY DEF DryRun
<1> HIDE DEF r
<1> QED
    BY <1>1, <1>3, <1>4, RunMovesInv

LEMMA BeginApplyInv ==
    ASSUME PromotionInv, NEW a \in Sessions, BeginApply(a)
    PROVE  PromotionInv'
<1> DEFINE s == session[a].slot
           r == [session[a] EXCEPT !.pc = "applying", !.seen = ledger[s]]
<1>1. session[a] \in Session /\ s \in Slots
    BY DEF PromotionInv, TypeOK, SessionFacts, BeginApply
<1>2. ledger[s] \in Ledger!Entry
    BY <1>1 DEF PromotionInv, TypeOK
<1>3. r \in Session /\ r.pc = "applying" /\ r.slot = s /\ r.seen = ledger[s]
    BY <1>1, <1>2 DEF Session
<1>4. session' = [session EXCEPT ![a] = r] /\ UNCHANGED <<ledger, primary, log>>
    BY DEF BeginApply
<1>5. LockFree /\ ledger[s].state = "approved"
    BY DEF BeginApply, Eligible
<1>6. \A t \in log : t <= s
    BY DEF PromotionInv, TypeOK, BeginApply, IsLatest, Eligible
<1>7. a \in Timers => s \notin log
    BY PromotionAssumption DEF BeginApply, Unapplied
<1> HIDE DEF r
<1> QED
    BY <1>1, <1>3, <1>4, <1>5, <1>6, <1>7, RunMovesInv

LEMMA GiveUpInv ==
    ASSUME PromotionInv, NEW a \in Sessions, GiveUp(a)
    PROVE  PromotionInv'
    BY RunMovesInv, UnusedTyped DEF GiveUp, Idle, Session

LEMMA CommitApplyInv ==
    ASSUME PromotionInv, NEW a \in Sessions, CommitApply(a)
    PROVE  PromotionInv'
<1> DEFINE s == session[a].slot
<1> USE DEF PromotionInv
<1>1. /\ s \in Slots
      /\ session[a].seen = ledger[s]
      /\ ledger[s].state = "approved"
      /\ \A t \in log : t <= s
      /\ \A b \in Sessions : Applying(b) => b = a
    BY DEF SessionFacts, CommitApply, Applying
<1>2. /\ primary' = [p \in Providers |-> IF Written(a, p) THEN s ELSE primary[p]]
      /\ log' = log \cup {s}
      /\ session' = [session EXCEPT ![a] = Idle]
      /\ ledger' = ledger
    BY DEF CommitApply
<1>3. \A p \in Providers : Written(a, p) <=> Offers(s, p)
    BY <1>1 DEF Written, Offers
<1>4. /\ session'[a] = Idle
      /\ \A b \in Sessions : b # a => session'[b] = session[b] /\ ~ Applying(b)
    BY <1>1, <1>2 DEF TypeOK
<1>5. TypeOK'
  <2>1. Idle \in Session
      BY UnusedTyped DEF Idle, Session
  <2> QED
      BY <1>1, <1>2, <1>4, <2>1 DEF TypeOK
<1>6. ASSUME NEW b \in Sessions PROVE SessionFacts(b)'
    BY <1>2, <1>4 DEF SessionFacts, Applying, Idle
<1>7. \A t \in log' : ledger'[t].state = "approved"
    BY <1>1, <1>2
<1>8. PrimaryMatchesLog'
  <2> SUFFICES ASSUME NEW p \in Providers
               PROVE  /\ primary'[p] = NoSlot <=> {t \in log' : Offers(t, p)'} = {}
                      /\ \A t \in {x \in log' : Offers(x, p)'} :
                            /\ primary'[p] \in {x \in log' : Offers(x, p)'}
                            /\ t <= primary'[p]
      BY <1>2, <1>7 DEF PrimaryMatchesLog
  <2>1. \A t \in Slots : Offers(t, p)' <=> Offers(t, p)
      BY <1>2 DEF Offers
  <2>2. CASE Offers(s, p)
    <3>1. primary'[p] = s
        BY <1>2, <1>3, <2>2
    <3>2. s # NoSlot /\ s <= s
        BY <1>1, SlotsOrdered
    <3> QED
        BY <1>1, <1>2, <2>1, <2>2, <3>1, <3>2 DEF TypeOK
  <2>3. CASE ~ Offers(s, p)
    <3>1. primary'[p] = primary[p]
        BY <1>2, <1>3, <2>3
    <3>2. {t \in log' : Offers(t, p)'} = {t \in log : Offers(t, p)}
        BY <1>1, <1>2, <2>1, <2>3 DEF TypeOK
    <3> QED
        BY <3>1, <3>2 DEF PrimaryMatchesLog
  <2> QED
      BY <2>2, <2>3
<1> QED
    BY <1>5, <1>6, <1>7, <1>8

LEMMA NextInv == PromotionInv /\ [Next]_vars => PromotionInv'
<1> SUFFICES ASSUME PromotionInv, [Next]_vars PROVE PromotionInv'
    OBVIOUS
<1>1. ASSUME NEW s \in Slots, LedgerStep(s) PROVE PromotionInv'
    BY <1>1, LedgerStepInv
<1>2. ASSUME NEW a \in Sessions, NEW s \in Slots, Look(a, s) \/ ReviewForActivation(a, s)
      PROVE  PromotionInv'
    BY <1>2, LookInv, ReviewInv
<1>3. ASSUME NEW a \in Sessions, DryRun(a) \/ BeginApply(a) \/ CommitApply(a) \/ GiveUp(a)
      PROVE  PromotionInv'
    BY <1>3, DryRunInv, BeginApplyInv, CommitApplyInv, GiveUpInv
<1>4. CASE UNCHANGED vars
    BY <1>4 DEF vars, PromotionInv, TypeOK, SessionFacts, Applying, PrimaryMatchesLog, Offers
<1> QED
    BY <1>1, <1>2, <1>3, <1>4 DEF Next, SessionStep

-----------------------------------------------------------------------------
(* The theorems.                                                           *)

\* The inductive invariant of promotion: a run that writes holds the newest
\* approved batch, unchanged since its snapshot.
THEOREM PromotionSafety == Spec => []PromotionInv
    BY InitPromotion, NextInv, PTL DEF Spec

\* The log, the primary, the batches and the runs keep their shape.
THEOREM PromotionTyped == Spec => []TypeOK
    BY PromotionSafety, PTL DEF PromotionInv

\* Only approved batches are in the apply log, and the primary shows the newest of
\* them for every provider.
THEOREM PrimaryIsLog == Spec => []PrimaryMatchesLog
    BY PromotionSafety, PTL DEF PromotionInv

\* A run of the timer never writes a batch again.
THEOREM OnceByTimer == Spec => []TimerAppliesOnce
<1>1. PromotionInv => TimerAppliesOnce
    BY DEF PromotionInv, TimerAppliesOnce, SessionFacts, Applying, Sessions
<1> QED
    BY <1>1, PromotionSafety, PTL

\* A step never takes a provider's courses back to an older batch.
LEMMA ForwardOnly ==
    ASSUME PromotionInv, PromotionInv', [Next]_vars, NEW p \in Providers, primary[p] # NoSlot
    PROVE  primary'[p] \in Slots /\ primary[p] <= primary'[p]
<1>1. primary[p] \in log /\ primary[p] \in Slots /\ primary[p] <= primary[p]
    BY PromotionAssumption DEF PromotionInv, PrimaryMatchesLog, TypeOK
<1>2. CASE UNCHANGED primary
    BY <1>1, <1>2
<1>3. ASSUME NEW a \in Sessions, CommitApply(a)
      PROVE  primary'[p] \in Slots /\ primary[p] <= primary'[p]
  <2>1. session[a].slot \in Slots /\ \A t \in log : t <= session[a].slot
      BY <1>3 DEF PromotionInv, SessionFacts, CommitApply, Applying
  <2>2. primary'[p] = IF Written(a, p) THEN session[a].slot ELSE primary[p]
      BY <1>3 DEF CommitApply
  <2> QED
      BY <1>1, <2>1, <2>2
<1>4. UNCHANGED primary \/ \E a \in Sessions : CommitApply(a)
    BY DEF Next, SessionStep, LedgerStep, Look, ReviewForActivation, DryRun, BeginApply,
           GiveUp, vars
<1> QED
    BY <1>2, <1>3, <1>4

\* The courses of a provider never go back to an older batch.
THEOREM ForwardPrimary == Spec => NeverBack
<1>1. PromotionInv /\ PromotionInv' /\ [Next]_vars =>
      [\A p \in Providers : primary[p] # NoSlot =>
          primary'[p] \in Slots /\ primary[p] <= primary'[p]]_vars
    BY ForwardOnly
<1> QED
    BY <1>1, PromotionSafety, PTL DEF Spec, NeverBack

-----------------------------------------------------------------------------
(* What the ledger and the readers of the primary see of the runs.         *)

\* The batches move as their ledger says, and no run moves them.
THEOREM LedgerUntouched == Spec => Ledger!Spec
<1>1. Init => Ledger!Init
    BY DEF Init, Ledger!Init
<1>2. [Next]_vars => [Ledger!Next]_ledger
  <2>1. ASSUME NEW s \in Slots, LedgerStep(s) PROVE Ledger!Next
      BY <2>1 DEF LedgerStep, Ledger!Next
  <2>2. ASSUME NEW a \in Sessions, SessionStep(a) PROVE UNCHANGED ledger
      BY <2>2 DEF SessionStep, Look, ReviewForActivation, DryRun, BeginApply, CommitApply, GiveUp
  <2> QED
      BY <2>1, <2>2 DEF Next, vars
<1> QED
    BY <1>1, <1>2, PTL DEF Spec, Ledger!Spec

\* A batch that was applied already and is applied again is the newest in the log:
\* the primary shows it wherever it has rows.
LEMMA NewestIsShown ==
    ASSUME PromotionInv, NEW s \in log, \A t \in log : t <= s, NEW p \in Providers, Offers(s, p)
    PROVE  primary[p] = s
<1>1. primary[p] \in log /\ s <= primary[p] /\ primary[p] <= s
    BY DEF PromotionInv, PrimaryMatchesLog
<1>2. s \in Nat /\ primary[p] \in Nat
    BY <1>1, PromotionAssumption DEF PromotionInv, TypeOK
<1> QED
    BY <1>1, <1>2

\* The first apply of a batch takes it over; a forced one after it changes nothing.
LEMMA CommitTakesOver ==
    ASSUME PromotionInv, NEW a \in Sessions, CommitApply(a)
    PROVE  \/ \E s \in Slots : Courses!TakeOver(s)
           \/ UNCHANGED Courses!coursesVars
<1> DEFINE s == session[a].slot
<1>1. /\ s \in Slots
      /\ session[a].seen = ledger[s]
      /\ ledger[s].state = "approved"
      /\ \A t \in log : t <= s
    BY DEF PromotionInv, SessionFacts, CommitApply, Applying
<1>2. /\ primary' = [p \in Providers |-> IF Written(a, p) THEN s ELSE primary[p]]
      /\ log' = log \cup {s}
      /\ ledger' = ledger
    BY DEF CommitApply
<1> HIDE DEF s
<1>3. ASSUME NEW p \in Providers
      PROVE  (Written(a, p) <=> Courses!RowsOf(s, p) # {}) /\ (Written(a, p) <=> Offers(s, p))
    BY <1>1 DEF Written, Offers, Courses!RowsOf
<1>4. CASE s \in log
  <2>1. \A p \in Providers : Written(a, p) => primary[p] = s
      BY <1>1, <1>3, <1>4, NewestIsShown
  <2>2. primary' = primary
      BY <1>2, <2>1 DEF PromotionInv, TypeOK
  <2> QED
      BY <1>2, <1>4, <2>2 DEF Courses!coursesVars
<1>5. CASE s \notin log
  <2>1. \A t \in log : t < s
      BY <1>1, <1>5, PromotionAssumption DEF PromotionInv, TypeOK
  <2>2. primary' = [p \in Providers |-> IF Courses!RowsOf(s, p) # {} THEN s ELSE primary[p]]
      BY <1>2, <1>3
  <2> QED
      BY <1>1, <1>2, <2>1, <2>2 DEF Courses!TakeOver
<1> QED
    BY <1>4, <1>5

\* To readers of the primary the runs are invisible: whole approved batches, each
\* once, the older first.
THEOREM RunsInvisible == Spec => ImplementsCourses
<1>1. Init => Courses!CoursesInit
    BY DEF Init, Courses!CoursesInit, Courses!Ledger!Init, Ledger!Unused, Ledger!Blank,
           Courses!Ledger!Unused, Courses!Ledger!Blank
<1>2. PromotionInv /\ [Next]_vars => [Courses!CoursesNext]_(Courses!coursesVars)
  <2> SUFFICES ASSUME PromotionInv, [Next]_vars
               PROVE  Courses!CoursesNext \/ UNCHANGED Courses!coursesVars
      OBVIOUS
  <2>1. ASSUME NEW s \in Slots, LedgerStep(s) PROVE Courses!BatchMoves
    <3>1. Ledger!Steps(ledger[s]) = Courses!Ledger!Steps(ledger[s])
        BY DEF Ledger!Steps, Ledger!Offers, Ledger!Blank, Ledger!Rows, Courses!Ledger!Steps,
               Courses!Ledger!Offers, Courses!Ledger!Blank, Courses!Ledger!Rows
    <3> QED
        BY <2>1, <3>1 DEF LedgerStep, Courses!BatchMoves, Courses!Ledger!Next
  <2>2. ASSUME NEW a \in Sessions, CommitApply(a)
        PROVE  Courses!CoursesNext \/ UNCHANGED Courses!coursesVars
      BY <2>2, CommitTakesOver DEF Courses!CoursesNext
  <2>3. ASSUME NEW a \in Sessions, SessionStep(a), ~CommitApply(a)
        PROVE  UNCHANGED Courses!coursesVars
      BY <2>3 DEF SessionStep, Look, ReviewForActivation, DryRun, BeginApply, GiveUp,
                  Courses!coursesVars
  <2>4. CASE UNCHANGED vars
      BY <2>4 DEF vars, Courses!coursesVars
  <2> QED
      BY <2>1, <2>2, <2>3, <2>4 DEF Next, Courses!CoursesNext
<1> QED
    BY <1>1, <1>2, PromotionSafety, PTL DEF Spec, ImplementsCourses, Courses!CoursesSpec
=============================================================================
