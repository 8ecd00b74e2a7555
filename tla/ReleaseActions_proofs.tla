----------------------- MODULE ReleaseActions_proofs ------------------------
(* The safety of ReleaseActions for any requests, consumers and budgets.   *)
EXTENDS ReleaseActions, TLAPS

-----------------------------------------------------------------------------
(* The inductive invariant.  Its parts take the rows and the history as    *)
(* arguments, so that a step can be followed part by part.                 *)

Transition == [move : Moves, by : Requests \cup {Operator}]

\* The rollout went through the transition a request asks for.
Evident(r, h) == r.gen \in DOMAIN h /\ h[r.gen].move = r.move

\* A leased request was started and a started one approved; an unfiled one is blank.
RowSound(r, h) ==
    /\ r.readOnly => r.attempts = MaxAttempts
    /\ r.status = "leased" => r.attempts > 0
    /\ r.attempts > 0 => r.receipt # "none"
    /\ r.status = "none" => r.attempts = 0 /\ r.receipt = "none"
    /\ r.status # "none" => r.gen > 0
    /\ r.status = "succeeded" => Evident(r, h)

\* What a consumer works on was started; it ends with a success on evidence only,
\* and leaves a request to the reconciliation only after the last attempt.
AtWork(k, rows, h) ==
    k.pc # "idle" =>
        /\ k.req \in Requests
        /\ rows[k.req].attempts > 0
        /\ k.pc = "ending" =>
              /\ k.outcome # "none"
              /\ k.outcome = "success" => Evident(rows[k.req], h)
              /\ k.outcome = "defer" => k.attempt = MaxAttempts

Records ==
    /\ row \in [Requests -> Row]
    /\ history \in Seq(Transition)
    /\ Len(history) <= MaxGen
    /\ \A q \in Requests : RowSound(row[q], history)
    /\ CommitsAsApproved

ActionsInv ==
    /\ Records
    /\ consumer \in [Consumers -> Consumer]
    /\ \A c \in Consumers : AtWork(consumer[c], row, history)

-----------------------------------------------------------------------------
(* Pieces of a step.                                                       *)

LEMMA BlankTyped ==
    /\ Unfiled \in Row /\ Idle \in Consumer
    /\ \A h : RowSound(Unfiled, h)
    /\ \A rows, h : AtWork(Idle, rows, h)
<1>1. (CHOOSE m \in Moves : TRUE) \in Moves
    BY ActionsAssumption
<1> QED
    BY <1>1, ActionsAssumption DEF Unfiled, Row, Idle, Consumer, RowSound, AtWork

LEMMA InitActions == Init => ActionsInv
<1> SUFFICES ASSUME Init PROVE ActionsInv
    OBVIOUS
<1>1. history \in Seq(Transition) /\ Len(history) = 0
    BY DEF Init
<1>2. CommitsAsApproved
    BY DEF Init, CommitsAsApproved
<1> QED
    BY <1>1, <1>2, BlankTyped, ActionsAssumption DEF Init, ActionsInv, Records

\* A row keeps what was asked, its approval and its attempts.
LEMMA RowStep ==
    ASSUME ActionsInv, NEW q \in Requests, NEW r \in Row,
           row' = [row EXCEPT ![q] = r], history' = history,
           RowSound(r, history),
           r.attempts >= row[q].attempts,
           row[q].receipt # "none" => r.receipt # "none",
           row[q].status # "none" => r.gen = row[q].gen /\ r.move = row[q].move
    PROVE  /\ Records'
           /\ \A k \in Consumer : AtWork(k, row, history) => AtWork(k, row', history')
<1>1. /\ row \in [Requests -> Row] /\ row'[q] = r
      /\ \A p \in Requests : p # q => row'[p] = row[p]
    BY DEF ActionsInv, Records
<1>2. row' \in [Requests -> Row] /\ \A p \in Requests : RowSound(row'[p], history')
    BY <1>1 DEF ActionsInv, Records
<1>3. ASSUME NEW g \in DOMAIN history, history[g].by \in Requests
      PROVE  /\ g = row'[history[g].by].gen
             /\ history[g].move = row'[history[g].by].move
             /\ row'[history[g].by].receipt # "none"
  <2> DEFINE p == history[g].by
  <2>1. g = row[p].gen /\ history[g].move = row[p].move /\ row[p].receipt # "none"
      BY <1>3 DEF ActionsInv, Records, CommitsAsApproved
  <2>2. p \in Requests /\ row[p].status # "none"
      BY <1>3, <2>1 DEF ActionsInv, Records, RowSound
  <2> HIDE DEF p
  <2>3. g = row'[p].gen /\ history[g].move = row'[p].move /\ row'[p].receipt # "none"
      BY <1>1, <2>1, <2>2
  <2> QED
      BY <2>3 DEF p
<1>4. Records'
    BY <1>2, <1>3 DEF ActionsInv, Records, CommitsAsApproved
<1>5. ASSUME NEW k \in Consumer, AtWork(k, row, history)
      PROVE  AtWork(k, row', history')
  <2>1. CASE k.pc = "idle"
      BY <2>1 DEF AtWork
  <2>2. CASE k.pc # "idle" /\ k.req # q
      BY <1>1, <1>5, <2>2 DEF AtWork
  <2>3. CASE k.pc # "idle" /\ k.req = q
    <3>1. row[q].attempts > 0 /\ row[q] \in Row /\ row[q].attempts \in Nat /\ r.attempts \in Nat
        BY <1>1, <1>5, <2>3, ActionsAssumption DEF AtWork, Row
    <3>2. row[q].status # "none" /\ r.attempts > 0
        BY <3>1 DEF ActionsInv, Records, RowSound
    <3> QED
        BY <1>1, <1>5, <2>3, <3>2 DEF AtWork, Evident
  <2> QED
      BY <2>1, <2>2, <2>3
<1> QED
    BY <1>4, <1>5

\* A transition is appended; what was evident stays so.
LEMMA AdvanceStep ==
    ASSUME ActionsInv, NEW m \in Moves, NEW by \in Requests \cup {Operator},
           Advance(m, by), row' = row, Len(history) < MaxGen,
           by \in Requests =>
              row[by].gen = Len(history) + 1 /\ row[by].move = m /\ row[by].receipt # "none"
    PROVE  /\ Records'
           /\ \A k \in Consumer : AtWork(k, row, history) => AtWork(k, row', history')
           /\ by \in Requests => Evident(row'[by], history')
<1> DEFINE e == [move |-> m, by |-> by]
<1>1. e \in Transition /\ history \in Seq(Transition) /\ history' = Append(history, e)
    BY DEF Transition, ActionsInv, Records, Advance
<1> HIDE DEF e
<1>2. /\ history' \in Seq(Transition) /\ Len(history') = Len(history) + 1 /\ Len(history) \in Nat
      /\ DOMAIN history' = 1 .. Len(history) + 1 /\ DOMAIN history = 1 .. Len(history)
      /\ \A g \in DOMAIN history : history'[g] = history[g]
      /\ history'[Len(history) + 1] = e
    BY <1>1
<1>3. Len(history') <= MaxGen
    BY <1>2, ActionsAssumption
<1>4. \A r : Evident(r, history) => Evident(r, history')
    BY <1>2 DEF Evident
<1>5. \A q \in Requests : RowSound(row'[q], history')
    BY <1>4 DEF ActionsInv, Records, RowSound
<1>6. CommitsAsApproved'
    BY <1>2 DEF ActionsInv, Records, CommitsAsApproved, e
<1>7. \A k \in Consumer : AtWork(k, row, history) => AtWork(k, row', history')
    BY <1>4 DEF AtWork
<1>8. by \in Requests => Evident(row'[by], history')
    BY <1>2 DEF Evident, e
<1> QED
    BY <1>2, <1>3, <1>5, <1>6, <1>7, <1>8 DEF ActionsInv, Records

\* The consumer that moves has to be at work soundly; the others are carried over.
LEMMA ConsumerStep ==
    ASSUME ActionsInv, Records', NEW c \in Consumers, NEW k \in Consumer,
           consumer' = [consumer EXCEPT ![c] = k],
           AtWork(k, row', history'),
           \A x \in Consumer : AtWork(x, row, history) => AtWork(x, row', history')
    PROVE  ActionsInv'
    BY DEF ActionsInv

-----------------------------------------------------------------------------
(* The actions.                                                            *)
\* Steps of a row that no consumer takes part in.
LEMMA FiledInv ==
    ASSUME ActionsInv, NEW q \in Requests, NEW r \in Row,
           row' = [row EXCEPT ![q] = r], UNCHANGED <<history, consumer>>,
           RowSound(r, history),
           r.attempts >= row[q].attempts,
           row[q].receipt # "none" => r.receipt # "none",
           row[q].status # "none" => r.gen = row[q].gen /\ r.move = row[q].move
    PROVE  ActionsInv'
<1>1. /\ Records'
      /\ \A k \in Consumer : AtWork(k, row, history) => AtWork(k, row', history')
    BY RowStep
<1> QED
    BY <1>1 DEF ActionsInv

LEMMA RowFacts ==
    ASSUME ActionsInv, NEW q \in Requests
    PROVE  row[q] \in Row /\ row[q].attempts \in Nat /\ RowSound(row[q], history)
    BY ActionsAssumption DEF ActionsInv, Records, Row

LEMMA FileInv ==
    ASSUME ActionsInv, NEW q \in Requests, NEW g \in 1 .. MaxGen, NEW m \in Moves, File(q, g, m)
    PROVE  ActionsInv'
<1> DEFINE r == [Unfiled EXCEPT !.status = "queued", !.gen = g, !.move = m]
<1>1. r \in Row /\ r.attempts = 0 /\ r.readOnly = FALSE /\ r.status = "queued" /\ r.gen > 0
  <2>1. Unfiled \in Row /\ Unfiled.attempts = 0 /\ Unfiled.readOnly = FALSE
      BY BlankTyped DEF Unfiled
  <2>2. g \in 0 .. MaxGen /\ g > 0
      BY ActionsAssumption
  <2> QED
      BY <2>1, <2>2 DEF Row
<1>2. /\ row[q].status = "none" /\ row' = [row EXCEPT ![q] = r] /\ UNCHANGED <<history, consumer>>
    BY DEF File
<1> HIDE DEF r
<1>3. row[q].attempts = 0 /\ row[q].receipt = "none"
    BY <1>2, RowFacts DEF RowSound
<1>4. RowSound(r, history) /\ r.attempts >= row[q].attempts
    BY <1>1, <1>3 DEF RowSound
<1> QED
    BY <1>1, <1>2, <1>3, <1>4, FiledInv

LEMMA ReceiptInv ==
    ASSUME ActionsInv, NEW q \in Requests, Approve(q) \/ ReceiptExpires(q)
    PROVE  ActionsInv'
<1>1. PICK x \in {"live", "expired"} :
          /\ row' = [row EXCEPT ![q] = [row[q] EXCEPT !.receipt = x]]
          /\ row[q].status = "queued" \/ row[q].receipt = "live"
          /\ UNCHANGED <<history, consumer>>
    BY DEF Approve, ReceiptExpires
<1> DEFINE r == [row[q] EXCEPT !.receipt = x]
<1>2. /\ r \in Row /\ r.receipt # "none" /\ r.attempts = row[q].attempts /\ r.status = row[q].status
      /\ r.readOnly = row[q].readOnly /\ r.gen = row[q].gen /\ r.move = row[q].move
    BY RowFacts DEF Row
<1>3. row' = [row EXCEPT ![q] = r] /\ UNCHANGED <<history, consumer>>
    BY <1>1
<1> HIDE DEF r
<1>4. r.status # "none"
    BY <1>1, <1>2, RowFacts DEF RowSound
<1>5. RowSound(r, history)
    BY <1>2, <1>4, RowFacts DEF RowSound, Evident
<1>6. r.attempts >= row[q].attempts
    BY <1>2, RowFacts
<1> QED
    BY <1>2, <1>3, <1>5, <1>6, FiledInv

\* The row of an ended lease.
LEMMA UnleasedTyped ==
    ASSUME NEW r \in Row, NEW s \in {"queued", "succeeded", "failed", "reconciliation_required"}
    PROVE  /\ Unleased(r, s) \in Row /\ Unleased(r, s).status = s
           /\ ~Unleased(r, s).readOnly
           /\ Unleased(r, s).attempts = r.attempts /\ Unleased(r, s).receipt = r.receipt
           /\ Unleased(r, s).gen = r.gen /\ Unleased(r, s).move = r.move
    BY DEF Unleased, Row

LEMMA LapseInv ==
    ASSUME ActionsInv, NEW q \in Requests, Lapse(q)
    PROVE  ActionsInv'
<1> DEFINE r == [row[q] EXCEPT !.lapsed = TRUE]
<1>1. /\ r \in Row /\ r.receipt = row[q].receipt /\ r.attempts = row[q].attempts
      /\ r.status = row[q].status
      /\ r.readOnly = row[q].readOnly /\ r.gen = row[q].gen /\ r.move = row[q].move
    BY RowFacts DEF Row
<1>2. row' = [row EXCEPT ![q] = r] /\ UNCHANGED <<history, consumer>>
    BY DEF Lapse
<1> HIDE DEF r
<1>3. RowSound(r, history)
    BY <1>1, RowFacts DEF RowSound, Evident
<1>6. r.attempts >= row[q].attempts
    BY <1>1, RowFacts
<1> QED
    BY <1>1, <1>2, <1>3, <1>6, FiledInv

LEMMA ReapInv ==
    ASSUME ActionsInv, NEW q \in Requests, Reap(q)
    PROVE  ActionsInv'
<1> DEFINE r == Expired(row[q])
<1>1. /\ r \in Row /\ r.receipt = row[q].receipt /\ r.attempts = row[q].attempts
      /\ r.gen = row[q].gen /\ r.move = row[q].move
      /\ r.status \in {"queued", "reconciliation_required"}
      /\ r.readOnly => r.attempts = MaxAttempts
  <2>1. CASE row[q].readOnly
      BY <2>1, RowFacts, UnleasedTyped DEF Expired
  <2>2. CASE ~row[q].readOnly
    <3>1. Unleased(row[q], "queued") \in Row
        BY RowFacts, UnleasedTyped
    <3>2. r = [Unleased(row[q], "queued") EXCEPT !.readOnly = row[q].attempts = MaxAttempts]
        BY <2>2 DEF Expired
    <3>3. (row[q].attempts = MaxAttempts) \in BOOLEAN
        OBVIOUS
    <3>4. r \in Row
        BY <3>1, <3>2, <3>3 DEF Row
    <3> QED
        BY <3>1, <3>2, <3>4, RowFacts, UnleasedTyped DEF Row
  <2> QED
      BY <2>1, <2>2
<1>2. row' = [row EXCEPT ![q] = r] /\ row[q].status = "leased" /\ UNCHANGED <<history, consumer>>
    BY DEF Reap
<1> HIDE DEF r
<1>3. RowSound(r, history)
    BY <1>1, <1>2, RowFacts DEF RowSound
<1>6. r.attempts >= row[q].attempts
    BY <1>1, RowFacts
<1> QED
    BY <1>1, <1>2, <1>3, <1>6, FiledInv

LEMMA OperatorInv ==
    ASSUME ActionsInv, NEW m \in Moves, OperatorAdvances(m)
    PROVE  ActionsInv'
<1>1. /\ Records'
      /\ \A k \in Consumer : AtWork(k, row, history) => AtWork(k, row', history')
    BY AdvanceStep, ActionsAssumption DEF OperatorAdvances, Generation
<1> QED
    BY <1>1 DEF ActionsInv, OperatorAdvances

LEMMA ClaimInv ==
    ASSUME ActionsInv, NEW c \in Consumers, NEW q \in Requests, Claim(c, q)
    PROVE  ActionsInv'
<1> DEFINE n == AttemptOf(row[q])
           r == [row[q] EXCEPT !.status = "leased", !.attempts = n]
           k == [Idle EXCEPT !.pc = "claimed", !.req = q, !.attempt = n,
                             !.readOnly = row[q].readOnly]
<1>1. /\ n \in 0 .. MaxAttempts /\ n > 0 /\ n >= row[q].attempts
      /\ row[q].readOnly => n = MaxAttempts
      /\ row[q].receipt # "none" /\ row[q].status = "queued"
    BY RowFacts, ActionsAssumption
    DEF Claim, Claimable, Approved, AttemptOf, RowSound, Row
<1>2. /\ row' = [row EXCEPT ![q] = r] /\ UNCHANGED history
      /\ consumer' = [consumer EXCEPT ![c] = k]
  <2>1. row' = [row EXCEPT ![q].status = "leased", ![q].attempts = n]
      BY DEF Claim
  <2>2. row \in [Requests -> Row]
      BY DEF ActionsInv, Records
  <2>3. row' = [row EXCEPT ![q] = r]
      BY <2>1, <2>2
  <2> QED
      BY <2>3 DEF Claim
<1> HIDE DEF n
<1>3. /\ r \in Row /\ r.attempts = n /\ r.status = "leased" /\ r.receipt = row[q].receipt
      /\ r.gen = row[q].gen /\ r.move = row[q].move /\ r.readOnly = row[q].readOnly
    BY <1>1, RowFacts DEF Row
<1>4. k \in Consumer /\ k.pc = "claimed" /\ k.req = q
    BY <1>1, RowFacts, BlankTyped DEF Idle, Consumer, Row
<1> HIDE DEF r, k
<1>5. RowSound(r, history)
  <2>1. r.gen > 0
      BY <1>1, <1>3, RowFacts DEF RowSound
  <2> QED
      BY <1>1, <1>3, <2>1 DEF RowSound
<1>6. /\ Records'
      /\ \A x \in Consumer : AtWork(x, row, history) => AtWork(x, row', history')
    BY <1>1, <1>2, <1>3, <1>5, RowStep
<1>7. row'[q] = r
    BY <1>2 DEF ActionsInv, Records
<1>8. AtWork(k, row', history')
    BY <1>1, <1>3, <1>4, <1>7 DEF AtWork
<1> QED
    BY <1>2, <1>4, <1>6, <1>8, ConsumerStep

-----------------------------------------------------------------------------
(* The execution.                                                          *)

\* A consumer takes a turn and writes nothing.
LEMMA TurnInv ==
    ASSUME ActionsInv, NEW c \in Consumers, NEW k \in Consumer,
           consumer' = [consumer EXCEPT ![c] = k], UNCHANGED <<row, history>>,
           AtWork(k, row, history)
    PROVE  ActionsInv'
<1>1. Records'
    BY DEF ActionsInv, Records, CommitsAsApproved
<1> QED
    BY <1>1, ConsumerStep

LEMMA ConsumerFacts ==
    ASSUME ActionsInv, NEW c \in Consumers, consumer[c].pc # "idle"
    PROVE  /\ consumer[c] \in Consumer /\ consumer[c].req \in Requests
           /\ AskedBy(c) \in Row /\ AskedBy(c).gen > 0 /\ AskedBy(c).receipt # "none"
           /\ AskedBy(c).attempts > 0
<1>1. consumer[c] \in Consumer /\ consumer[c].req \in Requests /\ AskedBy(c).attempts > 0
    BY DEF ActionsInv, AtWork, AskedBy
<1> QED
    BY <1>1, RowFacts DEF RowSound, AskedBy

\* Where a turn may lead: on, with no outcome yet, or to an outcome that is sound.
LEMMA GoesOn ==
    ASSUME ActionsInv, NEW c \in Consumers, consumer[c].pc # "idle", UNCHANGED <<row, history>>,
           Goto(c, "mutating") \/ \E error \in {"refused", "other"} : Fails(c, error)
    PROVE  ActionsInv'
<1>1. PICK pc \in {"mutating", "probing"}, error \in {"none", "refused", "other"} :
          consumer' = [consumer EXCEPT ![c] = [consumer[c] EXCEPT !.pc = pc, !.error = error]]
  <2>1. CASE Goto(c, "mutating")
    <3>1. consumer[c] \in Consumer
        BY ConsumerFacts
    <3>2. [consumer[c] EXCEPT !.pc = "mutating"] =
          [consumer[c] EXCEPT !.pc = "mutating", !.error = consumer[c].error]
        BY <3>1 DEF Consumer
    <3> QED
        BY <2>1, <3>1, <3>2 DEF Goto, Consumer
  <2>2. CASE \E error \in {"refused", "other"} : Fails(c, error)
      BY <2>2 DEF Fails, ActionsInv
  <2> QED
      BY <2>1, <2>2
<1> DEFINE k == [consumer[c] EXCEPT !.pc = pc, !.error = error]
<1>2. /\ k \in Consumer /\ k.pc \notin {"idle", "ending"} /\ k.req = consumer[c].req
    BY ConsumerFacts DEF Consumer
<1>3. consumer' = [consumer EXCEPT ![c] = k]
    BY <1>1
<1> HIDE DEF k
<1>4. AtWork(k, row, history)
    BY <1>2, ConsumerFacts DEF AtWork, AskedBy
<1> QED
    BY <1>2, <1>3, <1>4, TurnInv

LEMMA EndsWith ==
    ASSUME ActionsInv, NEW c \in Consumers, consumer[c].pc # "idle", UNCHANGED <<row, history>>,
           NEW outcome \in {"success", "failure", "retry", "defer", "review"}, Decides(c, outcome),
           outcome = "success" => Recovered(AskedBy(c)),
           outcome = "defer" => LastAttempt(c)
    PROVE  ActionsInv'
<1> DEFINE k == [consumer[c] EXCEPT !.pc = "ending", !.outcome = outcome]
<1>1. /\ k \in Consumer /\ k.pc = "ending" /\ k.outcome = outcome /\ k.req = consumer[c].req
      /\ k.attempt = consumer[c].attempt
    BY ConsumerFacts DEF Consumer
<1>2. consumer' = [consumer EXCEPT ![c] = k]
    BY DEF Decides, ActionsInv
<1> HIDE DEF k
<1>3. outcome = "success" => Evident(AskedBy(c), history)
  <2>1. history \in Seq(Transition) /\ AskedBy(c).gen \in Nat /\ AskedBy(c).gen > 0
      BY ConsumerFacts, ActionsAssumption DEF ActionsInv, Records, Row
  <2> QED
      BY <2>1 DEF Recovered, Evident, Generation
<1>4. AtWork(k, row, history)
    BY <1>1, <1>3, ConsumerFacts DEF AtWork, AskedBy, LastAttempt
<1> QED
    BY <1>1, <1>2, <1>4, TurnInv

LEMMA LookInv ==
    ASSUME ActionsInv, NEW c \in Consumers, NEW seen \in Seen, Look(c, seen)
    PROVE  ActionsInv'
<1>1. /\ consumer[c].pc = "claimed" /\ UNCHANGED <<row, history>>
      /\ seen = "recovered" => Recovered(AskedBy(c))
    BY DEF Look, Looks
<1>2. \/ seen = "recovered" /\ Decides(c, "success")
      \/ Decides(c, "failure")
      \/ Decides(c, "review")
      \/ Goto(c, "mutating")
      \/ Fails(c, "other")
    BY DEF Look
<1> QED
    BY <1>1, <1>2, GoesOn, EndsWith

LEMMA ProbeInv ==
    ASSUME ActionsInv, NEW c \in Consumers, NEW seen \in Seen, Probe(c, seen)
    PROVE  ActionsInv'
<1>1. /\ consumer[c].pc = "probing" /\ UNCHANGED <<row, history>>
      /\ seen = "recovered" => Recovered(AskedBy(c))
    BY DEF Probe, Looks
<1>2. \/ seen = "recovered" /\ Decides(c, "success")
      \/ Decides(c, "failure")
      \/ LastAttempt(c) /\ Decides(c, "defer")
      \/ Decides(c, "retry")
    BY DEF Probe
<1> QED
    BY <1>1, <1>2, EndsWith

LEMMA MutateFailsInv ==
    ASSUME ActionsInv, NEW c \in Consumers, NEW error \in {"refused", "other"},
           MutateFails(c, error)
    PROVE  ActionsInv'
<1>1. consumer[c].pc = "mutating" /\ Fails(c, error) /\ UNCHANGED <<row, history>>
    BY DEF MutateFails
<1> QED
    BY <1>1, GoesOn

LEMMA EndRaisesInv ==
    ASSUME ActionsInv, NEW c \in Consumers, EndRaises(c)
    PROVE  ActionsInv'
<1>1. consumer[c].pc = "ending" /\ UNCHANGED <<row, history>>
    BY DEF EndRaises
<1>2. Decides(c, "review") \/ Fails(c, "other")
    BY DEF EndRaises
<1> QED
    BY <1>1, <1>2, GoesOn, EndsWith

\* The transition itself: the request's own evidence, whatever the answer says.
LEMMA MutateInv ==
    ASSUME ActionsInv, NEW c \in Consumers, Mutate(c)
    PROVE  ActionsInv'
<1> DEFINE q == consumer[c].req
<1>1. /\ consumer[c].pc = "mutating" /\ Len(history) + 1 = row[q].gen
      /\ Advance(row[q].move, q) /\ row' = row
      /\ Decides(c, "success") \/ Fails(c, "other")
    BY DEF Mutate, AskedBy, Generation
<1>2. /\ consumer[c] \in Consumer /\ q \in Requests /\ row[q] \in Row
      /\ row[q].receipt # "none" /\ row[q].attempts > 0
    BY <1>1, ConsumerFacts DEF AskedBy
<1>3. PICK k \in Consumer :
          /\ consumer' = [consumer EXCEPT ![c] = k]
          /\ k.req = q
          /\ k.pc = "probing" \/ k.outcome = "success"
  <2>1. CASE Decides(c, "success")
    <3> DEFINE k == [consumer[c] EXCEPT !.pc = "ending", !.outcome = "success"]
    <3>1. k \in Consumer /\ k.req = q /\ k.outcome = "success"
        BY <1>2 DEF Consumer
    <3>2. consumer' = [consumer EXCEPT ![c] = k]
        BY <2>1 DEF Decides, ActionsInv
    <3> HIDE DEF k
    <3> QED
        BY <3>1, <3>2
  <2>2. CASE Fails(c, "other")
    <3> DEFINE k == [consumer[c] EXCEPT !.pc = "probing", !.error = "other"]
    <3>1. k \in Consumer /\ k.req = q /\ k.pc = "probing"
        BY <1>2 DEF Consumer
    <3>2. consumer' = [consumer EXCEPT ![c] = k]
        BY <2>2 DEF Fails, ActionsInv
    <3> HIDE DEF k
    <3> QED
        BY <3>1, <3>2
  <2> QED
      BY <1>1, <2>1, <2>2
<1>4. Len(history) < MaxGen /\ row[q].move \in Moves /\ row[q].gen = Len(history) + 1
  <2>1. history \in Seq(Transition) /\ row[q].gen \in 0 .. MaxGen /\ row[q].move \in Moves
      BY <1>2 DEF ActionsInv, Records, Row
  <2> QED
      BY <1>1, <2>1, ActionsAssumption
<1> HIDE DEF q
<1>5. /\ Records'
      /\ \A x \in Consumer : AtWork(x, row, history) => AtWork(x, row', history')
      /\ Evident(row'[q], history')
    BY <1>1, <1>2, <1>4, AdvanceStep
<1>6. AtWork(k, row', history')
    BY <1>1, <1>2, <1>3, <1>5 DEF AtWork
<1> QED
    BY <1>3, <1>5, <1>6, ConsumerStep

\* The row a consumer leaves behind, if the lease is still its own.
LEMMA EndInv ==
    ASSUME ActionsInv, NEW c \in Consumers, End(c)
    PROVE  ActionsInv'
<1> DEFINE q == consumer[c].req
           r == IF Holds(c) THEN Settled(row[q], consumer[c].outcome) ELSE row[q]
<1>1. /\ consumer[c].pc = "ending" /\ consumer[c] \in Consumer /\ q \in Requests
      /\ row \in [Requests -> Row] /\ row[q] \in Row /\ RowSound(row[q], history)
      /\ row[q].attempts > 0 /\ row[q].attempts \in Nat
      /\ AtWork(consumer[c], row, history)
    BY ConsumerFacts, RowFacts DEF End, AskedBy, ActionsInv, Records
<1>2. /\ row' = [row EXCEPT ![q] = r] /\ UNCHANGED history
      /\ consumer' = [consumer EXCEPT ![c] = Idle]
    BY <1>1 DEF End
<1>3. /\ r \in Row /\ r.attempts = row[q].attempts /\ r.receipt = row[q].receipt
      /\ r.gen = row[q].gen /\ r.move = row[q].move /\ RowSound(r, history)
  <2>1. CASE ~Holds(c)
      BY <1>1, <2>1
  <2>2. CASE Holds(c) /\ consumer[c].outcome = "defer"
    <3>1. r = [Unleased(row[q], "queued") EXCEPT !.readOnly = TRUE]
        BY <2>2 DEF Settled
    <3>2. row[q].attempts = MaxAttempts
        BY <1>1, <2>2 DEF Holds, AskedBy, AtWork
    <3> HIDE DEF q, r
    <3>3. /\ r \in Row /\ r.attempts = row[q].attempts /\ r.receipt = row[q].receipt
          /\ r.gen = row[q].gen /\ r.move = row[q].move /\ r.status = "queued"
        BY <1>1, <3>1 DEF Unleased, Row
    <3> QED
        BY <1>1, <3>2, <3>3 DEF RowSound
  <2>3. CASE Holds(c) /\ consumer[c].outcome # "defer"
    <3>1. PICK s \in {"queued", "succeeded", "failed", "reconciliation_required"} :
              r = Unleased(row[q], s) /\ (s = "succeeded" => consumer[c].outcome = "success")
      <4>1. consumer[c].outcome \in {"success", "failure", "review", "retry"}
          BY <1>1, <2>3 DEF AtWork, Consumer
      <4> QED
          BY <2>3, <4>1 DEF Settled
    <3>2. s = "succeeded" => Evident(row[q], history)
        BY <1>1, <3>1 DEF AtWork
    <3>3. row[q].status # "none"
        BY <1>1 DEF RowSound
    <3> HIDE DEF q, r
    <3> QED
        BY <1>1, <3>1, <3>2, <3>3, UnleasedTyped DEF RowSound, Evident
  <2> QED
      BY <2>1, <2>2, <2>3
<1> HIDE DEF r, q
<1>4. r.attempts >= row[q].attempts
    BY <1>1, <1>3
<1>5. /\ Records'
      /\ \A x \in Consumer : AtWork(x, row, history) => AtWork(x, row', history')
    BY <1>1, <1>2, <1>3, <1>4, RowStep
<1> QED
    BY <1>2, <1>5, BlankTyped, ConsumerStep

LEMMA DropInv ==
    ASSUME ActionsInv, NEW c \in Consumers, Drop(c)
    PROVE  ActionsInv'
    BY BlankTyped, TurnInv DEF Drop

LEMMA NextInv == ActionsInv /\ [Next]_vars => ActionsInv'
<1> SUFFICES ASSUME ActionsInv, [Next]_vars PROVE ActionsInv'
    OBVIOUS
<1>1. ASSUME NEW q \in Requests, NEW g \in 1 .. MaxGen, NEW m \in Moves, File(q, g, m)
      PROVE  ActionsInv'
    BY <1>1, FileInv
<1>2. ASSUME NEW q \in Requests, Approve(q) \/ ReceiptExpires(q) \/ Lapse(q) \/ Reap(q)
      PROVE  ActionsInv'
    BY <1>2, ReceiptInv, LapseInv, ReapInv
<1>3. ASSUME NEW m \in Moves, OperatorAdvances(m)
      PROVE  ActionsInv'
    BY <1>3, OperatorInv
<1>4. ASSUME NEW c \in Consumers, Execute(c) \/ Drop(c)
      PROVE  ActionsInv'
  <2>1. CASE \E seen \in Seen : Look(c, seen) \/ Probe(c, seen)
      BY <2>1, LookInv, ProbeInv
  <2>2. CASE \E error \in {"refused", "other"} : MutateFails(c, error)
      BY <2>2, MutateFailsInv
  <2> QED
      BY <1>4, <2>1, <2>2, MutateInv, EndInv, EndRaisesInv, DropInv DEF Execute
<1>5. ASSUME NEW c \in Consumers, NEW q \in Requests, Claim(c, q)
      PROVE  ActionsInv'
    BY <1>5, ClaimInv
<1>6. CASE UNCHANGED vars
    BY <1>6 DEF vars, ActionsInv, Records, CommitsAsApproved
<1> QED
    BY <1>1, <1>2, <1>3, <1>4, <1>5, <1>6 DEF Next

-----------------------------------------------------------------------------
(* The theorems.                                                           *)

\* The inductive invariant of the action queue: every request that was begun was
\* approved, and every consumer about to report a success has the evidence.
THEOREM ActionsSafety == Spec => []ActionsInv
    BY InitActions, NextInv, PTL DEF Spec

\* Rows and consumers keep their shape, and a request its budget of attempts.
THEOREM ActionsTyped == Spec => []TypeOK
<1>1. ActionsInv => TypeOK
    BY DEF ActionsInv, Records, RowSound, AtWork, TypeOK, Generation, Transition
<1> QED
    BY <1>1, ActionsSafety, PTL

\* A request commits what was approved, in the generation it names, at most once.
THEOREM CommitsApproved == Spec => []CommitsAsApproved
<1>1. ActionsInv => CommitsAsApproved
    BY DEF ActionsInv, Records
<1> QED
    BY <1>1, ActionsSafety, PTL

\* A reported success is one of the rollout.
THEOREM SuccessHonest == Spec => []SuccessEvident
<1>1. ActionsInv => SuccessEvident
    BY DEF ActionsInv, Records, RowSound, Evident, SuccessEvident
<1> QED
    BY <1>1, ActionsSafety, PTL

-----------------------------------------------------------------------------
(* The queue keeps the book of requests.                                   *)

\* A step on one row changes one entry, or none that anybody can see.
LEMMA EntryMoves ==
    ASSUME ActionsInv, NEW q \in Requests, NEW r, row' = [row EXCEPT ![q] = r],
           NEW e, e = EntryOf(r)
    PROVE  [p \in Requests |-> EntryOf(row[p])]' =
              [[p \in Requests |-> EntryOf(row[p])] EXCEPT ![q] = e]
<1>1. /\ row'[q] = r
      /\ \A p \in Requests : p # q => row'[p] = row[p]
    BY DEF ActionsInv, Records
<1>2. e = EntryOf(row'[q])
    BY <1>1
<1> QED
    BY <1>1, <1>2 DEF EntryOf, StateOf

LEMMA BookRows == \A q \in Requests : [p \in Requests |-> EntryOf(row[p])][q] = EntryOf(row[q])
    OBVIOUS

LEMMA EntryStays ==
    ASSUME ActionsInv, NEW q \in Requests, NEW r, row' = [row EXCEPT ![q] = r],
           EntryOf(r) = EntryOf(row[q]), history' = history
    PROVE  UNCHANGED Book!bookVars
<1>1. \A p \in Requests : EntryOf(row'[p]) = EntryOf(row[p])
    BY DEF ActionsInv, Records
<1> QED
    BY <1>1 DEF Book!bookVars

LEMMA FileBook ==
    ASSUME ActionsInv, NEW q \in Requests, NEW g \in 1 .. MaxGen, NEW m \in Moves, File(q, g, m)
    PROVE  Book!File(q, g, m)
<1> DEFINE r == [Unfiled EXCEPT !.status = "queued", !.gen = g, !.move = m]
           e == Book!Entry("open", g, m, FALSE)
<1>1. row[q].status = "none" /\ row' = [row EXCEPT ![q] = r] /\ history' = history
    BY DEF File
<1>2. e = EntryOf(r)
    BY DEF EntryOf, StateOf, Unfiled, Book!Entry
<1>3. EntryOf(row[q]).state = "none"
    BY <1>1 DEF EntryOf, StateOf
<1> HIDE DEF r, e
<1>4. [p \in Requests |-> EntryOf(row[p])]' = [[p \in Requests |-> EntryOf(row[p])] EXCEPT ![q] = e]
    BY <1>1, <1>2, EntryMoves
<1> QED
    BY <1>1, <1>3, <1>4, BookRows DEF Book!File, e

LEMMA ApproveBook ==
    ASSUME ActionsInv, NEW q \in Requests, Approve(q)
    PROVE  Book!Approve(q)
<1> DEFINE r == [row[q] EXCEPT !.receipt = "live"]
           e == Book!Entry("open", row[q].gen, row[q].move, TRUE)
<1>1. /\ row[q].status = "queued" /\ row[q].receipt = "none"
      /\ row' = [row EXCEPT ![q] = r] /\ history' = history
    BY DEF Approve
<1>2. e = EntryOf(r)
  <2>1. r.status = row[q].status /\ r.gen = row[q].gen /\ r.move = row[q].move /\ r.receipt = "live"
      BY RowFacts DEF Row
  <2>2. (r.receipt # "none") = TRUE
      BY <2>1
  <2> HIDE DEF r
  <2> QED
      BY <1>1, <2>1, <2>2 DEF EntryOf, StateOf, Book!Entry
<1>3. /\ EntryOf(row[q]).state = "open" /\ ~EntryOf(row[q]).approved
      /\ EntryOf(row[q]).gen = row[q].gen /\ EntryOf(row[q]).move = row[q].move
    BY <1>1 DEF EntryOf, StateOf
<1> HIDE DEF r, e
<1>4. [p \in Requests |-> EntryOf(row[p])]' = [[p \in Requests |-> EntryOf(row[p])] EXCEPT ![q] = e]
    BY <1>1, <1>2, EntryMoves
<1> QED
    BY <1>1, <1>3, <1>4, BookRows DEF Book!Approve, e

\* What ends a request, and what it says of the rollout if it is a success.
LEMMA EndBook ==
    ASSUME ActionsInv, NEW q \in Requests, NEW r, NEW outcome \in Book!Ends,
           row' = [row EXCEPT ![q] = r], history' = history,
           row[q].status = "leased", row[q].receipt # "none",
           r.status = outcome, r.gen = row[q].gen, r.move = row[q].move, r.receipt = row[q].receipt,
           outcome = "succeeded" => Evident(row[q], history)
    PROVE  Book!End(q, outcome)
<1> DEFINE e == [EntryOf(row[q]) EXCEPT !.state = outcome]
<1>1. e = EntryOf(r)
    BY DEF EntryOf, StateOf, Book!Ends
<1>2. EntryOf(row[q]).state = "open" /\ EntryOf(row[q]).approved
    BY DEF EntryOf, StateOf
<1>3. outcome = "succeeded" => Book!IsDone(q)
    BY BookRows DEF Book!IsDone, Evident, EntryOf
<1> HIDE DEF e
<1>4. [p \in Requests |-> EntryOf(row[p])]' = [[p \in Requests |-> EntryOf(row[p])] EXCEPT ![q] = e]
    BY <1>1, EntryMoves
<1> QED
    BY <1>2, <1>3, <1>4, BookRows DEF Book!End, e

LEMMA ReapBook ==
    ASSUME ActionsInv, NEW q \in Requests, Reap(q)
    PROVE  UNCHANGED Book!bookVars \/ \E outcome \in Book!Ends : Book!End(q, outcome)
<1> DEFINE r == Expired(row[q])
<1>1. row' = [row EXCEPT ![q] = r] /\ row[q].status = "leased" /\ history' = history
    BY DEF Reap
<1>2. row[q].receipt # "none" /\ row[q] \in Row
    BY <1>1, RowFacts DEF RowSound
<1>3. CASE row[q].readOnly
  <2>1. r = Unleased(row[q], "reconciliation_required")
      BY <1>3 DEF Expired
  <2>2. /\ r.status = "reconciliation_required" /\ r.gen = row[q].gen /\ r.move = row[q].move
        /\ r.receipt = row[q].receipt
      BY <1>2, <2>1, UnleasedTyped
  <2>3. "reconciliation_required" \in Book!Ends
      BY DEF Book!Ends
  <2> HIDE DEF r
  <2> QED
      BY <1>1, <1>2, <2>2, <2>3, EndBook
<1>4. CASE ~row[q].readOnly
  <2>1. r = [Unleased(row[q], "queued") EXCEPT !.readOnly = row[q].attempts = MaxAttempts]
      BY <1>4 DEF Expired
  <2>2. /\ r.status = "queued" /\ r.gen = row[q].gen /\ r.move = row[q].move
        /\ r.receipt = row[q].receipt
      BY <1>2, <2>1 DEF Unleased, Row
  <2> HIDE DEF r
  <2>3. EntryOf(r) = EntryOf(row[q])
      BY <1>1, <2>2 DEF EntryOf, StateOf
  <2> QED
      BY <1>1, <2>3, EntryStays
<1> QED
    BY <1>3, <1>4

LEMMA ClaimBook ==
    ASSUME ActionsInv, NEW c \in Consumers, NEW q \in Requests, Claim(c, q)
    PROVE  UNCHANGED Book!bookVars
<1> DEFINE r == [row[q] EXCEPT !.status = "leased", !.attempts = AttemptOf(row[q])]
<1>1. row[q].status = "queued" /\ history' = history
    BY DEF Claim, Claimable
<1>2. row' = [row EXCEPT ![q] = r]
  <2>1. row' = [row EXCEPT ![q].status = "leased", ![q].attempts = AttemptOf(row[q])]
      BY DEF Claim
  <2> QED
      BY <2>1 DEF ActionsInv, Records
<1>3. EntryOf(r) = EntryOf(row[q])
  <2>1. /\ r.status = "leased" /\ r.gen = row[q].gen /\ r.move = row[q].move
        /\ r.receipt = row[q].receipt
      BY RowFacts DEF Row
  <2> QED
      BY <1>1, <2>1 DEF EntryOf, StateOf
<1> HIDE DEF r
<1> QED
    BY <1>1, <1>2, <1>3, EntryStays

\* Expiry of a receipt and of a lease are nobody else's business.
LEMMA ExpiryBook ==
    ASSUME ActionsInv, NEW q \in Requests, ReceiptExpires(q) \/ Lapse(q)
    PROVE  UNCHANGED Book!bookVars
<1>1. PICK r : /\ row' = [row EXCEPT ![q] = r] /\ history' = history
               /\ r.status = row[q].status /\ r.gen = row[q].gen /\ r.move = row[q].move
               /\ r.receipt # "none" <=> row[q].receipt # "none"
  <2>1. CASE ReceiptExpires(q)
    <3> DEFINE r == [row[q] EXCEPT !.receipt = "expired"]
    <3>1. /\ r.status = row[q].status /\ r.gen = row[q].gen /\ r.move = row[q].move
          /\ r.receipt # "none" <=> row[q].receipt # "none"
        BY <2>1, RowFacts DEF ReceiptExpires, Row
    <3>2. row' = [row EXCEPT ![q] = r] /\ history' = history
        BY <2>1 DEF ReceiptExpires
    <3> HIDE DEF r
    <3> QED
        BY <3>1, <3>2
  <2>2. CASE Lapse(q)
    <3> DEFINE r == [row[q] EXCEPT !.lapsed = TRUE]
    <3>1. /\ r.status = row[q].status /\ r.gen = row[q].gen /\ r.move = row[q].move
          /\ r.receipt = row[q].receipt
        BY RowFacts DEF Row
    <3>2. row' = [row EXCEPT ![q] = r] /\ history' = history
        BY <2>2 DEF Lapse
    <3> HIDE DEF r
    <3> QED
        BY <3>1, <3>2
  <2> QED
      BY <2>1, <2>2
<1>2. EntryOf(r) = EntryOf(row[q])
    BY <1>1 DEF EntryOf
<1> QED
    BY <1>1, <1>2, EntryStays

\* A transition that commits is that of an approved request, as it was filed.
LEMMA MutateBook ==
    ASSUME ActionsInv, NEW c \in Consumers, Mutate(c)
    PROVE  \E q \in Requests : Book!Commit(q)
<1> DEFINE q == consumer[c].req
<1>1. /\ consumer[c].pc = "mutating" /\ row[q].gen = Len(history) + 1
      /\ history' = Append(history, [move |-> row[q].move, by |-> q]) /\ row' = row
    BY DEF Mutate, AskedBy, Generation, Advance
<1>2. q \in Requests /\ row[q].receipt # "none"
    BY <1>1, ConsumerFacts DEF AskedBy
<1> HIDE DEF q
<1>3. EntryOf(row[q]).approved /\ EntryOf(row[q]).gen = row[q].gen /\ EntryOf(row[q]).move = row[q].move
    BY <1>2 DEF EntryOf
<1>4. UNCHANGED [p \in Requests |-> EntryOf(row[p])]
    BY <1>1
<1> QED
    BY <1>1, <1>2, <1>3, <1>4, BookRows DEF Book!Commit

\* Whoever holds the lease at the end decides, and honestly.
LEMMA ReportBook ==
    ASSUME ActionsInv, NEW c \in Consumers, End(c)
    PROVE  \/ UNCHANGED Book!bookVars
           \/ \E q \in Requests : \E outcome \in Book!Ends : Book!End(q, outcome)
<1> DEFINE q == consumer[c].req
           r == Settled(row[q], consumer[c].outcome)
<1>1. /\ consumer[c].pc = "ending" /\ consumer[c] \in Consumer /\ q \in Requests
      /\ row[q] \in Row /\ row[q].receipt # "none" /\ AtWork(consumer[c], row, history)
    BY ConsumerFacts DEF End, AskedBy, ActionsInv
<1>2. CASE ~Holds(c)
    BY <1>2 DEF End, Book!bookVars
<1>3. CASE Holds(c)
  <2>1. /\ row' = [row EXCEPT ![q] = r] /\ history' = history /\ row[q].status = "leased"
      BY <1>1, <1>3 DEF End, Holds, AskedBy
  <2>2. CASE consumer[c].outcome = "defer"
    <3>1. r = [Unleased(row[q], "queued") EXCEPT !.readOnly = TRUE]
        BY <2>2 DEF Settled
    <3> HIDE DEF q, r
    <3>2. /\ r.status = "queued" /\ r.gen = row[q].gen /\ r.move = row[q].move
          /\ r.receipt = row[q].receipt
        BY <1>1, <3>1 DEF Unleased, Row
    <3>3. EntryOf(r) = EntryOf(row[q])
        BY <2>1, <3>2 DEF EntryOf, StateOf
    <3> QED
        BY <1>1, <2>1, <3>3, EntryStays
  <2>3. CASE consumer[c].outcome # "defer"
    <3>1. PICK s \in {"queued", "succeeded", "failed", "reconciliation_required"} :
              r = Unleased(row[q], s) /\ (s = "succeeded" => consumer[c].outcome = "success")
      <4>1. consumer[c].outcome \in {"success", "failure", "review", "retry"}
          BY <1>1, <2>3 DEF AtWork, Consumer
      <4> QED
          BY <4>1 DEF Settled
    <3>2. s = "succeeded" => Evident(row[q], history)
        BY <1>1, <3>1 DEF AtWork
    <3> HIDE DEF q, r
    <3>3. /\ r.status = s /\ r.gen = row[q].gen /\ r.move = row[q].move
          /\ r.receipt = row[q].receipt
        BY <1>1, <3>1, UnleasedTyped
    <3>4. CASE s = "queued"
      <4>1. EntryOf(r) = EntryOf(row[q])
          BY <2>1, <3>3, <3>4 DEF EntryOf, StateOf
      <4> QED
          BY <1>1, <2>1, <4>1, EntryStays
    <3>5. CASE s # "queued"
      <4>1. s \in Book!Ends
          BY <3>5 DEF Book!Ends
      <4> QED
          BY <1>1, <2>1, <3>2, <3>3, <4>1, EndBook
    <3> QED
        BY <3>4, <3>5
  <2> QED
      BY <2>2, <2>3
<1> QED
    BY <1>2, <1>3

LEMMA OperatorBook ==
    ASSUME NEW m \in Moves, OperatorAdvances(m)
    PROVE  Book!OperatorCommits(m)
    BY DEF OperatorAdvances, Advance, Generation, Book!OperatorCommits

\* All a consumer does but committing and reporting is invisible.
LEMMA HiddenTurns ==
    ASSUME NEW c \in Consumers,
           \/ \E seen \in Seen : Look(c, seen) \/ Probe(c, seen)
           \/ \E error \in {"refused", "other"} : MutateFails(c, error)
           \/ EndRaises(c)
           \/ Drop(c)
    PROVE  UNCHANGED Book!bookVars
    BY DEF Look, Probe, MutateFails, EndRaises, Drop, Book!bookVars

\* Consumers, leases, attempts and lost answers are invisible to those who file,
\* approve and read requests.
THEOREM ConsumersInvisible == Spec => ImplementsBook
<1>1. Init => Book!BookInit
  <2>1. EntryOf(Unfiled) = Book!Blank
      BY DEF EntryOf, StateOf, Unfiled, Book!Blank, Book!Entry
  <2> QED
      BY <2>1 DEF Init, Book!BookInit
<1>2. ActionsInv /\ [Next]_vars => [Book!BookNext]_(Book!bookVars)
  <2> SUFFICES ASSUME ActionsInv, [Next]_vars
               PROVE  Book!BookNext \/ UNCHANGED Book!bookVars
      OBVIOUS
  <2>1. ASSUME NEW q \in Requests, NEW g \in 1 .. MaxGen, NEW m \in Moves, File(q, g, m)
        PROVE  Book!BookNext
      BY <2>1, FileBook DEF Book!BookNext
  <2>2. ASSUME NEW q \in Requests, Approve(q) \/ ReceiptExpires(q) \/ Lapse(q) \/ Reap(q)
        PROVE  Book!BookNext \/ UNCHANGED Book!bookVars
      BY <2>2, ApproveBook, ExpiryBook, ReapBook DEF Book!BookNext
  <2>3. ASSUME NEW m \in Moves, OperatorAdvances(m)
        PROVE  Book!BookNext
      BY <2>3, OperatorBook DEF Book!BookNext
  <2>4. ASSUME NEW c \in Consumers, Execute(c) \/ Drop(c)
        PROVE  Book!BookNext \/ UNCHANGED Book!bookVars
    <3>1. CASE Mutate(c)
        BY <3>1, MutateBook DEF Book!BookNext
    <3>2. CASE End(c)
        BY <3>2, ReportBook DEF Book!BookNext
    <3> QED
        BY <2>4, <3>1, <3>2, HiddenTurns DEF Execute
  <2>5. ASSUME NEW c \in Consumers, NEW q \in Requests, Claim(c, q)
        PROVE  UNCHANGED Book!bookVars
      BY <2>5, ClaimBook
  <2>6. CASE UNCHANGED vars
      BY <2>6 DEF vars, Book!bookVars
  <2> QED
      BY <2>1, <2>2, <2>3, <2>4, <2>5, <2>6 DEF Next
<1> QED
    BY <1>1, <1>2, ActionsSafety, PTL DEF Spec, ImplementsBook, Book!BookSpec
=============================================================================
