----------------------- MODULE ReleaseRollout_proofs ------------------------
(* The safety of ReleaseRollout for any hosts, releases and generations.   *)
EXTENDS ReleaseRollout, TLAPS

-----------------------------------------------------------------------------
(* The inductive invariant.                                                *)

\* A host that reported the current generation ready shows its release; the
\* report may count for a transition.
HostFacts(w) ==
    /\ ready[w] \in DOMAIN orders[w]
    /\ ready[w] = epoch => link[w] = Wanted(w)
    /\ heard[w] = "ready" => ready[w] = epoch

\* The last transition found w on release r: it was ordered r by the generation
\* before the current one, reported it, is ordered r still, and has it.
StaysOn(w, r) ==
    /\ epoch - 1 \in DOMAIN orders[w]
    /\ orders[w][epoch - 1].release = r
    /\ ready[w] >= epoch - 1
    /\ Wanted(w) = r
    /\ link[w] = r

\* What the last transition into each phase has established.
PhaseFacts ==
    /\ rollout.enabled \subseteq rollout.members /\ rollout.roster \subseteq rollout.members
    /\ rollout.phase # "none" => epoch > 0 /\ rollout.target # rollout.baseline
    /\ rollout.phase \in {"rolling", "complete"} => \A w \in rollout.members :
          orders[w][epoch - 1].release = rollout.target /\ Wanted(w) = rollout.target
              => StaysOn(w, rollout.target)
    /\ rollout.phase = "complete" => \A w \in rollout.roster : StaysOn(w, rollout.target)
    /\ rollout.phase = "rollback" => \A w \in rollout.members : Wanted(w) = rollout.baseline
    /\ rollout.phase = "rolled_back" =>
          \A w \in rollout.roster : StaysOn(w, rollout.baseline)

RolloutInv ==
    /\ TypeOK
    /\ \A w \in Hosts : HostFacts(w)
    /\ PhaseFacts

-----------------------------------------------------------------------------
LEMMA InitRollout == Init => RolloutInv
    BY RolloutAssumption
    DEF Init, RolloutInv, TypeOK, HostFacts, PhaseFacts, NoRollout, Rollout, Phases, Wanted

\* What a transition orders, host by host.
LEMMA Published ==
    ASSUME RolloutInv, NEW r \in Rollout, NEW W, Publish(r, W), NEW w \in Hosts
    PROVE  /\ \A g \in DOMAIN orders[w] : g \in DOMAIN orders'[w] /\ orders'[w][g] = orders[w][g]
           /\ w \in r.members =>
                 /\ DOMAIN orders'[w] = DOMAIN orders[w] \cup {epoch + 1}
                 /\ orders'[w][epoch + 1] \in [release : Releases, open : BOOLEAN]
                 /\ orders'[w][epoch + 1].release = IF w \in W THEN r.target ELSE r.baseline
           /\ w \notin r.members => orders'[w] = orders[w]
<1>1. epoch \in Nat /\ DOMAIN orders[w] \subseteq 0 .. epoch
    BY RolloutAssumption DEF RolloutInv, TypeOK
<1>2. epoch + 1 \notin DOMAIN orders[w]
    BY <1>1
<1> DEFINE o == [release |-> IF w \in W THEN r.target ELSE r.baseline,
                 open |-> w \in r.enabled /\ r.phase # "paused" /\ Publishable(r, W)]
<1>3. o \in [release : Releases, open : BOOLEAN] /\ o.release = IF w \in W THEN r.target ELSE r.baseline
  <2>1. r.target \in Releases /\ r.baseline \in Releases
      BY DEF Rollout
  <2>2. (w \in r.enabled /\ r.phase # "paused" /\ Publishable(r, W)) \in BOOLEAN
      OBVIOUS
  <2> QED
      BY <2>1, <2>2
<1>4. w \in r.members => orders'[w] = [g \in DOMAIN orders[w] \cup {epoch + 1} |->
                                         IF g = epoch + 1 THEN o ELSE orders[w][g]]
    BY DEF Publish
<1>5. w \notin r.members => orders'[w] = orders[w]
    BY DEF Publish
<1> HIDE DEF o
<1> QED
    BY <1>2, <1>3, <1>4, <1>5

LEMMA PublishTyped ==
    ASSUME RolloutInv, NEW r \in Rollout, NEW W, Publish(r, W), draining' \subseteq r.enabled
    PROVE  TypeOK' /\ \A w \in Hosts : HostFacts(w)'
<1> USE RolloutAssumption
<1>1. /\ epoch \in Nat /\ epoch' = epoch + 1 /\ epoch' \in 0 .. MaxGen
      /\ rollout' = r /\ link' = link /\ ready' = ready
      /\ heard' = [w \in Hosts |-> "none"]
    BY DEF RolloutInv, TypeOK, Publish, Unheard
<1>2. ASSUME NEW w \in Hosts
      PROVE  /\ DOMAIN orders'[w] \subseteq 0 .. epoch' /\ 0 \in DOMAIN orders'[w]
             /\ \A g \in DOMAIN orders'[w] : orders'[w][g] \in [release : Releases, open : BOOLEAN]
             /\ epoch' \in DOMAIN orders'[w] <=> w \in r.members
             /\ HostFacts(w)'
  <2>1. /\ DOMAIN orders[w] \subseteq 0 .. epoch /\ 0 \in DOMAIN orders[w]
        /\ \A g \in DOMAIN orders[w] : orders[w][g] \in [release : Releases, open : BOOLEAN]
        /\ ready[w] \in DOMAIN orders[w]
      BY DEF RolloutInv, TypeOK, HostFacts
  <2>3. CASE w \in r.members
    <3>1. DOMAIN orders'[w] = DOMAIN orders[w] \cup {epoch + 1}
        BY <2>3, Published
    <3>2. \A g \in DOMAIN orders'[w] : orders'[w][g] \in [release : Releases, open : BOOLEAN]
        BY <2>1, <2>3, <3>1, Published
    <3> QED
        BY <1>1, <2>1, <2>3, <3>1, <3>2 DEF HostFacts
  <2>4. CASE w \notin r.members
    <3>1. orders'[w] = orders[w]
        BY <2>4, Published
    <3> QED
        BY <1>1, <2>1, <2>4, <3>1 DEF HostFacts
  <2> QED
      BY <2>3, <2>4
<1>3. link \in [Hosts -> Releases] /\ ready \in [Hosts -> 0 .. MaxGen]
    BY DEF RolloutInv, TypeOK
<1> QED
    BY <1>1, <1>2, <1>3 DEF TypeOK

LEMMA CreateInv ==
    ASSUME RolloutInv, NEW t \in Releases, NEW b \in Releases,
           NEW m \in SUBSET Hosts, NEW e \in SUBSET Hosts, NEW c \in SUBSET Hosts,
           Create(t, b, m, e, c)
    PROVE  RolloutInv'
<1> DEFINE r == [phase |-> "canary", target |-> t, baseline |-> b,
                 members |-> m, enabled |-> e, canaries |-> c, roster |-> e]
<1>1. r \in Rollout /\ Publish(r, c) /\ e \subseteq m /\ t # b /\ draining' \subseteq r.enabled
    BY DEF Create, Rollout, Phases
<1>2. TypeOK' /\ \A w \in Hosts : HostFacts(w)'
    BY <1>1, PublishTyped
<1>3. rollout' = r /\ epoch' > 0
    BY <1>1, RolloutAssumption DEF Publish, RolloutInv, TypeOK
<1> QED
    BY <1>1, <1>2, <1>3 DEF RolloutInv, PhaseFacts

\* Evidence of the current generation, carried over the transition it allows.
LEMMA ProvenStays ==
    ASSUME RolloutInv, NEW W, NEW w \in rollout.members, NEW r \in Rollout, Publish(r, W),
           r.members = rollout.members, r.target = rollout.target, r.baseline = rollout.baseline,
           heard[w] = "ready", epoch > 0,
           Wanted(w) = IF w \in W THEN rollout.target ELSE rollout.baseline
    PROVE  StaysOn(w, Wanted(w))'
<1>2. w \in Hosts
    BY DEF RolloutInv, TypeOK, Rollout
<1>3. epoch \in Nat /\ epoch' = epoch + 1 /\ link' = link /\ ready' = ready
    BY RolloutAssumption DEF RolloutInv, TypeOK, Publish
<1>4. epoch \in DOMAIN orders[w] /\ ready[w] = epoch /\ link[w] = Wanted(w)
    BY <1>2 DEF RolloutInv, TypeOK, HostFacts
<1>5. /\ epoch \in DOMAIN orders'[w] /\ orders'[w][epoch] = orders[w][epoch]
      /\ orders'[w][epoch + 1].release = Wanted(w)
    BY <1>2, <1>4, Published
<1> QED
    BY <1>3, <1>4, <1>5 DEF StaysOn, Wanted

LEMMA AdvanceInv ==
    ASSUME RolloutInv, NEW p \in Phases, NEW W \in SUBSET Hosts, Advance(p, W)
    PROVE  RolloutInv'
<1> DEFINE r == [rollout EXCEPT !.phase = p, !.roster = Active]
<1>1. Allowed(p) /\ Evidence(p) /\ Selects(p, W) /\ Publish(r, W) /\ draining' = draining
    BY DEF Advance, MayAdvance
<1>2. /\ r \in Rollout /\ r.phase = p /\ r.roster = Active /\ r.members = rollout.members
      /\ r.enabled = rollout.enabled /\ r.target = rollout.target /\ r.baseline = rollout.baseline
      /\ rollout.enabled \subseteq rollout.members /\ rollout.members \subseteq Hosts
      /\ Active \subseteq rollout.members /\ draining \subseteq r.enabled
    BY DEF RolloutInv, TypeOK, Rollout, PhaseFacts, Active
<1>3. TypeOK' /\ \A w \in Hosts : HostFacts(w)'
    BY <1>1, <1>2, PublishTyped
<1>4. /\ epoch \in Nat /\ epoch > 0 /\ rollout' = r /\ epoch' = epoch + 1
      /\ rollout.target # rollout.baseline
    BY <1>1, RolloutAssumption DEF Publish, Allowed, RolloutInv, TypeOK, PhaseFacts, Rollout, Phases
<1>0. rollout'.target = rollout.target /\ rollout'.baseline = rollout.baseline
    BY <1>2, <1>4
<1> HIDE DEF r
<1>5. ASSUME NEW w \in rollout.members
      PROVE  /\ epoch \in DOMAIN orders[w] /\ orders'[w][epoch] = orders[w][epoch]
             /\ orders'[w][epoch + 1].release = IF w \in W THEN rollout.target ELSE rollout.baseline
  <2>1. w \in Hosts
      BY <1>2
  <2>2. epoch \in DOMAIN orders[w]
      BY <1>4, <2>1 DEF RolloutInv, TypeOK
  <2> QED
      BY <1>1, <1>2, <2>1, <2>2, Published
<1>6. ASSUME p \in {"rolling", "complete"}, NEW w \in rollout.members,
             orders[w][epoch].release = rollout.target, w \in W
      PROVE  StaysOn(w, rollout.target)'
  <2>1. w \in Active
      BY <1>1, <1>6 DEF Selects
  <2>2. w \in Targeted /\ heard[w] = "ready"
      BY <1>1, <1>6, <2>1 DEF Targeted, Wanted, Evidence, Proven
  <2>3. StaysOn(w, Wanted(w))'
      BY <1>1, <1>2, <1>4, <1>6, <2>2, ProvenStays DEF Wanted
  <2> QED
      BY <1>0, <1>4, <1>5, <1>6, <2>3 DEF StaysOn, Wanted
<1>7. p = "complete" => \A w \in Active : orders[w][epoch].release = rollout.target /\ w \in W
    BY <1>1 DEF Selects, Targeted, Wanted
<1>8. p = "rollback" => \A w \in rollout.members : Wanted(w)' = rollout.baseline
    BY <1>1, <1>4, <1>5 DEF Selects, Wanted
<1>9. ASSUME p = "rolled_back", NEW w \in Active
      PROVE  StaysOn(w, rollout.baseline)'
  <2>1. w \in rollout.members /\ W = {} /\ heard[w] = "ready" /\ rollout.phase = "rollback"
      BY <1>1, <1>9, <1>2 DEF Selects, Evidence, Proven, Allowed, Rollout, Phases, RolloutInv, TypeOK
  <2>2. Wanted(w) = rollout.baseline
      BY <2>1 DEF RolloutInv, PhaseFacts
  <2>3. StaysOn(w, Wanted(w))'
      BY <1>1, <1>2, <1>4, <2>1, <2>2, ProvenStays
  <2> QED
      BY <1>0, <1>4, <1>5, <2>1, <2>3 DEF StaysOn, Wanted
<1>10. ASSUME NEW w \in rollout.members, Wanted(w)' = rollout.target
       PROVE  w \in W
    BY <1>4, <1>5, <1>10 DEF Wanted
<1> QED
  <2>1. PhaseFacts'
      BY <1>2, <1>4, <1>5, <1>6, <1>7, <1>8, <1>9, <1>10 DEF PhaseFacts
  <2> QED
      BY <1>3, <2>1 DEF RolloutInv

\* A row that goes to draining, or back, leaves everything else as it is.
LEMMA DrainInv ==
    ASSUME RolloutInv, NEW w \in Hosts, Drain(w) \/ Reactivate(w)
    PROVE  RolloutInv'
<1>1. /\ UNCHANGED <<epoch, rollout, orders, link, ready, heard>>
      /\ draining' \subseteq rollout.enabled
    BY DEF Drain, Reactivate, Active, RolloutInv, TypeOK
<1> QED
    BY <1>1 DEF RolloutInv, TypeOK, HostFacts, PhaseFacts, StaysOn, Wanted

-----------------------------------------------------------------------------
(* Hosts.                                                                  *)

\* The generations that may move a host that stays on a release order just that.
LEMMA MoveInv ==
    ASSUME RolloutInv, NEW w \in Hosts, NEW r \in Releases, MoveLink(w, r)
    PROVE  RolloutInv'
<1>1. /\ link' = [link EXCEPT ![w] = r] /\ link \in [Hosts -> Releases]
      /\ UNCHANGED <<epoch, rollout, draining, orders, ready, heard>>
    BY DEF MoveLink, RolloutInv, TypeOK
<1>2. PICK g \in DOMAIN orders[w] : g > ready[w]
    BY DEF MoveLink, Host!CanMove, Host!Unsettled
<1>3. PICK h \in DOMAIN orders[w] : h >= ready[w] /\ r = orders[w][h].release
    BY DEF MoveLink, Host!CanMove
<1>4. epoch \in Nat /\ DOMAIN orders[w] \subseteq 0 .. epoch /\ ready[w] \in DOMAIN orders[w]
    BY RolloutAssumption DEF RolloutInv, TypeOK, HostFacts
<1>5. ready[w] < epoch
    BY <1>2, <1>4
<1>6. ASSUME NEW v \in Hosts, NEW q, StaysOn(v, q)
      PROVE  StaysOn(v, q)'
  <2>1. CASE v = w
    <3>1. h = epoch - 1 \/ h = epoch
        BY <1>3, <1>4, <1>5, <1>6, <2>1 DEF StaysOn
    <3>2. r = q
        BY <1>3, <1>6, <2>1, <3>1 DEF StaysOn, Wanted
    <3> QED
        BY <1>1, <1>6, <2>1, <3>2 DEF StaysOn, Wanted
  <2>2. CASE v # w
      BY <1>1, <1>6, <2>2 DEF StaysOn, Wanted
  <2> QED
      BY <2>1, <2>2
<1>7. \A v \in Hosts : HostFacts(v)'
    BY <1>1, <1>4, <1>5 DEF RolloutInv, HostFacts, Wanted
<1>8. TypeOK' /\ rollout.members \subseteq Hosts
    BY <1>1 DEF RolloutInv, TypeOK, Rollout
<1>9. PhaseFacts'
    BY <1>1, <1>6, <1>8 DEF RolloutInv, PhaseFacts, Wanted
<1> QED
    BY <1>7, <1>8, <1>9 DEF RolloutInv

LEMMA ReportInv ==
    ASSUME RolloutInv, NEW w \in Hosts, NEW g \in 0 .. epoch, ReportReady(w, g)
    PROVE  RolloutInv'
<1>1. /\ ready' = [ready EXCEPT ![w] = g] /\ ready \in [Hosts -> 0 .. MaxGen]
      /\ UNCHANGED <<epoch, rollout, draining, orders, link, heard>>
    BY DEF ReportReady, RolloutInv, TypeOK
<1>2. g \in DOMAIN orders[w] /\ g >= ready[w] /\ orders[w][g].release = link[w]
    BY DEF ReportReady, Host!CanReport
<1>3. epoch \in 0 .. MaxGen /\ DOMAIN orders[w] \subseteq 0 .. epoch /\ ready[w] \in DOMAIN orders[w]
    BY DEF RolloutInv, TypeOK, HostFacts
<1>4. g \in 0 .. MaxGen /\ (ready[w] = epoch => g = epoch)
    BY <1>2, <1>3, RolloutAssumption
<1>5. ready' \in [Hosts -> 0 .. MaxGen]
    BY <1>1, <1>4
<1>6. \A v \in Hosts : HostFacts(v)'
    BY <1>1, <1>2, <1>3, <1>4 DEF RolloutInv, HostFacts, Wanted
<1>7. ASSUME NEW v \in Hosts, NEW q, StaysOn(v, q)
      PROVE  StaysOn(v, q)'
  <2>1. CASE v = w
    <3>1. epoch - 1 <= g
        BY <1>2, <1>3, <1>7, <2>1, RolloutAssumption DEF StaysOn
    <3> QED
        BY <1>1, <1>7, <2>1, <3>1 DEF StaysOn, Wanted
  <2>2. CASE v # w
      BY <1>1, <1>7, <2>2 DEF StaysOn, Wanted
  <2> QED
      BY <2>1, <2>2
<1>8. TypeOK' /\ rollout.members \subseteq Hosts
    BY <1>1, <1>5 DEF RolloutInv, TypeOK, Rollout
<1>9. PhaseFacts'
    BY <1>1, <1>7, <1>8 DEF RolloutInv, PhaseFacts, Wanted
<1> QED
    BY <1>6, <1>8, <1>9 DEF RolloutInv

LEMMA HearInv ==
    ASSUME RolloutInv, NEW w \in Hosts, NEW what \in {"ready", "none"}, Hear(w, what)
    PROVE  RolloutInv'
<1>1. /\ heard' = [heard EXCEPT ![w] = what] /\ w \in rollout.members
      /\ what = "ready" => ready[w] = epoch
      /\ UNCHANGED <<epoch, rollout, draining, orders, link, ready>>
    BY DEF Hear
<1>2. \A v \in Hosts : HostFacts(v)'
    BY <1>1 DEF RolloutInv, TypeOK, HostFacts, Wanted
<1>3. TypeOK'
    BY <1>1 DEF RolloutInv, TypeOK
<1>4. PhaseFacts'
    BY <1>1 DEF RolloutInv, PhaseFacts, StaysOn, Wanted
<1> QED
    BY <1>2, <1>3, <1>4 DEF RolloutInv

LEMMA NextInv == RolloutInv /\ [Next]_vars => RolloutInv'
<1> SUFFICES ASSUME RolloutInv, [Next]_vars PROVE RolloutInv'
    OBVIOUS
<1>1. CASE Administrate
    BY <1>1, CreateInv, AdvanceInv, DrainInv DEF Administrate
<1>2. CASE \E w \in Hosts : HostStep(w)
    BY <1>2, MoveInv, ReportInv, HearInv DEF HostStep
<1>3. CASE UNCHANGED vars
    BY <1>3 DEF vars, RolloutInv, TypeOK, HostFacts, PhaseFacts, StaysOn, Wanted
<1> QED
    BY <1>1, <1>2, <1>3 DEF Next

-----------------------------------------------------------------------------
(* What a wave starts from.                                                *)

\* While the canaries are tried, or waves go out, the canaries are ordered the target,
\* drained or not; while a rollout is paused no host may report its generation.
WaveInv ==
    /\ rollout.canaries \subseteq rollout.members
    /\ rollout.phase \in {"canary", "rolling"} =>
          \A w \in rollout.canaries : Wanted(w) = rollout.target
    /\ rollout.phase = "paused" => \A w \in rollout.members :
          ready[w] # epoch /\ ~orders[w][epoch].open

LEMMA WavePublished ==
    ASSUME RolloutInv, NEW r \in Rollout, NEW W, Publish(r, W), r.canaries \subseteq r.members,
           r.phase \in {"canary", "rolling"} => r.canaries \subseteq W
    PROVE  WaveInv'
<1>1. /\ epoch \in Nat /\ epoch' = epoch + 1 /\ rollout' = r /\ ready' = ready
      /\ r.members \subseteq Hosts
    BY RolloutAssumption DEF RolloutInv, TypeOK, Publish, Rollout
<1>2. ASSUME r.phase \in {"canary", "rolling"}, NEW w \in r.canaries
      PROVE  Wanted(w)' = r.target
  <2>1. w \in W /\ w \in r.members /\ w \in Hosts
      BY <1>1, <1>2
  <2> QED
      BY <1>1, <2>1, Published DEF Wanted
<1>3. ASSUME r.phase = "paused", NEW w \in r.members
      PROVE  ready'[w] # epoch' /\ ~orders'[w][epoch'].open
  <2>1. w \in Hosts /\ ready[w] \in DOMAIN orders[w] /\ DOMAIN orders[w] \subseteq 0 .. epoch
      BY <1>1 DEF RolloutInv, TypeOK, HostFacts
  <2>2. ready[w] # epoch + 1
      BY <1>1, <2>1
  <2>3. orders'[w][epoch + 1] =
            [release |-> IF w \in W THEN r.target ELSE r.baseline, open |-> FALSE]
      BY <1>3, <2>1 DEF Publish
  <2> QED
      BY <1>1, <2>2, <2>3
<1> QED
    BY <1>1, <1>2, <1>3 DEF WaveInv

\* What WavesFromCanaries says of a transition to a wave.
WaveFounded ==
    IF rollout.phase = "paused"
    THEN Targeted = {}
    ELSE \A w \in rollout.canaries : ready[w] = epoch /\ link[w] = rollout.target

LEMMA WaveAdvance ==
    ASSUME RolloutInv, WaveInv, NEW p \in Phases, NEW W \in SUBSET Hosts, Advance(p, W)
    PROVE  WaveInv' /\ (rollout'.phase = "rolling" => WaveFounded)
<1> DEFINE r == [rollout EXCEPT !.phase = p, !.roster = Active]
<1>1. Allowed(p) /\ Evidence(p) /\ Selects(p, W) /\ Publish(r, W)
    BY DEF Advance, MayAdvance
<1>2. /\ r \in Rollout /\ r.phase = p /\ rollout.phase \in Phases
      /\ r.canaries = rollout.canaries /\ r.members = rollout.members
      /\ rollout.members \subseteq Hosts
    BY DEF RolloutInv, TypeOK, Rollout, Active
<1>3. rollout' = r
    BY <1>1 DEF Publish
<1> HIDE DEF r
<1>4. p \in {"canary", "rolling"} => rollout.canaries \subseteq W
    BY <1>1 DEF Selects
<1>5. WaveInv'
    BY <1>1, <1>2, <1>4, WavePublished DEF WaveInv
<1>6. ASSUME NEW w \in Targeted, p = "rolling"
      PROVE  w \in Hosts /\ ready[w] = epoch
  <2>1. heard[w] = "ready" /\ w \in Hosts
      BY <1>1, <1>6 DEF Targeted, Active, Evidence, Proven, RolloutInv, TypeOK, Rollout
  <2> QED
      BY <2>1 DEF RolloutInv, HostFacts
<1>7. ASSUME p = "rolling", rollout.phase = "paused"
      PROVE  Targeted = {}
  <2>1. Targeted \subseteq rollout.members
      BY DEF Targeted, Active, RolloutInv, PhaseFacts
  <2> QED
      BY <1>6, <1>7, <2>1 DEF WaveInv
<1>8. ASSUME p = "rolling", rollout.phase # "paused", NEW w \in rollout.canaries
      PROVE  ready[w] = epoch /\ link[w] = rollout.target
  <2>1. rollout.phase \in {"canary", "rolling"}
      BY <1>1, <1>2, <1>8 DEF Allowed, Phases
  <2>2. w \in Active /\ Wanted(w) = rollout.target
      BY <1>1, <1>8, <2>1 DEF Selects, WaveInv
  <2>3. w \in Hosts /\ ready[w] = epoch
      BY <1>6, <1>8, <2>2 DEF Targeted
  <2> QED
      BY <2>2, <2>3 DEF RolloutInv, HostFacts
<1> QED
    BY <1>2, <1>3, <1>5, <1>7, <1>8 DEF WaveFounded

LEMMA WaveHost ==
    ASSUME RolloutInv, WaveInv, NEW w \in Hosts, HostStep(w) \/ Drain(w) \/ Reactivate(w)
    PROVE  WaveInv' /\ epoch' = epoch
<1>1. UNCHANGED <<epoch, rollout, orders>>
    BY DEF HostStep, MoveLink, ReportReady, Hear, Drain, Reactivate
<1>2. ASSUME rollout.phase = "paused", NEW v \in rollout.members
      PROVE  ready'[v] # epoch
  <2>1. ready[v] # epoch /\ ~orders[v][epoch].open
      BY <1>2 DEF WaveInv
  <2>2. CASE UNCHANGED ready
      BY <2>1, <2>2
  <2>3. ASSUME NEW g \in 0 .. epoch, ReportReady(w, g)
        PROVE  ready'[v] # epoch
    <3>1. v = w => g # epoch
        BY <2>1, <2>3 DEF ReportReady, Host!CanReport
    <3>2. ready' = [ready EXCEPT ![w] = g] /\ v \in Hosts /\ v \in DOMAIN ready
        BY <1>2, <2>3 DEF ReportReady, RolloutInv, TypeOK, Rollout
    <3> QED
        BY <2>1, <3>1, <3>2
  <2> QED
      BY <2>2, <2>3 DEF HostStep, MoveLink, Hear, Drain, Reactivate
<1> QED
    BY <1>1, <1>2 DEF WaveInv, Wanted

LEMMA WaveNext ==
    ASSUME RolloutInv, WaveInv, [Next]_vars
    PROVE  WaveInv' /\ (epoch' # epoch /\ rollout'.phase = "rolling" => WaveFounded)
<1>1. ASSUME NEW t \in Releases, NEW b \in Releases,
             NEW m \in SUBSET Hosts, NEW e \in SUBSET Hosts, NEW c \in SUBSET Hosts,
             Create(t, b, m, e, c)
      PROVE  WaveInv' /\ rollout'.phase # "rolling"
  <2> DEFINE r == [phase |-> "canary", target |-> t, baseline |-> b,
                   members |-> m, enabled |-> e, canaries |-> c, roster |-> e]
  <2>1. r \in Rollout /\ r.phase = "canary" /\ r.canaries \subseteq r.members /\ r.canaries \subseteq c
      BY <1>1 DEF Create, Rollout, Phases
  <2>2. Publish(r, c) /\ rollout' = r
      BY <1>1 DEF Create, Publish
  <2> HIDE DEF r
  <2> QED
      BY <2>1, <2>2, WavePublished
<1>2. CASE UNCHANGED vars
    BY <1>2 DEF vars, WaveInv, Wanted
<1> QED
    BY <1>1, <1>2, WaveAdvance, WaveHost DEF Next, Administrate

-----------------------------------------------------------------------------
(* Theorems.                                                               *)

\* The inductive invariant: what reports and phases establish outlives every step
\* of a host.
THEOREM RolloutSafety == Spec => []RolloutInv
    BY InitRollout, NextInv, PTL DEF Spec

\* Rows, reports and links keep their shape.
THEOREM RolloutTyped == Spec => []TypeOK
<1>1. RolloutInv => TypeOK
    BY DEF RolloutInv
<1> QED
    BY <1>1, RolloutSafety, PTL

\* A worker that the last transition kept on the target has it linked.
THEOREM WavesAreProven == Spec => []WavesProven
<1>1. RolloutInv => WavesProven
    BY DEF RolloutInv, PhaseFacts, WavesProven, StaysOn
<1> QED
    BY <1>1, RolloutSafety, PTL

\* The roster of a rollout that ended says what its active hosts run.
THEOREM EndsInstalled == Spec => []EndMeansInstalled
<1>1. RolloutInv => EndMeansInstalled
    BY DEF RolloutInv, PhaseFacts, EndMeansInstalled, StaysOn
<1> QED
    BY <1>1, RolloutSafety, PTL

\* A wave starts from canaries that have shown the release, or after a pause from
\* nothing.
THEOREM WavesAreFounded == Spec => WavesFromCanaries
<1>1. Init => WaveInv
    BY DEF Init, WaveInv, NoRollout
<1>2. Spec => []WaveInv
    BY <1>1, WaveNext, RolloutSafety, PTL DEF Spec
<1>3. RolloutInv /\ WaveInv /\ [Next]_vars =>
      [epoch' # epoch /\ rollout'.phase = "rolling" =>
          IF rollout.phase = "paused"
          THEN Targeted = {}
          ELSE \A w \in rollout.canaries : ready[w] = epoch /\ link[w] = rollout.target]_vars
    BY WaveNext DEF WaveFounded
<1> QED
    BY <1>2, <1>3, RolloutSafety, PTL DEF Spec, WavesFromCanaries

-----------------------------------------------------------------------------
(* The hosts of a rollout are hosts as ReleaseAgent implements them.       *)

LEMMA HostReceives ==
    ASSUME RolloutInv, NEW r \in Rollout, NEW W, Publish(r, W), NEW w \in Hosts
    PROVE  Host(w)!HostNext \/ UNCHANGED Host(w)!hostVars
<1> DEFINE o == [release |-> IF w \in W THEN r.target ELSE r.baseline,
                 open |-> w \in r.enabled /\ r.phase # "paused" /\ Publishable(r, W)]
<1>1. /\ epoch \in Nat /\ epoch < MaxGen /\ DOMAIN orders[w] \subseteq 0 .. epoch
      /\ link' = link /\ ready' = ready
    BY RolloutAssumption DEF Publish, RolloutInv, TypeOK
<1>2. CASE w \notin r.members
  <2>1. orders'[w] = orders[w]
      BY <1>2 DEF Publish
  <2> QED
      BY <1>1, <2>1 DEF Host!hostVars
<1>3. CASE w \in r.members
  <2>1. orders'[w] = [g \in DOMAIN orders[w] \cup {epoch + 1} |->
                         IF g = epoch + 1 THEN o ELSE orders[w][g]]
      BY <1>3 DEF Publish
  <2>2. o \in Host(w)!Order
    <3>1. /\ (w \in r.enabled /\ r.phase # "paused" /\ Publishable(r, W)) \in BOOLEAN
          /\ r.target \in Releases /\ r.baseline \in Releases
        BY DEF Rollout
    <3> QED
        BY <3>1 DEF Host!Order
  <2> HIDE DEF o
  <2>3. PICK n \in 1 .. MaxGen : n = epoch + 1
      BY <1>1, RolloutAssumption
  <2>4. Host(w)!Receive(n, o)
      BY <1>1, <2>1, <2>3 DEF Host!Receive
  <2> QED
      BY <2>2, <2>4 DEF Host!HostNext
<1> QED
    BY <1>2, <1>3

LEMMA HostKept ==
    ASSUME RolloutInv, [Next]_vars, NEW w \in Hosts
    PROVE  Host(w)!HostNext \/ UNCHANGED Host(w)!hostVars
<1>1. link \in [Hosts -> Releases] /\ ready \in [Hosts -> 0 .. MaxGen] /\ epoch \in 0 .. MaxGen
    BY DEF RolloutInv, TypeOK
<1>2. ASSUME NEW t \in Releases, NEW b \in Releases, NEW m \in SUBSET Hosts,
             NEW e \in SUBSET Hosts, NEW c \in SUBSET Hosts, Create(t, b, m, e, c)
      PROVE  Host(w)!HostNext \/ UNCHANGED Host(w)!hostVars
  <2> DEFINE r == [phase |-> "canary", target |-> t, baseline |-> b,
                   members |-> m, enabled |-> e, canaries |-> c, roster |-> e]
  <2>1. r \in Rollout /\ Publish(r, c)
      BY <1>2 DEF Create, Rollout, Phases
  <2> HIDE DEF r
  <2> QED
      BY <2>1, HostReceives
<1>3. ASSUME NEW p \in Phases, NEW W \in SUBSET Hosts, Advance(p, W)
      PROVE  Host(w)!HostNext \/ UNCHANGED Host(w)!hostVars
  <2> DEFINE r == [rollout EXCEPT !.phase = p, !.roster = Active]
  <2>1. r \in Rollout /\ Publish(r, W)
      BY <1>3 DEF Advance, RolloutInv, TypeOK, Rollout, Active
  <2> HIDE DEF r
  <2> QED
      BY <2>1, HostReceives
<1>4. ASSUME NEW v \in Hosts, NEW r \in Releases, MoveLink(v, r)
      PROVE  Host(w)!HostNext \/ UNCHANGED Host(w)!hostVars
  <2>1. link' = [link EXCEPT ![v] = r] /\ UNCHANGED <<orders, ready>> /\ Host(v)!CanMove(r)
      BY <1>4 DEF MoveLink
  <2>2. CASE v = w
    <3>1. Host(w)!MoveLink(r)
        BY <1>1, <2>1, <2>2 DEF Host!MoveLink
    <3> QED
        BY <3>1 DEF Host!HostNext
  <2>3. CASE v # w
      BY <1>1, <2>1, <2>3 DEF Host!hostVars
  <2> QED
      BY <2>2, <2>3
<1>5. ASSUME NEW v \in Hosts, NEW g \in 0 .. epoch, ReportReady(v, g)
      PROVE  Host(w)!HostNext \/ UNCHANGED Host(w)!hostVars
  <2>1. ready' = [ready EXCEPT ![v] = g] /\ UNCHANGED <<orders, link>> /\ Host(v)!CanReport(g)
      BY <1>5 DEF ReportReady
  <2>2. CASE v = w
    <3>1. Host(w)!ReportReady(g) /\ g \in 0 .. MaxGen
        BY <1>1, <2>1, <2>2, RolloutAssumption DEF Host!ReportReady
    <3> QED
        BY <3>1 DEF Host!HostNext
  <2>3. CASE v # w
      BY <1>1, <2>1, <2>3 DEF Host!hostVars
  <2> QED
      BY <2>2, <2>3
<1>6. CASE UNCHANGED <<orders, link, ready>>
    BY <1>6 DEF Host!hostVars
<1>7. CASE Administrate
    BY <1>2, <1>3, <1>6, <1>7 DEF Administrate, Drain, Reactivate
<1>8. CASE \E v \in Hosts : HostStep(v)
    BY <1>4, <1>5, <1>6, <1>8 DEF HostStep, Hear
<1> QED
    BY <1>6, <1>7, <1>8 DEF Next, vars

\* What a rollout assumes of its hosts is the promise of ReleaseHost, and its
\* transitions order generations the way the agents' refinement expects.
HostsKeepPromise == \A w \in Hosts : Host(w)!HostSpec

THEOREM PromiseKept == Spec => HostsKeepPromise
<1> SUFFICES ASSUME NEW w \in Hosts PROVE Spec => Host(w)!HostSpec
    BY DEF HostsKeepPromise
<1>1. Init => Host(w)!HostInit
    BY DEF Init, Host!HostInit
<1>2. RolloutInv /\ [Next]_vars => [Host(w)!HostNext]_(Host(w)!hostVars)
    BY HostKept
<1> QED
    BY <1>1, <1>2, RolloutSafety, PTL DEF Spec, Host!HostSpec
=============================================================================
