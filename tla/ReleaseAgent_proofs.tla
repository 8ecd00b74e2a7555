------------------------ MODULE ReleaseAgent_proofs -------------------------
(* The safety of ReleaseAgent for any releases, any set of broken ones and *)
(* any number of generations.                                              *)
EXTENDS ReleaseAgent, TLAPS

-----------------------------------------------------------------------------
(* The inductive invariant.                                                *)

\* What the local state records was ordered.
LocalFacts ==
    /\ local.applied <= local.observed /\ local.observed <= Current
    /\ local.applied = 0 => local.release = First
    /\ local.applied # 0 =>
          Open(local.applied) /\ orders[local.applied].release = local.release

\* A pending switch that is not recorded, and one that is.
Before == local.release = journal.previous /\ local.applied < journal.gen
After ==
    /\ local.release = journal.target /\ link = journal.target /\ worker.runs = journal.target
    /\ local.applied = journal.gen /\ local.observed = journal.gen

JournalFacts ==
    /\ ~JournalPending => link = local.release /\ worker.runs = link
    /\ JournalPending =>
          /\ ~FailurePending
          /\ journal.gen <= Current
          /\ Open(journal.gen) /\ orders[journal.gen].release = journal.target
          /\ journal.previous # journal.target
          /\ link \in {journal.previous, journal.target}
          /\ local.observed <= journal.gen
          /\ Before \/ After

FailureFacts == FailurePending => FailureFits /\ failure.next.observed <= Current

Told(g) == \E r \in Evidence : r.gen = g /\ r.status \in {"failed", "rolled_back"}

\* Where the agent is says what it has written.
NotedFacts ==
    At("noted") =>
        /\ ~JournalPending /\ ~FailurePending /\ local.observed = agent.gen
        /\ local.status \notin {"blocked", "failed"} => local.applied = agent.gen
FailingFacts ==
    /\ agent.pc \in {"failed", "failTold"} => local = failure.next
    /\ At("failTold") => Told(failure.next.observed)
SwitchFacts ==
    /\ At("linking") => journal.gen = agent.gen /\ Before /\ link = journal.previous
    /\ agent.pc \in {"switched", "probing"} =>
          /\ Before
          /\ agent.goal = "deploy" => link = journal.target /\ journal.gen = agent.gen
          /\ agent.goal # "deploy" => link = journal.previous
    /\ At("activated") => After /\ journal.gen = agent.gen
    /\ agent.pc \in {"restored", "told"} =>
          /\ Before /\ link = journal.previous /\ worker.runs = journal.previous
          /\ local.observed = journal.gen
    /\ At("told") => Told(journal.gen)
    /\ At("stranded") => Before /\ link = journal.previous

\* No report is ahead of the files, no ready one ahead of the applied generation.
EvidenceFacts ==
    /\ \A r \in Evidence : r.gen <= local.observed \/ (JournalPending /\ r.gen = journal.gen)
    /\ \A r \in Evidence : r.status = "ready" => r.gen <= local.applied
LastFacts ==
    /\ LastReady \in ReadyGens \cup {0}
    /\ \A h \in ReadyGens : h <= LastReady

AgentInv ==
    /\ TypeOK
    /\ agent.pc # "idle" => agent.gen >= 1
    /\ LocalFacts /\ JournalFacts /\ FailureFacts
    /\ NotedFacts /\ FailingFacts /\ SwitchFacts
    /\ EvidenceFacts /\ LastFacts /\ FailureReported

-----------------------------------------------------------------------------
(* Records.                                                                *)

Statuses == {"ready", "no_change", "blocked", "failed", "activated", "rolled_back",
             "rollback_failed", "recovered_previous"}
Pcs == {"idle", "recover", "noted"} \cup Switching \cup Failing

LEMMA AgentMoved ==
    ASSUME NEW a \in Agent, NEW pc \in Pcs
    PROVE  /\ [a EXCEPT !.pc = pc] \in Agent
           /\ [a EXCEPT !.pc = pc].pc = pc
           /\ [a EXCEPT !.pc = pc].goal = a.goal
           /\ [a EXCEPT !.pc = pc].gen = a.gen
    BY DEF Agent, Pcs

\* A typed state, field by field.
LEMMA Fields ==
    ASSUME TypeOK
    PROVE  /\ Current \in Nat /\ Current <= MaxGen /\ MaxGen \in Nat
           /\ agent.gen \in Gens /\ agent.gen <= Current /\ agent.pc \in Pcs
           /\ agent.goal \in {"deploy", "undo", "recover"}
           /\ local.observed \in Gens /\ local.applied \in Gens /\ local.release \in Releases
           /\ journal.gen \in Gens /\ journal.previous \in Releases /\ journal.target \in Releases
           /\ failure.next \in Local /\ failure.release \in Releases
           /\ failure.next.observed \in Gens
           /\ worker.runs \in Releases /\ worker.drained \in Gens /\ worker.healthy \in BOOLEAN
           /\ \A r \in Evidence : r \in Report /\ r.gen \in Gens
           /\ \A g \in 1 .. Current : orders[g] \in Orders /\ orders[g].release \in Releases
<1> USE AgentAssumption DEF TypeOK
<1>1. Current \in Nat /\ \A g \in 1 .. Current : orders[g] \in Orders
    BY DEF Current
<1>2. \A g \in 1 .. Current : orders[g].release \in Releases
    BY <1>1 DEF Orders
<1>3. agent.gen \in Gens /\ agent.pc \in Pcs /\ agent.goal \in {"deploy", "undo", "recover"}
    BY DEF Agent, Pcs
<1>4. local.observed \in Gens /\ local.applied \in Gens /\ local.release \in Releases
    BY DEF Local
<1>5. journal.gen \in Gens /\ journal.previous \in Releases /\ journal.target \in Releases
    BY DEF Journal
<1>6. failure.next \in Local /\ failure.release \in Releases
    BY DEF Failure
<1>7. failure.next.observed \in Gens
    BY <1>6 DEF Local
<1>8. worker.runs \in Releases /\ worker.drained \in Gens /\ worker.healthy \in BOOLEAN
    BY DEF Worker
<1>9. \A r \in Evidence : r \in Report /\ r.gen \in Gens
    BY DEF Evidence, Report
<1> QED
    BY <1>1, <1>2, <1>3, <1>4, <1>5, <1>6, <1>7, <1>8, <1>9

-----------------------------------------------------------------------------
LEMMA InitAgent == Init => AgentInv
<1> SUFFICES ASSUME Init PROVE AgentInv
    OBVIOUS
<1> USE AgentAssumption DEF Init
<1>1. Current = 0 /\ ~JournalPending /\ ~FailurePending /\ Evidence = {}
    BY DEF Current, JournalPending, FailurePending, NoJournal, NoFailure, Bootstrapped, Evidence
<1>2. ReadyGens = {} /\ LastReady = 0
    BY <1>1 DEF ReadyGens, LastReady
<1>3. TypeOK
    BY <1>1 DEF TypeOK, Idle, Agent, Local, Bootstrapped, Journal, NoJournal, Failure, NoFailure,
                Worker, Started, Gens, Switching, Failing
<1> QED
    BY <1>1, <1>2, <1>3
    DEF AgentInv, LocalFacts, JournalFacts, FailureFacts, NotedFacts, FailingFacts, SwitchFacts,
        EvidenceFacts, LastFacts, FailureReported, Idle, Bootstrapped, Started, At

\* Reports that are not ready leave the last ready generation alone.
LEMMA LastKept ==
    ASSUME LastFacts, ReadyGens' = ReadyGens
    PROVE  LastFacts' /\ LastReady' = LastReady
    BY DEF LastFacts, LastReady

LEMMA EvidenceKept ==
    ASSUME Evidence' = Evidence
    PROVE  ReadyGens' = ReadyGens /\ \A g : Told(g)' <=> Told(g)
    BY DEF ReadyGens, Told

-----------------------------------------------------------------------------
(* Steps around the agent.                                                 *)

\* Orders are only added, and a status change keeps what an order allows.
LEMMA OrdersInv ==
    ASSUME AgentInv,
           orders' \in Seq(Orders), Current' <= MaxGen, Current <= Current',
           \A g \in 1 .. Current : orders'[g].release = orders[g].release /\ (Open(g)' <=> Open(g)),
           UNCHANGED <<agent, link, local, journal, failure, worker, spool, reports>>
    PROVE  AgentInv'
<1>0. Current \in Nat /\ Current' \in Nat
    BY DEF AgentInv, TypeOK, Current
<1>1. TypeOK'
  <2>1. agent.gen <= Current'
      BY <1>0, Fields DEF AgentInv, Gens
  <2> QED
      BY <2>1 DEF AgentInv, TypeOK, JournalPending, FailurePending
<1>3. Evidence' = Evidence /\ ReadyGens' = ReadyGens
    BY DEF Evidence, ReadyGens
<1>4. LocalFacts'
    BY <1>0, Fields DEF AgentInv, LocalFacts, Gens
<1>5. FailureFacts'
    BY <1>0, Fields DEF AgentInv, FailureFacts, JournalPending, FailurePending, FailureFits, Gens
<1>2. JournalFacts'
  <2>1. CASE ~JournalPending
      BY <2>1 DEF AgentInv, JournalFacts, JournalPending
  <2>2. CASE JournalPending
    <3>1. journal.gen \in 1 .. Current
        BY <1>0, <2>2, Fields DEF AgentInv, JournalFacts, JournalPending, Gens
    <3>2. /\ journal.gen <= Current' /\ orders'[journal.gen].release = orders[journal.gen].release
          /\ Open(journal.gen)' <=> Open(journal.gen)
        BY <1>0, <3>1
    <3>3. (Before \/ After) /\ (Before' <=> Before) /\ (After' <=> After)
        BY <2>2 DEF AgentInv, JournalFacts, Before, After
    <3> QED
        BY <2>2, <3>2, <3>3 DEF AgentInv, JournalFacts, JournalPending, FailurePending
  <2> QED
      BY <2>1, <2>2
<1>6. NotedFacts' /\ FailingFacts' /\ SwitchFacts'
    BY <1>3, EvidenceKept DEF AgentInv, NotedFacts, FailingFacts, SwitchFacts, At, JournalPending,
                  FailurePending, Before, After
<1>7. EvidenceFacts' /\ LastFacts'
    BY <1>3, LastKept DEF AgentInv, EvidenceFacts, JournalPending
<1>8. FailureReported'
    BY <1>3, Fields DEF AgentInv, FailureReported, LocalFacts, JournalPending, FailurePending, Gens
<1> QED
    BY <1>1, <1>2, <1>4, <1>5, <1>6, <1>7, <1>8 DEF AgentInv

LEMMA NewOrderInv ==
    ASSUME AgentInv, NEW r \in Releases, NEW s \in {"active", "draining", "disabled"},
           NEW p \in BOOLEAN, NewOrder(r, s, p)
    PROVE  AgentInv'
<1> DEFINE o == [release |-> r, status |-> s, paused |-> p]
<1>1. o \in Orders /\ orders \in Seq(Orders) /\ orders' = Append(orders, o)
    BY DEF NewOrder, Orders, AgentInv, TypeOK
<1>2. orders' \in Seq(Orders) /\ Current' = Current + 1 /\ Current \in Nat
      /\ \A g \in 1 .. Current : orders'[g] = orders[g]
    BY <1>1 DEF Current
<1>3. Current' <= MaxGen /\ Current <= Current'
    BY <1>2, Fields DEF NewOrder, AgentInv
<1> QED
    BY <1>2, <1>3, OrdersInv DEF NewOrder, Open

LEMMA StatusFacts ==
    ASSUME AgentInv, NEW s \in {"active", "draining"}, NEW t \in {"active", "draining"},
           SetStatus(s, t)
    PROVE  /\ orders' \in Seq(Orders) /\ Current' = Current
           /\ \A g \in 1 .. Current :
                 orders'[g].release = orders[g].release /\ (Open(g)' <=> Open(g))
<1>1. orders \in Seq(Orders) /\ Current > 0 /\ orders[Current].status = s /\ Current \in Nat
      /\ orders' = [orders EXCEPT ![Current].status = t]
    BY Fields DEF SetStatus, AgentInv, TypeOK
<1>7. orders[Current] \in Orders
    BY <1>1, Fields DEF AgentInv
<1>2. orders[Current] \in Orders /\ [orders[Current] EXCEPT !.status = t] \in Orders
      /\ [orders[Current] EXCEPT !.status = t].release = orders[Current].release
      /\ [orders[Current] EXCEPT !.status = t].paused = orders[Current].paused
      /\ [orders[Current] EXCEPT !.status = t].status = t
  <2>1. \A o \in Orders : /\ [o EXCEPT !.status = t] \in Orders
                          /\ [o EXCEPT !.status = t].release = o.release
                          /\ [o EXCEPT !.status = t].paused = o.paused
                          /\ [o EXCEPT !.status = t].status = t
      BY DEF Orders
  <2> QED
      BY <1>7, <2>1
<1>3. orders' = [orders EXCEPT ![Current] = [orders[Current] EXCEPT !.status = t]]
    BY <1>1
<1>4. orders' \in Seq(Orders) /\ Current' = Current
    BY <1>1, <1>2, <1>3 DEF Current
<1>5. \A g \in 1 .. Current : orders'[g] = IF g = Current THEN [orders[Current] EXCEPT !.status = t]
                                          ELSE orders[g]
    BY <1>1, <1>3 DEF Current
<1>6. \A g \in 1 .. Current : orders'[g].release = orders[g].release /\ (Open(g)' <=> Open(g))
    BY <1>1, <1>2, <1>5 DEF Open
<1> QED
    BY <1>4, <1>6

LEMMA SetStatusInv ==
    ASSUME AgentInv, NEW s \in {"active", "draining"}, NEW t \in {"active", "draining"},
           SetStatus(s, t)
    PROVE  AgentInv'
<1>1. Current \in Nat /\ Current <= MaxGen
    BY Fields DEF AgentInv
<1>2. /\ orders' \in Seq(Orders) /\ Current' = Current
      /\ \A g \in 1 .. Current :
            orders'[g].release = orders[g].release /\ (Open(g)' <=> Open(g))
    BY StatusFacts
<1>3. UNCHANGED <<agent, link, local, journal, failure, worker, spool, reports>>
    BY DEF SetStatus
<1>4. Current' <= MaxGen /\ Current <= Current'
    BY <1>1, <1>2
<1> QED
    BY <1>2, <1>3, <1>4, OrdersInv

\* The process changes its files, or is started from the link.
LEMMA WorkerInv ==
    ASSUME AgentInv, worker' \in Worker, worker'.runs \in {worker.runs, link},
           UNCHANGED <<orders, agent, link, local, journal, failure, spool, reports>>
    PROVE  AgentInv'
<1>1. Evidence' = Evidence
    BY DEF Evidence
<1>2. TypeOK' /\ LocalFacts' /\ FailureFacts' /\ NotedFacts' /\ FailureReported'
    BY <1>1 DEF AgentInv, TypeOK, LocalFacts, FailureFacts, FailureFits, NotedFacts, FailureReported,
           Open, Current, JournalPending, FailurePending, At
<1>3. JournalFacts' /\ FailingFacts' /\ SwitchFacts'
    BY <1>1, EvidenceKept
    DEF AgentInv, JournalFacts, FailingFacts, SwitchFacts, Before, After, Open, Current,
           JournalPending, FailurePending, At
<1>4. EvidenceFacts' /\ LastFacts'
    BY <1>1, EvidenceKept, LastKept DEF AgentInv, EvidenceFacts, JournalPending
<1> QED
    BY <1>2, <1>3, <1>4 DEF AgentInv

LEMMA AroundInv ==
    ASSUME AgentInv, WorkerPolls \/ WorkerRestarts \/ StatusAges
    PROVE  AgentInv'
<1>1. link \in Releases /\ worker.runs \in Releases /\ Current \in Gens /\ worker.drained \in Gens
    BY Fields DEF AgentInv, TypeOK, Gens
<1>2. CASE WorkerPolls
    BY <1>1, <1>2, WorkerInv DEF WorkerPolls, Worker
<1>3. CASE WorkerRestarts \/ StatusAges
  <2>1. \A r \in Releases : Started(r) \in Worker /\ Started(r).runs = r
      BY AgentAssumption DEF Started, Worker, Gens
  <2> QED
      BY <1>1, <1>3, <2>1, WorkerInv DEF WorkerRestarts, StatusAges
<1> QED
    BY <1>2, <1>3

LEMMA IngestInv ==
    ASSUME AgentInv, NEW r \in spool, Ingest(r)
    PROVE  AgentInv'
<1>1. Evidence' = Evidence
    BY DEF Ingest, Evidence
<1>2. TypeOK'
    BY DEF Ingest, AgentInv, TypeOK, Current, JournalPending, FailurePending
<1>3. LocalFacts' /\ FailureFacts' /\ NotedFacts' /\ FailureReported' /\ JournalFacts'
    BY <1>1 DEF Ingest, AgentInv, LocalFacts, FailureFacts, FailureFits, NotedFacts, FailureReported,
           JournalFacts, Before, After, Open, Current, JournalPending, FailurePending, At
<1>4. FailingFacts' /\ SwitchFacts'
    BY <1>1, EvidenceKept
    DEF Ingest, AgentInv, FailingFacts, SwitchFacts, Before, After, At
<1>5. EvidenceFacts' /\ LastFacts'
    BY <1>1, EvidenceKept, LastKept DEF Ingest, AgentInv, EvidenceFacts, JournalPending
<1> QED
    BY <1>2, <1>3, <1>4, <1>5 DEF Ingest, AgentInv

-----------------------------------------------------------------------------
(* Steps of the agent that leave its files alone, and the end of journals. *)

Resting(a) == a.pc \in {"idle", "recover"} /\ (a.pc = "recover" => a.gen >= 1)

LEMMA RestInv ==
    ASSUME AgentInv, agent' \in Agent, agent'.gen <= Current, Resting(agent'),
           UNCHANGED <<orders, link, local, journal, failure, worker, spool, reports>>
    PROVE  AgentInv'
<1>1. Evidence' = Evidence
    BY DEF Evidence
<1>2. TypeOK' /\ NotedFacts' /\ FailingFacts' /\ SwitchFacts' /\ agent'.pc \notin {"noted"}
    BY DEF AgentInv, TypeOK, Resting, NotedFacts, FailingFacts, SwitchFacts, Current, At,
           Switching, Failing
<1>3. LocalFacts' /\ JournalFacts' /\ FailureFacts' /\ FailureReported'
    BY <1>1 DEF AgentInv, LocalFacts, JournalFacts, FailureFacts, FailureFits, FailureReported,
           Before, After, Open, Current, JournalPending, FailurePending
<1>4. EvidenceFacts' /\ LastFacts'
    BY <1>1, EvidenceKept, LastKept DEF AgentInv, EvidenceFacts, JournalPending
<1> QED
    BY <1>2, <1>3, <1>4 DEF AgentInv, Resting

LEMMA FinishRests ==
    ASSUME TypeOK, agent.gen >= 1, Finish
    PROVE  agent' \in Agent /\ agent'.gen <= Current /\ Resting(agent')
<1>1. Idle \in Agent /\ Idle.gen = 0 /\ Idle.pc = "idle" /\ agent \in Agent /\ 0 <= Current
    BY Fields, AgentAssumption DEF Idle, Agent, Gens, TypeOK
<1>2. "recover" \in Pcs
    BY DEF Pcs
<1> QED
  <2>1. CASE agent' = Idle
      BY <1>1, <2>1 DEF Resting
  <2>2. CASE agent' = [agent EXCEPT !.pc = "recover"]
      BY <1>1, <1>2, <2>2, AgentMoved, Fields DEF Resting
  <2> QED
      BY <2>1, <2>2 DEF Finish, Goto

LEMMA StartInv ==
    ASSUME AgentInv, (\E g \in 1 .. Current : Start(g)) \/ Crash \/ Refuse
    PROVE  AgentInv'
<1>1. Idle \in Agent /\ Idle.gen = 0 /\ Idle.pc = "idle" /\ 0 <= Current
    BY Fields, AgentAssumption DEF Idle, Agent, Gens, AgentInv
<1>2. CASE Crash \/ Refuse
    BY <1>1, <1>2, RestInv DEF Crash, Refuse, Resting
<1>3. ASSUME NEW g \in 1 .. Current, Start(g)
      PROVE  AgentInv'
  <2>1. g \in Gens /\ g >= 1 /\ g <= Current
      BY Fields DEF AgentInv, Gens
  <2>2. agent' = [pc |-> "recover", goal |-> "deploy", gen |-> g]
      BY <1>3 DEF Start
  <2>3. agent' \in Agent /\ agent'.gen <= Current /\ Resting(agent')
      BY <2>1, <2>2 DEF Agent, Resting
  <2> QED
      BY <1>3, <2>3, RestInv DEF Start
<1> QED
    BY <1>2, <1>3

\* A journal goes when its switch is recorded, or undone and reported.
LEMMA JournalGone ==
    ASSUME AgentInv, JournalPending, journal' = NoJournal,
           local.observed = journal.gen, link = local.release, worker.runs = link,
           local.release = orders[journal.gen].release \/ Told(journal.gen),
           agent' \in Agent, agent'.gen <= Current,
           Resting(agent') \/ ( /\ agent'.pc = "noted" /\ agent'.gen >= 1
                                /\ local.observed = agent'.gen /\ local.applied = agent'.gen),
           UNCHANGED <<orders, link, local, failure, worker, spool, reports>>
    PROVE  AgentInv'
<1>1. Evidence' = Evidence /\ ~JournalPending' /\ ~FailurePending /\ ~FailurePending'
    BY DEF Evidence, NoJournal, JournalPending, FailurePending, AgentInv, JournalFacts
<1>2. journal' \in Journal
    BY AgentAssumption DEF NoJournal, Journal, Gens
<1>3. TypeOK' /\ NotedFacts' /\ FailingFacts' /\ SwitchFacts'
    BY <1>1, <1>2 DEF AgentInv, TypeOK, Resting, NotedFacts, FailingFacts, SwitchFacts, Current, At,
           Switching, Failing
<1>4. LocalFacts' /\ JournalFacts' /\ FailureFacts'
    BY <1>1 DEF AgentInv, LocalFacts, JournalFacts, FailureFacts, Open, Current
<1>5. FailureReported'
    BY <1>1 DEF FailureReported, Told, Open
<1>6. EvidenceFacts' /\ LastFacts'
    BY <1>1, EvidenceKept, LastKept, Fields DEF AgentInv, EvidenceFacts, Gens
<1> QED
    BY <1>3, <1>4, <1>5, <1>6 DEF AgentInv, Resting

LEMMA JournalEnds ==
    ASSUME AgentInv, ForgetCommitted \/ CloseJournal \/ ClearRestored
    PROVE  AgentInv'
<1>1. TypeOK /\ agent \in Agent /\ agent.gen <= Current
    BY DEF AgentInv, TypeOK
<1>2. CASE ForgetCommitted
  <2>1. JournalPending /\ Committed /\ At("recover") /\ journal' = NoJournal /\ agent' = agent
        /\ UNCHANGED <<orders, link, local, failure, worker, spool, reports>>
      BY <1>2 DEF ForgetCommitted
  <2>2. After
      BY <2>1, Fields DEF AgentInv, JournalFacts, Before, Committed, Gens
  <2>3. orders[journal.gen].release = journal.target
      BY <2>1 DEF AgentInv, JournalFacts
  <2>4. Resting(agent')
      BY <2>1 DEF Resting, At, AgentInv
  <2> QED
      BY <1>1, <2>1, <2>2, <2>3, <2>4, JournalGone DEF After
<1>3. CASE CloseJournal
  <2>1. At("activated") /\ journal' = NoJournal /\ agent' = [agent EXCEPT !.pc = "noted"]
        /\ UNCHANGED <<orders, link, local, failure, worker, spool, reports>>
      BY <1>3 DEF CloseJournal, Goto
  <2>2. JournalPending /\ After /\ journal.gen = agent.gen /\ agent.gen >= 1
      BY <2>1 DEF AgentInv, SwitchFacts, TypeOK, Switching, At
  <2>3. orders[journal.gen].release = journal.target
      BY <2>2 DEF AgentInv, JournalFacts
  <2>4. agent' \in Agent /\ agent'.pc = "noted" /\ agent'.gen = agent.gen
      BY <1>1, <2>1, AgentMoved DEF Pcs
  <2> QED
      BY <1>1, <2>1, <2>2, <2>3, <2>4, JournalGone DEF After
<1>4. CASE ClearRestored
  <2>1. At("told") /\ journal' = NoJournal /\ Finish
        /\ UNCHANGED <<orders, link, local, failure, worker, spool, reports>>
      BY <1>4 DEF ClearRestored
  <2>2. /\ JournalPending /\ Before /\ link = journal.previous /\ worker.runs = journal.previous
        /\ local.observed = journal.gen /\ Told(journal.gen) /\ agent.gen >= 1
      BY <2>1 DEF AgentInv, SwitchFacts, TypeOK, Switching, At
  <2>3. agent' \in Agent /\ agent'.gen <= Current /\ Resting(agent')
      BY <1>1, <2>1, <2>2, FinishRests
  <2> QED
      BY <2>1, <2>2, <2>3, JournalGone DEF Before
<1> QED
    BY <1>2, <1>3, <1>4

-----------------------------------------------------------------------------
(* Steps of the agent that look at a document and need no switch.          *)

LEMMA NoteInv ==
    ASSUME AgentInv, Recovered, Accepted(agent.gen),
           local' \in Local, local'.observed = agent.gen, local'.release = local.release,
           \/ local'.applied = local.applied /\ local'.status \in {"blocked", "failed"}
           \/ local'.applied = agent.gen /\ Open(agent.gen),
           ~Open(agent.gen) \/ local.release = orders[agent.gen].release,
           Goto("noted"),
           UNCHANGED <<orders, link, journal, failure, worker, spool, reports>>
    PROVE  AgentInv'
<1>1. /\ Evidence' = Evidence /\ ~JournalPending' /\ ~FailurePending /\ ~FailurePending'
      /\ ~JournalPending /\ At("recover")
    BY DEF Evidence, JournalPending, FailurePending, Recovered
<1>2. /\ agent' \in Agent /\ agent'.pc = "noted" /\ agent'.gen = agent.gen
      /\ agent.gen >= 1 /\ agent.gen <= Current
    BY <1>1, AgentMoved, Fields DEF Goto, AgentInv, TypeOK, Pcs, At
<1>3. agent.gen >= local.observed /\ local.observed \in Nat /\ local.applied \in Nat
      /\ local.applied <= local.observed /\ agent.gen \in Nat
    BY Fields DEF Accepted, AgentInv, LocalFacts, Gens
<1>4. TypeOK' /\ NotedFacts' /\ FailingFacts' /\ SwitchFacts'
    BY <1>1, <1>2 DEF AgentInv, TypeOK, NotedFacts, FailingFacts, SwitchFacts, Current, At,
           Switching, Failing
<1>5. LocalFacts'
    BY <1>2, <1>3 DEF AgentInv, LocalFacts, Open, Current
<1>6. JournalFacts' /\ FailureFacts' /\ FailureReported'
    BY <1>1 DEF AgentInv, JournalFacts, FailureFacts, FailureReported, Open
<1>7. EvidenceFacts' /\ LastFacts'
    BY <1>1, <1>3, EvidenceKept, LastKept, Fields DEF AgentInv, EvidenceFacts, Gens
<1> QED
    BY <1>2, <1>4, <1>5, <1>6, <1>7 DEF AgentInv

LEMMA NotesInv ==
    ASSUME AgentInv, NoteBlocked \/ NoteHealthy \/ NoteDrifted
    PROVE  AgentInv'
<1>1. local \in Local /\ agent.gen \in Gens
    BY Fields DEF AgentInv, TypeOK
<1>2. CASE NoteBlocked
  <2>1. /\ local' \in Local /\ local'.observed = agent.gen /\ local'.status = "blocked"
        /\ local'.applied = local.applied /\ local'.release = local.release
      BY <1>1, <1>2 DEF NoteBlocked, Local
  <2> QED
      BY <1>2, <2>1, NoteInv DEF NoteBlocked
<1>3. CASE NoteHealthy
  <2>1. /\ local' \in Local /\ local'.observed = agent.gen /\ local'.applied = agent.gen
        /\ local'.release = local.release
      BY <1>1, <1>3 DEF NoteHealthy, Local
  <2> QED
      BY <1>3, <2>1, NoteInv DEF NoteHealthy, Installed
<1>4. CASE NoteDrifted
  <2>1. /\ local' \in Local /\ local'.observed = agent.gen /\ local'.status = "failed"
        /\ local'.applied = local.applied /\ local'.release = local.release
      BY <1>1, <1>4 DEF NoteDrifted, Local
  <2> QED
      BY <1>4, <2>1, NoteInv DEF NoteDrifted, Installed
<1> QED
    BY <1>2, <1>3, <1>4

-----------------------------------------------------------------------------
(* Reports.                                                                *)

LEMMA SentFacts ==
    ASSUME AgentInv, NEW rec \in Report, spool' = spool \cup {rec},
           UNCHANGED <<orders, link, local, journal, failure, worker, reports>>,
           rec.gen <= local.observed \/ (JournalPending /\ rec.gen = journal.gen),
           rec.status = "ready" => rec.gen = local.applied
    PROVE  /\ LocalFacts' /\ JournalFacts' /\ FailureFacts' /\ FailureReported'
           /\ EvidenceFacts' /\ LastFacts'
           /\ spool' \subseteq Report /\ reports' \subseteq Report
           /\ \A g : Told(g) => Told(g)'
           /\ rec.status \in {"failed", "rolled_back"} => Told(rec.gen)'
           /\ LastReady' = IF rec.status = "ready" THEN rec.gen ELSE LastReady
<1>1. Evidence' = Evidence \cup {rec}
    BY DEF Evidence
<1>2. LocalFacts' /\ JournalFacts' /\ FailureFacts'
    BY DEF AgentInv, LocalFacts, JournalFacts, FailureFacts, FailureFits, Before, After, 
           Open, Current, JournalPending, FailurePending
<1>3. FailureReported'
    BY <1>1 DEF AgentInv, FailureReported, JournalPending, FailurePending, Open
<1>4. EvidenceFacts'
    BY <1>1, Fields DEF AgentInv, EvidenceFacts, LocalFacts, JournalPending, Gens
<1>5. LastFacts' /\ LastReady' = IF rec.status = "ready" THEN rec.gen ELSE LastReady
  <2>1. CASE rec.status # "ready"
    <3>1. ReadyGens' = ReadyGens
        BY <1>1, <2>1 DEF ReadyGens
    <3> QED
        BY <2>1, <3>1, LastKept DEF AgentInv
  <2>2. CASE rec.status = "ready"
    <3>1. ReadyGens' = ReadyGens \cup {rec.gen}
        BY <1>1, <2>2 DEF ReadyGens
    <3>2. \A h \in ReadyGens : h <= rec.gen
        BY <2>2 DEF ReadyGens, AgentInv, EvidenceFacts
    <3>3. rec.gen \in Nat /\ \A h \in ReadyGens : h \in Nat
        BY Fields DEF Report, Gens, ReadyGens, AgentInv
    <3>4. rec.gen \in ReadyGens' /\ \A h \in ReadyGens' : h <= rec.gen /\ h \in Nat
        BY <3>1, <3>2, <3>3
    <3>5. LastReady' = rec.gen
        BY <3>3, <3>4 DEF LastReady
    <3> QED
        BY <2>2, <3>4, <3>5 DEF LastFacts
  <2> QED
      BY <2>1, <2>2
<1>6. spool' \subseteq Report /\ reports' \subseteq Report
    BY DEF AgentInv, TypeOK
<1>7. \A g : Told(g) => Told(g)'
    BY <1>1 DEF Told
<1>8. rec.status \in {"failed", "rolled_back"} => Told(rec.gen)'
    BY <1>1 DEF Told
<1> QED
    BY <1>2, <1>3, <1>4, <1>5, <1>6, <1>7, <1>8

\* A noted ready report is for the applied generation.
LEMMA ReportNotedInv ==
    ASSUME AgentInv, ReportNoted
    PROVE  AgentInv'
<1> DEFINE rec == [gen |-> agent.gen, status |-> NotedStatus, release |-> local.release]
<1>1. /\ At("noted") /\ spool' = spool \cup {rec} /\ agent' = Idle
      /\ UNCHANGED <<orders, link, local, journal, failure, worker, reports>>
    BY DEF ReportNoted, Send
<1>2. NotedStatus \in {"drifted", "pending", "ready"}
      /\ (NotedStatus = "ready" => local.status \notin {"blocked", "failed"})
    BY DEF NotedStatus
<1>3. rec \in Report /\ rec.gen = agent.gen /\ rec.status = NotedStatus
    BY <1>2, Fields DEF Report, AgentInv
<1>4. rec.gen <= local.observed /\ (rec.status = "ready" => rec.gen = local.applied)
    BY <1>1, <1>2, <1>3, Fields DEF AgentInv, NotedFacts, Gens
<1>5. /\ LocalFacts' /\ JournalFacts' /\ FailureFacts' /\ FailureReported'
      /\ EvidenceFacts' /\ LastFacts' /\ spool' \subseteq Report /\ reports' \subseteq Report
    BY <1>1, <1>3, <1>4, SentFacts
<1>6. Idle \in Agent /\ Idle.gen = 0 /\ Idle.pc = "idle" /\ 0 <= Current
    BY Fields, AgentAssumption DEF Idle, Agent, Gens, AgentInv
<1>7. TypeOK' /\ NotedFacts' /\ FailingFacts' /\ SwitchFacts'
    BY <1>1, <1>5, <1>6 DEF AgentInv, TypeOK, NotedFacts, FailingFacts, SwitchFacts, Current, At,
           Switching, Failing
<1> QED
    BY <1>1, <1>5, <1>6, <1>7 DEF AgentInv

-----------------------------------------------------------------------------
(* Failures before a switch.                                               *)

LEMMA PrepareFailsInv ==
    ASSUME AgentInv, PrepareFails
    PROVE  AgentInv'
<1> DEFINE next == [local EXCEPT !.observed = agent.gen, !.status = "failed"]
<1>1. /\ Recovered /\ Accepted(agent.gen) /\ Open(agent.gen) /\ At("recover")
      /\ local.release # orders[agent.gen].release
      /\ failure' = [next |-> next, release |-> orders[agent.gen].release]
      /\ agent' = [agent EXCEPT !.pc = "failing"]
      /\ UNCHANGED <<orders, link, local, journal, worker, spool, reports>>
      /\ ~JournalPending /\ ~FailurePending
    BY DEF PrepareFails, Deploys, Recovered, Goto
<1>2. /\ agent.gen \in 1 .. Current /\ agent.gen \in Gens /\ local \in Local
      /\ orders[agent.gen].release \in Releases
    BY <1>1, Fields DEF AgentInv, TypeOK, At, Gens
<1>3. /\ next \in Local /\ next.observed = agent.gen /\ next.status = "failed"
      /\ next.applied = local.applied /\ next.release = local.release
    BY <1>2 DEF Local
<1> HIDE DEF next
<1>4. /\ failure' \in Failure /\ failure'.next = next /\ FailurePending'
      /\ ~JournalPending'
    BY <1>1, <1>2, <1>3 DEF Failure, FailurePending, JournalPending
<1>5. local.observed < agent.gen
    BY <1>1, <1>2, Fields DEF Accepted, AgentInv, Gens
<1>6. agent' \in Agent /\ agent'.pc = "failing" /\ agent'.gen = agent.gen
    BY <1>1, AgentMoved DEF AgentInv, TypeOK, Pcs, Failing
<1>7. Evidence' = Evidence
    BY <1>1 DEF Evidence
<1>8. FailureFacts'
    BY <1>1, <1>2, <1>3, <1>4, <1>5, Fields DEF FailureFacts, FailureFits, Current, AgentInv, Gens
<1>9. TypeOK' /\ NotedFacts' /\ FailingFacts' /\ SwitchFacts'
    BY <1>1, <1>2, <1>4, <1>6 DEF AgentInv, TypeOK, NotedFacts, FailingFacts, SwitchFacts, Current,
           At, Switching, Failing
<1>10. LocalFacts' /\ JournalFacts' /\ FailureReported'
    BY <1>1, <1>4 DEF AgentInv, LocalFacts, JournalFacts, FailureReported, Open, Current
<1>11. EvidenceFacts' /\ LastFacts'
    BY <1>1, <1>7, EvidenceKept, LastKept DEF AgentInv, EvidenceFacts, JournalPending
<1> QED
    BY <1>2, <1>6, <1>8, <1>9, <1>10, <1>11 DEF AgentInv

LEMMA SettledFailure ==
    ASSUME AgentInv, SaveFailure \/ ResumeFailure
    PROVE  AgentInv'
<1>1. /\ FailurePending /\ local' = failure.next
      /\ agent' = [agent EXCEPT !.pc = "failed"]
            \/ agent' = [agent EXCEPT !.pc = "failed", !.goal = "recover"]
      /\ agent.pc # "idle"
      /\ UNCHANGED <<orders, link, journal, failure, worker, spool, reports>>
    BY DEF SaveFailure, ResumeFailure, Goto, At, AgentInv, TypeOK, Failing
<1>2. agent' \in Agent /\ agent'.pc = "failed" /\ agent'.gen = agent.gen
    BY <1>1 DEF AgentInv, TypeOK, Agent, Failing
<1>3. FailureFits /\ failure.next.observed <= Current /\ ~JournalPending
    BY <1>1 DEF AgentInv, FailureFacts, FailureFits
<1>4. Evidence' = Evidence /\ FailurePending' /\ ~JournalPending'
    BY <1>1, <1>3 DEF Evidence, FailurePending, JournalPending
<1>5. TypeOK' /\ NotedFacts' /\ FailingFacts' /\ SwitchFacts'
    BY <1>1, <1>2, <1>4, Fields DEF AgentInv, TypeOK, NotedFacts, FailingFacts, SwitchFacts, Current,
           At, Switching, Failing
<1>6. LocalFacts'
    BY <1>1, <1>3, Fields DEF AgentInv, LocalFacts, FailureFits, Open, Current, Gens
<1>7. FailureFacts' /\ FailureReported' /\ JournalFacts'
    BY <1>1, <1>3, <1>4, Fields DEF AgentInv, FailureFacts, FailureFits, FailureReported, JournalFacts,
           Current, Gens
<1>8. EvidenceFacts' /\ LastFacts'
    BY <1>1, <1>3, <1>4, EvidenceKept, LastKept, Fields DEF AgentInv, EvidenceFacts, FailureFits, Gens
<1> QED
    BY <1>1, <1>2, <1>5, <1>6, <1>7, <1>8 DEF AgentInv

LEMMA ReportFailureInv ==
    ASSUME AgentInv, ReportFailure
    PROVE  AgentInv'
<1> DEFINE rec == [gen |-> failure.next.observed, status |-> "failed", release |-> failure.release]
<1>1. /\ At("failed") /\ spool' = spool \cup {rec} /\ agent' = [agent EXCEPT !.pc = "failTold"]
      /\ UNCHANGED <<orders, link, local, journal, failure, worker, reports>>
    BY DEF ReportFailure, Send, Goto
<1>2. rec \in Report /\ rec.gen = failure.next.observed /\ rec.status = "failed"
    BY Fields DEF Report, AgentInv
<1>3. local = failure.next /\ FailurePending
    BY <1>1 DEF AgentInv, FailingFacts, TypeOK, Failing, At
<1>4. rec.gen <= local.observed
    BY <1>2, <1>3, Fields DEF AgentInv, Gens
<1>5. /\ LocalFacts' /\ JournalFacts' /\ FailureFacts' /\ FailureReported'
      /\ EvidenceFacts' /\ LastFacts' /\ spool' \subseteq Report /\ reports' \subseteq Report
      /\ Told(failure.next.observed)'
    BY <1>1, <1>2, <1>4, SentFacts
<1>6. agent' \in Agent /\ agent'.pc = "failTold" /\ agent'.gen = agent.gen
    BY <1>1, AgentMoved DEF AgentInv, TypeOK, Pcs, Failing
<1>7. TypeOK' /\ NotedFacts' /\ FailingFacts' /\ SwitchFacts'
    BY <1>1, <1>3, <1>5, <1>6 DEF AgentInv, TypeOK, NotedFacts, FailingFacts, SwitchFacts, Current,
           FailurePending, At, Switching, Failing
<1> QED
    BY <1>1, <1>5, <1>6, <1>7 DEF AgentInv, At

LEMMA ClearFailureInv ==
    ASSUME AgentInv, ClearFailure
    PROVE  AgentInv'
<1>1. /\ At("failTold") /\ failure' = NoFailure /\ Finish
      /\ UNCHANGED <<orders, link, local, journal, worker, spool, reports>>
    BY DEF ClearFailure
<1>2. /\ FailurePending /\ ~JournalPending /\ local = failure.next /\ Told(local.observed)
      /\ agent.gen >= 1
    BY <1>1 DEF AgentInv, FailingFacts, FailureFacts, FailureFits, TypeOK, Failing, At
<1>3. agent' \in Agent /\ agent'.gen <= Current /\ Resting(agent')
    BY <1>1, <1>2, FinishRests DEF AgentInv
<1>4. Evidence' = Evidence /\ ~FailurePending' /\ ~JournalPending' /\ failure' \in Failure
    BY <1>1, <1>2, AgentAssumption DEF Evidence, FailurePending, JournalPending, NoFailure,
           Bootstrapped, Failure, Local, Gens
<1>5. TypeOK' /\ NotedFacts' /\ FailingFacts' /\ SwitchFacts'
    BY <1>1, <1>3, <1>4 DEF AgentInv, TypeOK, Resting, NotedFacts, FailingFacts, SwitchFacts, Current,
           At, Switching, Failing
<1>6. LocalFacts' /\ JournalFacts' /\ FailureFacts'
    BY <1>1, <1>4, <1>2 DEF AgentInv, LocalFacts, JournalFacts, FailureFacts, Open, Current
<1>7. FailureReported'
    BY <1>1, <1>2, <1>4 DEF FailureReported, Told, Open
<1>8. EvidenceFacts' /\ LastFacts'
    BY <1>1, <1>4, EvidenceKept, LastKept DEF AgentInv, EvidenceFacts, JournalPending
<1> QED
    BY <1>3, <1>5, <1>6, <1>7, <1>8 DEF AgentInv, Resting

-----------------------------------------------------------------------------
(* The switch.                                                             *)

LEMMA WriteJournalInv ==
    ASSUME AgentInv, WriteJournal
    PROVE  AgentInv'
<1>1. /\ Accepted(agent.gen) /\ Open(agent.gen) /\ At("recover")
      /\ local.release # orders[agent.gen].release /\ link = local.release
      /\ journal' = [gen |-> agent.gen, previous |-> local.release,
                     target |-> orders[agent.gen].release]
      /\ agent' = [agent EXCEPT !.pc = "linking"]
      /\ UNCHANGED <<orders, link, local, failure, worker, spool, reports>>
      /\ ~JournalPending /\ ~FailurePending
    BY DEF WriteJournal, Deploys, Recovered, Goto
<1>2. /\ agent.gen \in 1 .. Current /\ agent.gen \in Gens
      /\ orders[agent.gen].release \in Releases /\ local.release \in Releases
      /\ local.observed \in Nat /\ local.applied \in Nat /\ local.applied <= local.observed
    BY <1>1, Fields DEF AgentInv, TypeOK, At, Gens, LocalFacts
<1>3. journal' \in Journal /\ JournalPending' /\ ~FailurePending'
    BY <1>1, <1>2 DEF Journal, JournalPending, FailurePending
<1>4. local.observed < agent.gen
    BY <1>1, <1>2, Fields DEF Accepted, AgentInv, Gens
<1>5. agent' \in Agent /\ agent'.pc = "linking" /\ agent'.gen = agent.gen
    BY <1>1, AgentMoved DEF AgentInv, TypeOK, Pcs, Switching
<1>6. Evidence' = Evidence
    BY <1>1 DEF Evidence
<1>7. JournalFacts' /\ SwitchFacts'
    BY <1>1, <1>2, <1>3, <1>4, <1>5 DEF JournalFacts, SwitchFacts, Before, After, Open, Current, At
<1>8. TypeOK' /\ NotedFacts' /\ FailingFacts'
    BY <1>1, <1>2, <1>3, <1>5 DEF AgentInv, TypeOK, NotedFacts, FailingFacts, Current,
           At, Switching, Failing
<1>9. LocalFacts' /\ FailureFacts' /\ FailureReported'
    BY <1>1, <1>3 DEF AgentInv, LocalFacts, FailureFacts, FailureReported, Open, Current
<1>10. EvidenceFacts' /\ LastFacts'
    BY <1>1, <1>6, EvidenceKept, LastKept DEF AgentInv, EvidenceFacts, JournalPending
<1> QED
    BY <1>2, <1>5, <1>7, <1>8, <1>9, <1>10 DEF AgentInv

\* Link, worker and agent change under a journal that is not recorded.
LEMMA JournalStep ==
    ASSUME AgentInv, JournalPending, Before,
           link' \in {journal.previous, journal.target}, worker' \in Worker,
           agent' \in Agent, agent'.gen = agent.gen, agent.gen >= 1,
           agent'.pc \in {"switched", "probing"},
           agent'.goal = "deploy" => link' = journal.target /\ journal.gen = agent.gen,
           agent'.goal # "deploy" => link' = journal.previous,
           UNCHANGED <<orders, local, journal, failure, spool, reports>>
    PROVE  AgentInv'
<1>1. Evidence' = Evidence /\ JournalPending' /\ ~FailurePending /\ ~FailurePending' /\ Before'
    BY DEF Evidence, JournalPending, FailurePending, Before, AgentInv, JournalFacts
<1>2. TypeOK' /\ NotedFacts' /\ FailingFacts'
    BY <1>1, Fields DEF AgentInv, TypeOK, NotedFacts, FailingFacts, Current, At, Switching, Failing
<1>3. SwitchFacts'
    BY <1>1 DEF SwitchFacts, At
<1>4. JournalFacts'
    BY <1>1 DEF AgentInv, JournalFacts, Open, Current, JournalPending
<1>5. LocalFacts' /\ FailureFacts' /\ FailureReported'
    BY <1>1 DEF AgentInv, LocalFacts, FailureFacts, FailureReported, Open, Current
<1>6. EvidenceFacts' /\ LastFacts'
    BY <1>1, EvidenceKept, LastKept DEF AgentInv, EvidenceFacts, JournalPending
<1> QED
    BY <1>2, <1>3, <1>4, <1>5, <1>6 DEF AgentInv

LEMMA SwitchStepsInv ==
    ASSUME AgentInv, LinkTarget \/ RestartWorker \/ ActivationFails \/ RestorePrevious
    PROVE  AgentInv'
<1>1. agent \in Agent /\ worker \in Worker /\ link \in Releases
    BY DEF AgentInv, TypeOK
<1>2. CASE LinkTarget
  <2>1. /\ At("linking") /\ link' = journal.target
        /\ agent' = [agent EXCEPT !.pc = "switched", !.goal = "deploy"]
        /\ UNCHANGED <<orders, local, journal, failure, worker, spool, reports>>
      BY <1>2 DEF LinkTarget
  <2>2. JournalPending /\ Before /\ journal.gen = agent.gen /\ agent.gen >= 1
      BY <2>1 DEF AgentInv, TypeOK, Switching, SwitchFacts, At
  <2>3. agent' \in Agent /\ agent'.pc = "switched" /\ agent'.goal = "deploy" /\ agent'.gen = agent.gen
      BY <1>1, <2>1 DEF Agent, Switching, Failing
  <2> QED
      BY <1>1, <2>1, <2>2, <2>3, JournalStep
<1>3. CASE RestartWorker
  <2>1. /\ At("switched") /\ worker' = Started(link) /\ agent' = [agent EXCEPT !.pc = "probing"]
        /\ UNCHANGED <<orders, link, local, journal, failure, spool, reports>>
      BY <1>3 DEF RestartWorker, Goto
  <2>2. JournalPending /\ Before /\ agent.gen >= 1 /\ link \in {journal.previous, journal.target}
        /\ (agent.goal = "deploy" => link = journal.target /\ journal.gen = agent.gen)
        /\ (agent.goal # "deploy" => link = journal.previous)
      BY <2>1 DEF AgentInv, TypeOK, Switching, SwitchFacts, JournalFacts, At
  <2>3. agent' \in Agent /\ agent'.pc = "probing" /\ agent'.goal = agent.goal /\ agent'.gen = agent.gen
      BY <1>1, <2>1, AgentMoved DEF Pcs, Switching
  <2>4. worker' \in Worker
      BY <1>1, <2>1, AgentAssumption DEF Started, Worker, Gens
  <2> QED
      BY <2>1, <2>2, <2>3, <2>4, JournalStep
<1>4. CASE ActivationFails
  <2>1. /\ agent.pc \in {"linking", "switched", "probing"} /\ link' = journal.previous
        /\ agent' = [agent EXCEPT !.pc = "switched", !.goal = "undo"]
        /\ UNCHANGED <<orders, local, journal, failure, worker, spool, reports>>
      BY <1>4 DEF ActivationFails, At
  <2>2. JournalPending /\ Before /\ agent.gen >= 1
      BY <2>1 DEF AgentInv, TypeOK, Switching, SwitchFacts, At
  <2>3. agent' \in Agent /\ agent'.pc = "switched" /\ agent'.goal = "undo" /\ agent'.gen = agent.gen
      BY <1>1, <2>1 DEF Agent, Switching, Failing
  <2> QED
      BY <1>1, <2>1, <2>2, <2>3, JournalStep
<1>5. CASE RestorePrevious
  <2>1. /\ At("recover") /\ JournalPending /\ ~Committed /\ link' = journal.previous
        /\ agent' = [agent EXCEPT !.pc = "switched", !.goal = "recover"]
        /\ UNCHANGED <<orders, local, journal, failure, worker, spool, reports>>
      BY <1>5 DEF RestorePrevious
  <2>2. Before /\ agent.gen >= 1
      BY <2>1, Fields DEF AgentInv, JournalFacts, After, Committed, At, Gens
  <2>3. agent' \in Agent /\ agent'.pc = "switched" /\ agent'.goal = "recover" /\ agent'.gen = agent.gen
      BY <1>1, <2>1 DEF Agent, Switching, Failing
  <2> QED
      BY <1>1, <2>1, <2>2, <2>3, JournalStep
<1> QED
    BY <1>2, <1>3, <1>4, <1>5

LEMMA ActivateInv ==
    ASSUME AgentInv, Activate
    PROVE  AgentInv'
<1>1. /\ At("probing") /\ agent.goal = "deploy" /\ worker.runs = journal.target
      /\ local' = [observed |-> agent.gen, applied |-> agent.gen, release |-> journal.target,
                   status |-> "activated"]
      /\ agent' = [agent EXCEPT !.pc = "activated"]
      /\ UNCHANGED <<orders, link, journal, failure, worker, spool, reports>>
    BY DEF Activate, Serving, Goto
<1>2. JournalPending /\ ~FailurePending /\ Before /\ link = journal.target /\ journal.gen = agent.gen
      /\ agent.gen \in 1 .. Current /\ Open(journal.gen) /\ orders[journal.gen].release = journal.target
      /\ local.observed <= journal.gen /\ local.applied < journal.gen
    BY <1>1, Fields DEF AgentInv, TypeOK, Switching, SwitchFacts, JournalFacts, Before, At, Gens
<1>3. local' \in Local /\ local'.observed = agent.gen /\ local'.applied = agent.gen
      /\ local'.release = journal.target
    BY <1>1, Fields DEF AgentInv, Local
<1>4. agent' \in Agent /\ agent'.pc = "activated" /\ agent'.gen = agent.gen
    BY <1>1, AgentMoved DEF AgentInv, TypeOK, Pcs, Switching
<1>5. Evidence' = Evidence /\ JournalPending' /\ ~FailurePending' /\ After'
    BY <1>1, <1>2, <1>3 DEF Evidence, JournalPending, FailurePending, After
<1>6. TypeOK' /\ NotedFacts' /\ FailingFacts' /\ SwitchFacts'
    BY <1>1, <1>2, <1>3, <1>4, <1>5 DEF AgentInv, TypeOK, NotedFacts, FailingFacts, SwitchFacts,
           Current, At, Switching, Failing
<1>7. LocalFacts'
    BY <1>1, <1>2, <1>3, Fields DEF AgentInv, LocalFacts, Open, Current, Gens
<1>8. JournalFacts' /\ FailureFacts' /\ FailureReported'
    BY <1>1, <1>2, <1>3, <1>5, Fields DEF AgentInv, JournalFacts, FailureFacts, FailureReported,
           Open, Current, JournalPending, Gens
<1>9. EvidenceFacts' /\ LastFacts'
    BY <1>1, <1>2, <1>3, <1>5, EvidenceKept, LastKept, Fields DEF AgentInv, EvidenceFacts, Gens
<1> QED
    BY <1>2, <1>4, <1>6, <1>7, <1>8, <1>9 DEF AgentInv

-----------------------------------------------------------------------------
(* The end of an undone switch.                                            *)

LEMMA SaveUndone ==
    ASSUME AgentInv, SaveRestored \/ SaveStranded
    PROVE  AgentInv'
<1>1. /\ UNCHANGED <<orders, link, journal, failure, worker, spool, reports>>
      /\ \E s \in Statuses : local' = [local EXCEPT !.observed = Later(@, journal.gen), !.status = s]
      /\ agent.pc \in {"probing", "stranded"}
    BY DEF SaveRestored, SaveStranded, Statuses, UndoneStatus, At
<1>2. JournalPending /\ ~FailurePending /\ Before /\ agent.gen >= 1
      /\ local.observed <= journal.gen
    BY <1>1 DEF AgentInv, TypeOK, Switching, SwitchFacts, JournalFacts, At
<1>3. Later(local.observed, journal.gen) = journal.gen /\ local \in Local /\ journal.gen \in Gens
    BY <1>2, Fields DEF Later, AgentInv, TypeOK, Gens
<1>4. /\ local' \in Local /\ local'.observed = journal.gen /\ local'.applied = local.applied
      /\ local'.release = local.release
    BY <1>1, <1>3 DEF Local, Statuses
<1>5. Evidence' = Evidence /\ JournalPending' /\ ~FailurePending' /\ Before'
    BY <1>1, <1>2, <1>4 DEF Evidence, JournalPending, FailurePending, Before
<1>6. LocalFacts'
    BY <1>1, <1>2, <1>4, Fields DEF AgentInv, LocalFacts, JournalFacts, Open, Current, Gens
<1>7. JournalFacts' /\ FailureFacts' /\ FailureReported'
    BY <1>1, <1>2, <1>3, <1>4, <1>5, Fields DEF AgentInv, JournalFacts, FailureFacts, FailureReported,
           Open, Current, JournalPending, Gens
<1>8. EvidenceFacts' /\ LastFacts'
    BY <1>1, <1>2, <1>4, <1>5, EvidenceKept, LastKept, Fields
    DEF AgentInv, EvidenceFacts, JournalPending, Gens
<1>9. TypeOK' /\ NotedFacts' /\ FailingFacts' /\ SwitchFacts' /\ (agent'.pc # "idle" => agent'.gen >= 1)
  <2>1. CASE SaveStranded
    <3>1. agent' = Idle /\ Idle \in Agent /\ Idle.gen = 0 /\ Idle.pc = "idle" /\ 0 <= Current
        BY <2>1, Fields, AgentAssumption DEF SaveStranded, Idle, Agent, Gens, AgentInv
    <3> QED
        BY <1>1, <1>4, <1>5, <3>1 DEF AgentInv, TypeOK, NotedFacts, FailingFacts, SwitchFacts,
               Current, At, Switching, Failing
  <2>2. CASE SaveRestored
    <3>1. At("probing") /\ agent.goal # "deploy" /\ worker.runs = journal.previous
          /\ agent' = [agent EXCEPT !.pc = "restored"]
        BY <2>2 DEF SaveRestored, Undoes, Serving, Goto
    <3>2. agent' \in Agent /\ agent'.pc = "restored" /\ agent'.gen = agent.gen
        BY <3>1, AgentMoved DEF AgentInv, TypeOK, Pcs, Switching
    <3>3. link = journal.previous
        BY <3>1 DEF AgentInv, SwitchFacts, At
    <3>4. SwitchFacts' /\ NotedFacts' /\ FailingFacts'
        BY <1>1, <1>4, <1>5, <3>1, <3>2, <3>3 DEF NotedFacts, FailingFacts, SwitchFacts, At
    <3> QED
        BY <1>1, <1>2, <1>4, <1>5, <3>2, <3>4 DEF AgentInv, TypeOK, Current, Switching, Failing
  <2> QED
      BY <2>1, <2>2
<1> QED
    BY <1>6, <1>7, <1>8, <1>9 DEF AgentInv

LEMMA ReportUndone ==
    ASSUME AgentInv, ReportRestored \/ RestoreFails
    PROVE  AgentInv'
<1>1. PICK s \in {"rolled_back", "failed"}, pc \in {"told", "stranded"} :
          /\ spool' = spool \cup {[gen |-> journal.gen, status |-> s, release |-> journal.previous]}
          /\ agent' = [agent EXCEPT !.pc = pc]
          /\ pc = "told" => At("restored")
          /\ pc = "stranded" => agent.pc \in {"switched", "probing"} /\ agent.goal # "deploy"
          /\ UNCHANGED <<orders, link, local, journal, failure, worker, reports>>
    BY DEF ReportRestored, RestoreFails, Send, Goto, Undoes
<1> DEFINE rec == [gen |-> journal.gen, status |-> s, release |-> journal.previous]
<1>2. JournalPending /\ ~FailurePending /\ Before /\ agent.gen >= 1 /\ link = journal.previous
      /\ (pc = "told" => worker.runs = journal.previous /\ local.observed = journal.gen)
    BY <1>1 DEF AgentInv, TypeOK, Switching, SwitchFacts, JournalFacts, At
<1>3. rec \in Report /\ rec.gen = journal.gen /\ rec.status = s
    BY Fields DEF Report, AgentInv
<1>4. /\ LocalFacts' /\ JournalFacts' /\ FailureFacts' /\ FailureReported'
      /\ EvidenceFacts' /\ LastFacts' /\ spool' \subseteq Report /\ reports' \subseteq Report
      /\ Told(journal.gen)'
    BY <1>1, <1>2, <1>3, SentFacts
<1>5. agent' \in Agent /\ agent'.pc = pc /\ agent'.gen = agent.gen
    BY <1>1, AgentMoved DEF AgentInv, TypeOK, Pcs, Switching
<1>6. NotedFacts' /\ FailingFacts' /\ SwitchFacts'
    BY <1>1, <1>2, <1>4, <1>5 DEF NotedFacts, FailingFacts, SwitchFacts, Before, At
<1>7. TypeOK'
    BY <1>1, <1>2, <1>4, <1>5 DEF AgentInv, TypeOK, Current, JournalPending, Switching, Failing
<1> QED
    BY <1>2, <1>4, <1>5, <1>6, <1>7 DEF AgentInv

LEMMA NextInv == AgentInv /\ [Next]_vars => AgentInv'
<1> SUFFICES ASSUME AgentInv, [Next]_vars PROVE AgentInv'
    OBVIOUS
<1>1. CASE Central
    BY <1>1, NewOrderInv, SetStatusInv DEF Central
<1>2. CASE WorkerPolls \/ WorkerRestarts \/ StatusAges
    BY <1>2, AroundInv
<1>3. CASE \E r \in spool : Ingest(r)
    BY <1>3, IngestInv
<1>4. CASE (\E g \in 1 .. Current : Start(g)) \/ Crash \/ Refuse
    BY <1>4, StartInv
<1>5. CASE AgentRun
    BY <1>5, StartInv, SettledFailure, JournalEnds, SwitchStepsInv, NotesInv, ReportNotedInv,
       PrepareFailsInv, ReportFailureInv, ClearFailureInv, WriteJournalInv, ActivateInv, SaveUndone,
       ReportUndone DEF AgentRun
<1>6. CASE ActivationFails \/ RestoreFails
    BY <1>6, SwitchStepsInv, ReportUndone
<1>7. CASE UNCHANGED vars
  <2>1. Evidence' = Evidence /\ UNCHANGED <<orders, link, local, journal, failure, worker, agent,
                                            spool, reports>>
      BY <1>7 DEF Evidence, vars
  <2>2. worker \in Worker
      BY DEF AgentInv, TypeOK
  <2> QED
      BY <2>1, <2>2, WorkerInv
<1> QED
    BY <1>1, <1>2, <1>3, <1>4, <1>5, <1>6, <1>7 DEF Next

-----------------------------------------------------------------------------
(* Theorems.                                                               *)

\* The inductive invariant: at every point a run may be killed, files, link and
\* process are as one of its steps leaves them.
THEOREM AgentSafety == Spec => []AgentInv
    BY InitAgent, NextInv, PTL DEF Spec

\* Files, worker and reports keep their shape.
THEOREM AgentTyped == Spec => []TypeOK
<1>1. AgentInv => TypeOK
    BY DEF AgentInv
<1> QED
    BY <1>1, AgentSafety, PTL

\* Whatever a killed run leaves, the next one can recover.
THEOREM AlwaysRecoverable == Spec => []Recoverable
<1>1. AgentInv => Recoverable
    BY DEF AgentInv, FailureFacts, JournalFacts, Before, After, Committed, Recoverable
<1> QED
    BY <1>1, AgentSafety, PTL

\* The process runs what the link shows once no switch is pending.
THEOREM ProcessIsInstalled == Spec => []RunsInstalled
<1>1. AgentInv => RunsInstalled
    BY DEF AgentInv, JournalFacts, RunsInstalled
<1> QED
    BY <1>1, AgentSafety, PTL

\* No failure is lost between the journals and the spool.
THEOREM FailuresReported == Spec => []FailureReported
<1>1. AgentInv => FailureReported
    BY DEF AgentInv
<1> QED
    BY <1>1, AgentSafety, PTL

-----------------------------------------------------------------------------
(* A generation that was given up stays so.                                *)

LEMMA WritesJournal ==
    ASSUME AgentInv, [Next]_vars, journal' # journal
    PROVE  WriteJournal \/ journal' = NoJournal
<1> USE DEF Central, NewOrder, SetStatus, WorkerPolls, WorkerRestarts, StatusAges, Ingest, Start,
        Crash, vars
<1>1. CASE AgentRun
    BY <1>1 DEF AgentRun, ResumeFailure, ForgetCommitted, RestorePrevious, Refuse, NoteBlocked,
       NoteHealthy, NoteDrifted, ReportNoted, PrepareFails, SaveFailure, ReportFailure, ClearFailure,
       LinkTarget, RestartWorker, Activate, CloseJournal, SaveRestored, ReportRestored, ClearRestored,
       SaveStranded
<1>2. CASE ActivationFails \/ RestoreFails
    BY <1>2 DEF ActivationFails, RestoreFails
<1> QED
    BY <1>1, <1>2 DEF Next

\* A generation reported failed or rolled back is never tried again.
THEOREM GivenUpForGood == Spec => NeverRetried
<1>1. ASSUME AgentInv, [Next]_vars, NEW g \in 1 .. MaxGen, GivenUp(g),
             journal' # journal, journal'.gen = g
      PROVE  FALSE
  <2>1. WriteJournal
      BY <1>1, WritesJournal DEF NoJournal
  <2>2. /\ agent.gen = g /\ Accepted(g) /\ Open(g) /\ local.release # orders[g].release
        /\ ~JournalPending
      BY <1>1, <2>1 DEF WriteJournal, Deploys, Recovered
  <2>3. local.observed < g
      BY <1>1, <2>2, Fields DEF Accepted, AgentInv, Gens
  <2>4. PICK r \in Evidence : r.gen = g
      BY <1>1 DEF GivenUp
  <2>5. r.gen <= local.observed
      BY <1>1, <2>2 DEF AgentInv, EvidenceFacts
  <2> QED
      BY <1>1, <2>3, <2>4, <2>5, Fields DEF AgentInv, Gens
<1>2. AgentInv /\ [Next]_vars =>
          [\A g \in 1 .. MaxGen : GivenUp(g) => ~(journal' # journal /\ journal'.gen = g)]_vars
    BY <1>1
<1> QED
    BY <1>2, AgentSafety, PTL DEF Spec, NeverRetried

-----------------------------------------------------------------------------
(* Production.                                                             *)

\* Whatever a worker announced a drain for wants the release it runs.
ProductionFacts == Production =>
    /\ ~JournalPending /\ worker.runs = First
    /\ worker.drained # 0 =>
          worker.drained <= Current /\ orders[worker.drained].release = First

LEMMA ProductionKept ==
    ASSUME AgentInv, ProductionFacts, [Next]_vars
    PROVE  ProductionFacts'
<1> SUFFICES ASSUME Production PROVE ProductionFacts'
    BY DEF ProductionFacts
<1>1. ~JournalPending /\ worker.runs = First /\ link = First /\ local.release = First
    BY DEF ProductionFacts, AgentInv, JournalFacts
<1>2. ~At("activated") /\ agent.pc \notin Switching
    BY <1>1 DEF AgentInv, TypeOK, At, Switching
<1>3. Current \in Nat /\ worker.drained \in Nat
    BY Fields DEF AgentInv, Gens
<1>4. CASE \E r \in Releases, s \in {"active", "draining", "disabled"}, p \in BOOLEAN : NewOrder(r, s, p)
  <2>1. PICK o \in Orders : orders' = Append(orders, o)
      BY <1>4 DEF NewOrder, Orders
  <2>2. Current' = Current + 1 /\ \A g \in 1 .. Current : orders'[g] = orders[g]
      BY <2>1 DEF AgentInv, TypeOK, Current
  <2>3. worker' = worker /\ journal' = journal
      BY <1>4 DEF NewOrder
  <2> QED
      BY <1>3, <2>2, <2>3 DEF ProductionFacts, JournalPending
<1>5. CASE \E s, t \in {"active", "draining"} : SetStatus(s, t)
  <2>1. PICK t \in {"active", "draining"} : orders' = [orders EXCEPT ![Current].status = t]
      BY <1>5 DEF SetStatus
  <2>2. Current' = Current /\ orders \in Seq(Orders)
      BY <2>1 DEF AgentInv, TypeOK, Current
  <2>3. \A g \in 1 .. Current : orders'[g] = IF g = Current THEN [orders[Current] EXCEPT !.status = t]
                                            ELSE orders[g]
      BY <2>1, <2>2 DEF Current
  <2>4. \A o \in Orders : [o EXCEPT !.status = t].release = o.release
      BY DEF Orders
  <2>5. \A g \in 1 .. Current : orders'[g].release = orders[g].release
      BY <2>3, <2>4, <1>3, Fields DEF AgentInv
  <2>6. worker' = worker /\ journal' = journal
      BY <1>5 DEF SetStatus
  <2> QED
      BY <1>3, <2>2, <2>5, <2>6 DEF ProductionFacts, JournalPending
<1>6. CASE WorkerPolls
  <2>1. Current > 0 /\ orders[Current].release = First /\ UNCHANGED <<orders, journal>>
      BY <1>1, <1>6 DEF WorkerPolls, Runs
  <2>2. worker'.runs = First /\ worker'.drained \in {Current, worker.drained}
      BY <1>1, <1>6 DEF WorkerPolls
  <2> QED
      BY <1>3, <2>1, <2>2 DEF ProductionFacts, JournalPending, Current
<1>7. CASE WorkerRestarts \/ StatusAges
    BY <1>1, <1>7 DEF WorkerRestarts, StatusAges, Started, ProductionFacts, JournalPending
<1>8. CASE UNCHANGED <<orders, journal, worker>>
    BY <1>8 DEF ProductionFacts, JournalPending, Current
<1>9. CASE WriteJournal
  <2>1. /\ orders[agent.gen].release # First /\ worker.drained = agent.gen
        /\ At("recover")
      BY <1>1, <1>9 DEF WriteJournal, Deploys, Recovered
  <2>2. agent.gen # 0
      BY <2>1, Fields DEF AgentInv, At, Gens
  <2> QED
      BY <2>1, <2>2 DEF ProductionFacts
<1>10. CASE AgentRun /\ ~WriteJournal
    BY <1>1, <1>2, <1>8, <1>10
    DEF AgentRun, ResumeFailure, ForgetCommitted, RestorePrevious, Refuse, NoteBlocked,
       NoteHealthy, NoteDrifted, ReportNoted, PrepareFails, SaveFailure, ReportFailure, ClearFailure,
       LinkTarget, RestartWorker, Activate, CloseJournal, SaveRestored, ReportRestored, ClearRestored,
       SaveStranded, At, Switching
<1>11. CASE ActivationFails \/ RestoreFails
    BY <1>2, <1>11 DEF ActivationFails, RestoreFails, At, Switching
<1>12. CASE (\E r \in spool : Ingest(r)) \/ (\E g \in 1 .. Current : Start(g)) \/ Crash
    BY <1>8, <1>12 DEF Ingest, Start, Crash
<1>13. CASE UNCHANGED vars
    BY <1>8, <1>13 DEF vars
<1> QED
    BY <1>4, <1>5, <1>6, <1>7, <1>9, <1>10, <1>11, <1>12, <1>13 DEF Next, Central

\* No order changes the release of a production host: the consequence of the
\* check that stops a worker before it can announce its drain.
THEOREM ProductionStuck == Spec => []NoSwitchInProduction
<1>1. Init => ProductionFacts
    BY DEF Init, ProductionFacts, Started, NoJournal, JournalPending
<1>2. AgentInv /\ ProductionFacts => NoSwitchInProduction
    BY DEF AgentInv, JournalFacts, ProductionFacts, NoSwitchInProduction
<1> QED
    BY <1>1, <1>2, ProductionKept, AgentSafety, PTL DEF Spec

-----------------------------------------------------------------------------
(* What the control plane sees of a host.                                  *)

LEMMA OrderedFacts ==
    ASSUME NEW g
    PROVE  /\ Ordered(g).release = IF g = 0 THEN First ELSE orders[g].release
           /\ Ordered(g).open <=> (g = 0 \/ Open(g))
<1>1. CASE g = 0
    BY <1>1 DEF Ordered
<1>2. CASE g # 0
    BY <1>2 DEF Ordered
<1> QED
    BY <1>1, <1>2

\* The last ready generation, the last applied one and what they ordered.
LEMMA ReadyFacts ==
    ASSUME AgentInv
    PROVE  /\ LastReady \in 0 .. local.applied /\ local.applied \in 0 .. Current
           /\ Ordered(local.applied).release = local.release /\ Ordered(local.applied).open
           /\ Current \in Nat /\ Current <= MaxGen
<1>1. local.applied \in Nat /\ local.observed \in Nat /\ Current \in Nat /\ Current <= MaxGen
    BY Fields DEF AgentInv, Gens
<1>2. LastReady \in Nat /\ LastReady <= local.applied
  <2>1. CASE LastReady = 0
      BY <1>1, <2>1
  <2>2. CASE LastReady \in ReadyGens
    <3>1. PICK r \in Evidence : r.status = "ready" /\ LastReady = r.gen
        BY <2>2 DEF ReadyGens
    <3>2. r.gen <= local.applied /\ r.gen \in Nat
        BY <3>1, Fields DEF AgentInv, EvidenceFacts, Gens
    <3> QED
        BY <3>1, <3>2
  <2> QED
      BY <2>1, <2>2 DEF AgentInv, LastFacts
<1>3. local.applied <= Current
    BY <1>1 DEF AgentInv, LocalFacts
<1>4. Ordered(local.applied).release = local.release /\ Ordered(local.applied).open
    BY OrderedFacts DEF AgentInv, LocalFacts
<1> QED
    BY <1>1, <1>2, <1>3, <1>4

LEMMA HostStutters ==
    ASSUME UNCHANGED <<orders, link>>, LastReady' = LastReady
    PROVE  UNCHANGED Host!hostVars
    BY DEF Host!hostVars, Ordered, Open, Current

\* The link moves between two releases of a switch that is not recorded.
LEMMA HostMoves ==
    ASSUME AgentInv, JournalPending, Before, link' \in {journal.previous, journal.target},
           UNCHANGED orders, LastReady' = LastReady
    PROVE  Host!HostNext
<1> DEFINE ordered == [g \in 0 .. Current |-> Ordered(g)]
<1>1. /\ journal.gen \in 1 .. Current /\ local.applied < journal.gen
      /\ Open(journal.gen) /\ orders[journal.gen].release = journal.target
      /\ journal.previous # journal.target /\ local.release = journal.previous
    BY Fields DEF AgentInv, JournalFacts, JournalPending, Before, Gens
<1>2. /\ Ordered(journal.gen).release = journal.target /\ Ordered(journal.gen).open
    BY <1>1, OrderedFacts
<1>3. /\ LastReady \in 0 .. local.applied /\ local.applied \in 0 .. Current /\ Current \in Nat
      /\ Ordered(local.applied).release = journal.previous /\ Ordered(local.applied).open
    BY <1>1, ReadyFacts
<1>4. /\ DOMAIN ordered = 0 .. Current
      /\ \A g \in 0 .. Current : ordered[g] = Ordered(g)
    OBVIOUS
<1>5. \E g \in DOMAIN ordered :
          g > LastReady /\ ordered[g].open /\ ordered[g].release # ordered[LastReady].release
  <2>1. CASE Ordered(LastReady).release = journal.previous
      BY <1>1, <1>2, <1>3, <1>4, <2>1
  <2>2. CASE Ordered(LastReady).release # journal.previous
    <3>1. LastReady < local.applied
        BY <1>3, <2>2
    <3> QED
        BY <1>3, <1>4, <2>2, <3>1
  <2> QED
      BY <2>1, <2>2
<1>6. \E g \in DOMAIN ordered : g >= LastReady /\ link' = ordered[g].release
    BY <1>1, <1>2, <1>3, <1>4
<1>7. Host!CanMove(link')
    BY <1>5, <1>6 DEF Host!CanMove, Host!Unsettled
<1>8. link' \in Releases
    BY Fields DEF AgentInv
<1>9. ordered' = ordered
    BY DEF Ordered, Open, Current
<1>10. Host!MoveLink(link')
    BY <1>7, <1>9 DEF Host!MoveLink
<1> QED
    BY <1>8, <1>10 DEF Host!HostNext

LEMMA HostReceives ==
    ASSUME AgentInv, NEW r \in Releases, NEW s \in {"active", "draining", "disabled"},
           NEW p \in BOOLEAN, NewOrder(r, s, p)
    PROVE  Host!HostNext
<1> DEFINE ordered == [g \in 0 .. Current |-> Ordered(g)]
           o == [release |-> r, open |-> s # "disabled" /\ ~p]
<1>1. /\ orders' = Append(orders, [release |-> r, status |-> s, paused |-> p])
      /\ UNCHANGED <<link, spool, reports>> /\ Current < MaxGen
    BY DEF NewOrder
<1>2. /\ Current \in Nat /\ Current' = Current + 1 /\ Current + 1 \in 1 .. MaxGen
      /\ orders'[Current + 1] = [release |-> r, status |-> s, paused |-> p]
      /\ \A g \in 1 .. Current : orders'[g] = orders[g]
    BY <1>1, AgentAssumption DEF AgentInv, TypeOK, Current
<1>3. \A g \in 0 .. Current : Ordered(g)' = Ordered(g)
    BY <1>2 DEF Ordered, Open
<1> PICK n \in Nat : n = Current + 1
    BY <1>2
<1>4. Ordered(n)' = o
  <2>1. n # 0 /\ orders'[n] = [release |-> r, status |-> s, paused |-> p]
      BY <1>2
  <2> QED
      BY <2>1 DEF Ordered, Open
<1>5. LastReady' = LastReady
    BY <1>1 DEF LastReady, ReadyGens, Evidence
<1>6. o \in Host!Order
  <2>1. (s # "disabled" /\ ~p) \in BOOLEAN
      OBVIOUS
  <2> QED
      BY <2>1 DEF Host!Order
<1> HIDE DEF o
<1>7. ordered' = [g \in 0 .. n |-> IF g = n THEN o ELSE Ordered(g)]
  <2>1. ordered' = [g \in 0 .. n |-> Ordered(g)']
      BY <1>2
  <2>2. \A g \in 0 .. n : g # n => g \in 0 .. Current
      BY <1>2
  <2> QED
      BY <1>3, <1>4, <2>1, <2>2
<1>8. DOMAIN ordered = 0 .. Current /\ DOMAIN ordered \cup {n} = 0 .. n
      /\ \A g \in 0 .. Current : ordered[g] = Ordered(g)
    BY <1>2
<1>9. ordered' = [g \in DOMAIN ordered \cup {n} |-> IF g = n THEN o ELSE ordered[g]]
    BY <1>2, <1>7, <1>8
<1>10. \A h \in DOMAIN ordered : h < n
    BY <1>2, <1>8
<1>11. Host!Receive(n, o)
    BY <1>1, <1>5, <1>9, <1>10 DEF Host!Receive
<1> QED
    BY <1>2, <1>6, <1>11 DEF Host!HostNext

LEMMA HostKeepsStatus ==
    ASSUME AgentInv, NEW s \in {"active", "draining"}, NEW t \in {"active", "draining"},
           SetStatus(s, t)
    PROVE  UNCHANGED Host!hostVars
<1> DEFINE ordered == [g \in 0 .. Current |-> Ordered(g)]
<1>1. /\ Current \in Nat /\ Current' = Current
      /\ \A g \in 1 .. Current : orders'[g].release = orders[g].release /\ (Open(g)' <=> Open(g))
    BY StatusFacts, Fields DEF AgentInv
<1>2. \A g \in 0 .. Current : Ordered(g)' = Ordered(g)
  <2> TAKE g \in 0 .. Current
  <2>1. CASE g = 0
      BY <2>1 DEF Ordered
  <2>2. CASE g # 0
    <3>1. g \in 1 .. Current
        BY <1>1, <2>2
    <3>2. Open(g) \in BOOLEAN /\ Open(g)' \in BOOLEAN
        BY DEF Open
    <3>3. Open(g)' = Open(g)
        BY <1>1, <3>1, <3>2
    <3> QED
        BY <1>1, <2>2, <3>1, <3>3 DEF Ordered
  <2> QED
      BY <2>1, <2>2
<1>3. ordered' = ordered
    BY <1>1, <1>2
<1>4. link' = link /\ LastReady' = LastReady
    BY DEF SetStatus, LastReady, ReadyGens, Evidence
<1> QED
    BY <1>3, <1>4 DEF Host!hostVars

\* A report that is not ready says nothing to the refinement.
LEMMA SilentSend ==
    ASSUME NEW g, NEW s, NEW q, Send(g, s, q), s # "ready", reports' = reports
    PROVE  LastReady' = LastReady
<1>1. ReadyGens' = ReadyGens
    BY DEF Send, ReadyGens, Evidence
<1> QED
    BY <1>1 DEF LastReady

LEMMA HostReports ==
    ASSUME AgentInv, ReportNoted
    PROVE  Host!HostNext \/ UNCHANGED Host!hostVars
<1>1. /\ At("noted") /\ Send(agent.gen, NotedStatus, local.release)
      /\ UNCHANGED <<orders, link, reports>>
    BY DEF ReportNoted
<1>2. CASE NotedStatus # "ready"
    BY <1>1, <1>2, SilentSend, HostStutters
<1>3. CASE NotedStatus = "ready"
  <2> DEFINE ordered == [g \in 0 .. Current |-> Ordered(g)]
  <2>1. agent.gen = local.applied /\ link = local.release
    <3>1. local.status \notin {"blocked", "failed"}
        BY <1>3 DEF NotedStatus
    <3> QED
        BY <1>1, <3>1 DEF AgentInv, NotedFacts, JournalFacts
  <2>2. /\ LastReady \in 0 .. local.applied /\ local.applied \in 0 .. Current
        /\ Ordered(local.applied).release = local.release /\ Ordered(local.applied).open
        /\ Current \in Nat /\ Current <= MaxGen
      BY ReadyFacts
  <2>3. LastReady' = agent.gen
    <3> DEFINE rec == [gen |-> agent.gen, status |-> NotedStatus, release |-> local.release]
    <3>1. rec \in Report /\ rec.gen = agent.gen /\ rec.status = "ready"
        BY <1>3, Fields DEF Report, AgentInv
    <3>2. rec.gen <= local.observed /\ rec.gen = local.applied
        BY <1>1, <2>1, <3>1, Fields DEF AgentInv, NotedFacts, Gens
    <3>3. /\ spool' = spool \cup {rec}
          /\ UNCHANGED <<orders, link, local, journal, failure, worker, reports>>
        BY DEF ReportNoted, Send
    <3> HIDE DEF rec
    <3> QED
        BY <3>1, <3>2, <3>3, SentFacts
  <2>4. /\ DOMAIN ordered = 0 .. Current
        /\ \A g \in 0 .. Current : ordered[g] = Ordered(g)
      OBVIOUS
  <2>5. Host!CanReport(agent.gen)
      BY <2>1, <2>2, <2>4 DEF Host!CanReport
  <2>6. ordered' = ordered
      BY <1>1 DEF Ordered, Open, Current
  <2>7. Host!ReportReady(agent.gen)
      BY <1>1, <2>3, <2>5, <2>6 DEF Host!ReportReady
  <2>8. agent.gen \in 0 .. MaxGen
      BY <2>1, <2>2, AgentAssumption
  <2> QED
      BY <2>7, <2>8 DEF Host!HostNext
<1> QED
    BY <1>2, <1>3

\* The steps that move the link belong to a switch that is not recorded.
LEMMA LinkSteps ==
    ASSUME AgentInv, LinkTarget \/ ActivationFails \/ RestorePrevious
    PROVE  Host!HostNext
<1>1. UNCHANGED orders /\ LastReady' = LastReady /\ link' \in {journal.previous, journal.target}
  <2>1. UNCHANGED <<orders, spool, reports>> /\ link' \in {journal.previous, journal.target}
      BY DEF LinkTarget, ActivationFails, RestorePrevious
  <2>2. ReadyGens' = ReadyGens
      BY <2>1 DEF ReadyGens, Evidence
  <2> QED
      BY <2>1, <2>2 DEF LastReady
<1>2. JournalPending
    BY DEF LinkTarget, ActivationFails, RestorePrevious, AgentInv, TypeOK, At, Switching
<1>3. CASE LinkTarget \/ ActivationFails
    BY <1>1, <1>2, <1>3, HostMoves DEF LinkTarget, ActivationFails, AgentInv, SwitchFacts, At
<1>4. CASE RestorePrevious
  <2>1. ~After
      BY <1>4, Fields DEF RestorePrevious, Committed, After, AgentInv, Gens
  <2> QED
      BY <1>1, <1>2, <2>1, HostMoves DEF AgentInv, JournalFacts
<1> QED
    BY <1>3, <1>4

LEMMA HostSteps ==
    ASSUME AgentInv, [Next]_vars
    PROVE  Host!HostNext \/ UNCHANGED Host!hostVars
<1>1. ASSUME UNCHANGED <<orders, link>>, Evidence' = Evidence
      PROVE  UNCHANGED Host!hostVars
  <2>1. LastReady' = LastReady
      BY <1>1 DEF LastReady, ReadyGens
  <2> QED
      BY <1>1, <2>1, HostStutters
<1>2. CASE Central
    BY <1>2, HostReceives, HostKeepsStatus DEF Central
<1>3. CASE WorkerPolls \/ WorkerRestarts \/ StatusAges
    BY <1>1, <1>3 DEF WorkerPolls, WorkerRestarts, StatusAges, Evidence
<1>4. CASE \E r \in spool : Ingest(r)
    BY <1>1, <1>4 DEF Ingest, Evidence
<1>5. CASE (\E g \in 1 .. Current : Start(g)) \/ Crash
    BY <1>1, <1>5 DEF Start, Crash, Evidence
<1>6. CASE ReportNoted
    BY <1>6, HostReports
<1>7. CASE ReportFailure \/ ReportRestored \/ RestoreFails
    BY <1>7, SilentSend, HostStutters DEF ReportFailure, ReportRestored, RestoreFails
<1>8. CASE LinkTarget \/ ActivationFails \/ RestorePrevious
    BY <1>8, LinkSteps
<1>9. CASE AgentRun /\ ~(ReportNoted \/ ReportFailure \/ ReportRestored \/ LinkTarget \/ RestorePrevious)
    BY <1>1, <1>9 
    DEF AgentRun, ResumeFailure, ForgetCommitted, Refuse, NoteBlocked, NoteHealthy, NoteDrifted,
        PrepareFails, SaveFailure, ClearFailure, WriteJournal, RestartWorker, Activate, CloseJournal,
        SaveRestored, ClearRestored, SaveStranded, Evidence
<1>10. CASE UNCHANGED vars
    BY <1>1, <1>10 DEF vars, Evidence
<1> QED
    BY <1>2, <1>3, <1>4, <1>5, <1>6, <1>7, <1>8, <1>9, <1>10 DEF Next, AgentRun

LEMMA HostStarts == Init => Host!HostInit
<1> SUFFICES ASSUME Init PROVE Host!HostInit
    OBVIOUS
<1> DEFINE ordered == [g \in 0 .. Current |-> Ordered(g)]
<1>1. Current = 0 /\ link = First
    BY DEF Init, Current
<1>2. LastReady = 0
    BY DEF Init, LastReady, ReadyGens, Evidence
<1>3. ordered = [g \in {0} |-> [release |-> First, open |-> TRUE]]
    BY <1>1 DEF Ordered
<1> QED
    BY <1>1, <1>2, <1>3 DEF Host!HostInit

\* The control plane sees ReleaseHost: the link moves only on account of a
\* generation after the last proven one, and ready means that it is linked.
THEOREM HostImplemented == Spec => ImplementsHost
<1>1. AgentInv /\ [Next]_vars => [Host!HostNext]_(Host!hostVars)
    BY HostSteps
<1> QED
    BY <1>1, HostStarts, AgentSafety, PTL DEF Spec, ImplementsHost, Host!HostSpec
=============================================================================
