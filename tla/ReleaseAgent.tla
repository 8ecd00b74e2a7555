---------------------------- MODULE ReleaseAgent ----------------------------
(***************************************************************************)
(* One crawler host: the agent (ops_agent/crawler_release_agent.py)        *)
(* that installs what the control plane orders, the pull worker whose      *)
(* releases it changes, and the reporter that carries its reports to the   *)
(* control plane (ops_agent/crawler_release_reporter.py).                  *)
(*                                                                         *)
(* The agent is a process started by a timer.  It writes one file at a     *)
(* time and may be killed between any two writes, so one action is one     *)
(* durable write: the local state, the switch journal, the failure         *)
(* journal, the `current' link, a report in the spool.                     *)
(***************************************************************************)
EXTENDS Naturals, Sequences

CONSTANTS Releases,
          Broken,      \* releases whose worker never becomes healthy
          First,       \* the release a host is bootstrapped with
          MaxGen,      \* bound on generations
          Production   \* production and staging, or a development environment

ASSUME AgentAssumption ==
    /\ First \in Releases \ Broken
    /\ MaxGen \in Nat
    /\ Production \in BOOLEAN

VARIABLES
    orders,   \* by generation, the worker's desired state as it was published
    agent,    \* the running agent: where it is, what it tries, the document's generation
    link,     \* the `current' link
    local,    \* local-state.json
    journal,  \* the pending-switch journal
    failure,  \* the terminal-failure journal
    worker,   \* the pull worker: its release and what its status files say
    spool,    \* reports not yet ingested
    reports   \* reports the control plane has

vars == <<orders, agent, link, local, journal, failure, worker, spool, reports>>

Gens == 0 .. MaxGen
Orders == [release : Releases, status : {"active", "draining", "disabled"}, paused : BOOLEAN]
Local == [observed : Gens, applied : Gens, release : Releases,
          status : {"ready", "no_change", "blocked", "failed", "activated", "rolled_back",
                    "rollback_failed", "recovered_previous"}]
Journal == [gen : Gens, previous : Releases, target : Releases]
Failure == [next : Local, release : Releases]
Worker == [runs : Releases, healthy : BOOLEAN, drained : Gens]
Report == [gen : Gens, status : {"ready", "pending", "drifted", "failed", "rolled_back"},
           release : Releases]

Switching == {"linking", "switched", "probing", "activated", "restored", "told", "stranded"}
Failing == {"failing", "failed", "failTold"}
Agent == [pc : {"idle", "recover", "noted"} \cup Switching \cup Failing,
          goal : {"deploy", "undo", "recover"}, gen : Gens]

Idle == [pc |-> "idle", goal |-> "deploy", gen |-> 0]
Bootstrapped == [observed |-> 0, applied |-> 0, release |-> First, status |-> "ready"]
NoJournal == [gen |-> 0, previous |-> First, target |-> First]
NoFailure == [next |-> Bootstrapped, release |-> First]
Started(r) == [runs |-> r, healthy |-> FALSE, drained |-> 0]

Init ==
    /\ orders = <<>>
    /\ agent = Idle
    /\ link = First
    /\ local = Bootstrapped
    /\ journal = NoJournal
    /\ failure = NoFailure
    /\ worker = Started(First)
    /\ spool = {}
    /\ reports = {}

Current == Len(orders)
\* A document lets the worker change its release.
Open(g) == orders[g].status # "disabled" /\ ~orders[g].paused
JournalPending == journal.gen # 0
FailurePending == failure.next.observed # 0

At(pc) == agent.pc = pc
Goto(pc) == agent' = [agent EXCEPT !.pc = pc]
\* The end of what `goal' asked for: a recovery goes on with the document.
Finish == IF agent.goal = "recover" THEN Goto("recover") ELSE agent' = Idle
Send(g, status, r) == spool' = spool \cup {[gen |-> g, status |-> status, release |-> r]}
Later(m, n) == IF m < n THEN n ELSE m

-----------------------------------------------------------------------------
(* The control plane and the worker.  A definition marked `Mutant' is a    *)
(* fault the checks must notice.                                           *)

\* A rollout is created or advanced; an advance keeps the desired status.
NewOrder(r, status, paused) ==
    /\ Current < MaxGen
    /\ status \in {"active", "disabled"} \/ (Current > 0 /\ status = orders[Current].status)
    /\ orders' = Append(orders, [release |-> r, status |-> status, paused |-> paused])
    /\ UNCHANGED <<agent, link, local, journal, failure, worker, spool, reports>>

\* An administrator asks the worker to drain, or lets it go on.
SetStatus(from, to) ==
    /\ Current > 0
    /\ orders[Current].status = from
    /\ orders' = [orders EXCEPT ![Current].status = to]
    /\ UNCHANGED <<agent, link, local, journal, failure, worker, spool, reports>>

\* Mutant: the worker does not compare its release with the desired state.
RunsUnchecked(r) == r \notin Broken

\* The worker's loop survives its start and its check of the desired state.
Runs(r) ==
    /\ r \notin Broken
    /\ Production => Current > 0 /\ orders[Current].release = r

Drains == Current > 0 /\ orders[Current].status \in {"draining", "disabled"}

\* A turn of the worker's loop publishes health and, if asked to, a drain.
WorkerPolls ==
    /\ Runs(worker.runs)
    /\ worker' = [runs |-> worker.runs, healthy |-> TRUE,
                  drained |-> IF Drains THEN Current ELSE worker.drained]
    /\ UNCHANGED <<orders, agent, link, local, journal, failure, spool, reports>>

\* systemd starts the worker again, from the link; its status files go.
WorkerRestarts ==
    /\ worker' = Started(link)
    /\ UNCHANGED <<orders, agent, link, local, journal, failure, spool, reports>>

\* Status files that nobody renews become too old to count.
StatusAges ==
    /\ worker' = Started(worker.runs)
    /\ UNCHANGED <<orders, agent, link, local, journal, failure, spool, reports>>

\* The reporter takes the spool in the order of the file names, which begin
\* with the generation; a report of another generation than the desired state's
\* is an error that ends the pass.  It may die before it removes the file.
Ingest(r) ==
    /\ Production
    /\ r \in spool
    /\ \A other \in spool : r.gen <= other.gen
    /\ r.gen = Current
    /\ reports' = reports \cup {r}
    /\ spool' = spool \ {r} \/ spool' = spool
    /\ UNCHANGED <<orders, agent, link, local, journal, failure, worker>>

-----------------------------------------------------------------------------
(* The agent: start and recovery.  A step that refuses ends the run as a   *)
(* crash does, without a write.                                            *)

\* The document is fetched before the lock is taken; it may be an old one.
Start(g) ==
    /\ At("idle")
    /\ g \in 1 .. Current
    /\ agent' = [pc |-> "recover", goal |-> "deploy", gen |-> g]
    /\ UNCHANGED <<orders, link, local, journal, failure, worker, spool, reports>>

Crash ==
    /\ ~At("idle")
    /\ agent' = Idle
    /\ UNCHANGED <<orders, link, local, journal, failure, worker, spool, reports>>

\* recover_terminal_failure refuses a journal that does not fit the local state.
FailureFits ==
    /\ ~JournalPending
    /\ local.observed <= failure.next.observed
    /\ local.observed = failure.next.observed => local = failure.next
    /\ local.applied = failure.next.applied
    /\ local.release = failure.next.release

ResumeFailure ==
    /\ At("recover") /\ FailurePending /\ FailureFits
    /\ local' = failure.next
    /\ agent' = [agent EXCEPT !.pc = "failed", !.goal = "recover"]
    /\ UNCHANGED <<orders, link, journal, failure, worker, spool, reports>>

\* Mutant: a link that shows the target is taken for a finished switch.
CommittedByLink == link = journal.target

\* The new release was found healthy and recorded before the agent died.
Committed ==
    /\ link = journal.target
    /\ local.release = journal.target
    /\ local.applied >= journal.gen

ForgetCommitted ==
    /\ At("recover") /\ ~FailurePending /\ JournalPending /\ Committed
    /\ journal' = NoJournal
    /\ UNCHANGED <<orders, agent, link, local, failure, worker, spool, reports>>

\* Mutant: the worker is not restarted on the restored release.
RestoreUnprobed ==
    /\ At("recover") /\ ~FailurePending /\ JournalPending /\ ~Committed
    /\ link \in {journal.previous, journal.target}
    /\ link' = journal.previous
    /\ local' = [local EXCEPT !.observed = Later(@, journal.gen), !.status = "recovered_previous"]
    /\ agent' = [agent EXCEPT !.pc = "restored", !.goal = "recover"]
    /\ UNCHANGED <<orders, journal, failure, worker, spool, reports>>

\* Mutant: only a link that had moved is restored.
RestoreMovedOnly ==
    /\ At("recover") /\ ~FailurePending /\ JournalPending /\ ~Committed
    /\ link = journal.target
    /\ link' = journal.previous
    /\ agent' = [agent EXCEPT !.pc = "switched", !.goal = "recover"]
    /\ UNCHANGED <<orders, local, journal, failure, worker, spool, reports>>

\* Any other journal is undone.
RestorePrevious ==
    /\ At("recover") /\ ~FailurePending /\ JournalPending /\ ~Committed
    /\ link \in {journal.previous, journal.target}
    /\ link' = journal.previous
    /\ agent' = [agent EXCEPT !.pc = "switched", !.goal = "recover"]
    /\ UNCHANGED <<orders, local, journal, failure, worker, spool, reports>>

-----------------------------------------------------------------------------
(* The agent: reconcile_decision and what needs no switch.                 *)

Recovered == At("recover") /\ ~FailurePending /\ ~JournalPending

\* Mutant: an older document is not refused.
AcceptedAnyAge(g) == g # local.observed \/ ~Open(g) \/ local.release = orders[g].release

\* Mutant: a generation that did not come about is tried again.
AcceptedAgain(g) == g >= local.observed

\* A document older than the local state is a replay; at the same generation
\* only a worker that need not change is looked at again.
Accepted(g) ==
    /\ g >= local.observed
    /\ g = local.observed => ~Open(g) \/ local.release = orders[g].release

Refuse ==
    /\ Recovered
    /\ ~Accepted(agent.gen)
    /\ agent' = Idle
    /\ UNCHANGED <<orders, link, local, journal, failure, worker, spool, reports>>

NoteBlocked ==
    /\ Recovered /\ Accepted(agent.gen)
    /\ ~Open(agent.gen)
    /\ local' = [local EXCEPT !.observed = agent.gen, !.status = "blocked"]
    /\ Goto("noted")
    /\ UNCHANGED <<orders, link, journal, failure, worker, spool, reports>>

Installed == Open(agent.gen) /\ local.release = orders[agent.gen].release
Serving(r) == worker.healthy /\ worker.runs = r

NoteHealthy ==
    /\ Recovered /\ Accepted(agent.gen) /\ Installed
    /\ link = local.release /\ Serving(local.release)
    /\ local' = [local EXCEPT !.observed = agent.gen, !.applied = agent.gen,
                              !.status = "no_change"]
    /\ Goto("noted")
    /\ UNCHANGED <<orders, link, journal, failure, worker, spool, reports>>

NoteDrifted ==
    /\ Recovered /\ Accepted(agent.gen) /\ Installed
    /\ ~(link = local.release /\ Serving(local.release))
    /\ local' = [local EXCEPT !.observed = agent.gen, !.status = "failed"]
    /\ Goto("noted")
    /\ UNCHANGED <<orders, link, journal, failure, worker, spool, reports>>

\* What is reported of a run that changed nothing or has been committed.
NotedStatus ==
    CASE local.status = "blocked" -> IF orders[agent.gen].status = "disabled"
                                     THEN "drifted" ELSE "pending"
      [] local.status = "failed"  -> "drifted"
      [] OTHER                    -> "ready"

ReportNoted ==
    /\ At("noted")
    /\ Send(agent.gen, NotedStatus, local.release)
    /\ agent' = Idle
    /\ UNCHANGED <<orders, link, local, journal, failure, worker, reports>>

-----------------------------------------------------------------------------
(* The agent: a switch.                                                    *)

Deploys ==
    /\ Recovered /\ Accepted(agent.gen)
    /\ Open(agent.gen)
    /\ local.release # orders[agent.gen].release
    /\ link = local.release

\* The artifact cannot be had or trusted, or the worker is not drained.
PrepareFails ==
    /\ Deploys
    /\ failure' = [next |-> [local EXCEPT !.observed = agent.gen, !.status = "failed"],
                   release |-> orders[agent.gen].release]
    /\ Goto("failing")
    /\ UNCHANGED <<orders, link, local, journal, worker, spool, reports>>

SaveFailure ==
    /\ At("failing")
    /\ local' = failure.next
    /\ Goto("failed")
    /\ UNCHANGED <<orders, link, journal, failure, worker, spool, reports>>

ReportFailure ==
    /\ At("failed")
    /\ Send(failure.next.observed, "failed", failure.release)
    /\ Goto("failTold")
    /\ UNCHANGED <<orders, link, local, journal, failure, worker, reports>>

ClearFailure ==
    /\ At("failTold")
    /\ failure' = NoFailure
    /\ Finish
    /\ UNCHANGED <<orders, link, local, journal, worker, spool, reports>>

\* Mutant: the link moves before the journal is written.
LinkUnjournaled ==
    /\ Deploys
    /\ worker.drained = agent.gen
    /\ link' = orders[agent.gen].release
    /\ Goto("switched")
    /\ UNCHANGED <<orders, local, journal, failure, worker, spool, reports>>

\* The worker's drain must be bound to the document's generation.
WriteJournal ==
    /\ Deploys
    /\ worker.drained = agent.gen
    /\ journal' = [gen |-> agent.gen, previous |-> local.release,
                   target |-> orders[agent.gen].release]
    /\ Goto("linking")
    /\ UNCHANGED <<orders, link, local, failure, worker, spool, reports>>

LinkTarget ==
    /\ At("linking")
    /\ link' = journal.target
    /\ agent' = [agent EXCEPT !.pc = "switched", !.goal = "deploy"]
    /\ UNCHANGED <<orders, local, journal, failure, worker, spool, reports>>

\* systemctl restart, for a new or for a restored release.
RestartWorker ==
    /\ At("switched")
    /\ worker' = Started(link)
    /\ Goto("probing")
    /\ UNCHANGED <<orders, link, local, journal, failure, spool, reports>>

Activate ==
    /\ At("probing") /\ agent.goal = "deploy"
    /\ Serving(journal.target)
    /\ local' = [observed |-> agent.gen, applied |-> agent.gen, release |-> journal.target,
                 status |-> "activated"]
    /\ Goto("activated")
    /\ UNCHANGED <<orders, link, journal, failure, worker, spool, reports>>

CloseJournal ==
    /\ At("activated")
    /\ journal' = NoJournal
    /\ Goto("noted")
    /\ UNCHANGED <<orders, link, local, failure, worker, spool, reports>>

\* The switch, the restart or the health check of a new release fails.
ActivationFails ==
    /\ At("linking") \/ (agent.pc \in {"switched", "probing"} /\ agent.goal = "deploy")
    /\ link' = journal.previous
    /\ agent' = [agent EXCEPT !.pc = "switched", !.goal = "undo"]
    /\ UNCHANGED <<orders, local, journal, failure, worker, spool, reports>>

-----------------------------------------------------------------------------
(* The agent: the end of an undone switch, in the run that failed or in    *)
(* the recovery of a later one.                                            *)

Undoes == agent.goal \in {"undo", "recover"}
UndoneStatus == IF agent.goal = "undo" THEN "rolled_back" ELSE "recovered_previous"

\* Mutant: the journal is removed before the report is in the spool.
SaveRestoredEarly ==
    /\ At("probing") /\ Undoes
    /\ Serving(journal.previous)
    /\ local' = [local EXCEPT !.observed = Later(@, journal.gen), !.status = UndoneStatus]
    /\ journal' = NoJournal
    /\ Finish
    /\ UNCHANGED <<orders, link, failure, worker, spool, reports>>

SaveRestored ==
    /\ At("probing") /\ Undoes
    /\ Serving(journal.previous)
    /\ local' = [local EXCEPT !.observed = Later(@, journal.gen), !.status = UndoneStatus]
    /\ Goto("restored")
    /\ UNCHANGED <<orders, link, journal, failure, worker, spool, reports>>

ReportRestored ==
    /\ At("restored")
    /\ Send(journal.gen, "rolled_back", journal.previous)
    /\ Goto("told")
    /\ UNCHANGED <<orders, link, local, journal, failure, worker, reports>>

ClearRestored ==
    /\ At("told")
    /\ journal' = NoJournal
    /\ Finish
    /\ UNCHANGED <<orders, link, local, failure, worker, spool, reports>>

\* The previous release does not come back either; the journal stays.
RestoreFails ==
    /\ agent.pc \in {"switched", "probing"} /\ Undoes
    /\ Send(journal.gen, "failed", journal.previous)
    /\ Goto("stranded")
    /\ UNCHANGED <<orders, link, local, journal, failure, worker, reports>>

SaveStranded ==
    /\ At("stranded")
    /\ local' = [local EXCEPT !.observed = Later(@, journal.gen), !.status = "rollback_failed"]
    /\ agent' = Idle
    /\ UNCHANGED <<orders, link, journal, failure, worker, spool, reports>>

-----------------------------------------------------------------------------
Central ==
    \/ \E r \in Releases, s \in {"active", "draining", "disabled"}, p \in BOOLEAN :
          NewOrder(r, s, p)
    \/ SetStatus("active", "draining") \/ SetStatus("draining", "active")

AgentRun ==
    \/ ResumeFailure \/ ForgetCommitted \/ RestorePrevious
    \/ Refuse \/ NoteBlocked \/ NoteHealthy \/ NoteDrifted \/ ReportNoted
    \/ PrepareFails \/ SaveFailure \/ ReportFailure \/ ClearFailure
    \/ WriteJournal \/ LinkTarget \/ RestartWorker \/ Activate \/ CloseJournal
    \/ SaveRestored \/ ReportRestored \/ ClearRestored \/ SaveStranded

Next ==
    \/ Central
    \/ WorkerPolls \/ WorkerRestarts \/ StatusAges
    \/ \E r \in spool : Ingest(r)
    \/ \E g \in 1 .. Current : Start(g)
    \/ AgentRun \/ ActivationFails \/ RestoreFails \/ Crash

Spec == Init /\ [][Next]_vars

\* What goes wrong on a host: a killed agent, a worker that stops or hangs, a
\* restart or a health check that fails although the release would have come up.
Fault ==
    \/ Crash /\ ~AgentRun
    \/ WorkerRestarts \/ StatusAges
    \/ (ActivationFails \/ RestoreFails) /\ (At("probing") => Runs(worker.runs))

\* Timers start agent and reporter, the worker polls; faults cease at last.
FairSpec ==
    /\ Spec
    /\ WF_vars(\E g \in 1 .. Current : Start(g))
    /\ WF_vars(AgentRun \/ ActivationFails \/ RestoreFails)
    /\ WF_vars(WorkerPolls)
    /\ WF_vars(\E r \in spool : Ingest(r))
    /\ <>[][~Fault]_vars

-----------------------------------------------------------------------------
(* What must hold.                                                         *)

Evidence == spool \cup reports

\* Every file, the agent and the worker have their shape; the agent is in the
\* middle of a switch or of a failure only with the journal that says so.
TypeOK ==
    /\ orders \in Seq(Orders) /\ Current <= MaxGen
    /\ agent \in Agent /\ agent.gen <= Current
    /\ link \in Releases
    /\ local \in Local
    /\ journal \in Journal
    /\ failure \in Failure
    /\ worker \in Worker
    /\ spool \subseteq Report /\ reports \subseteq Report
    /\ agent.pc \in Switching => JournalPending
    /\ agent.pc \in Failing => FailurePending

\* Wherever an agent is killed, the files it leaves pass every check of the next
\* run's recovery, and without a journal the link is the recorded release: no
\* host is left that only an administrator can repair.
Recoverable ==
    /\ FailurePending => FailureFits
    /\ JournalPending => link \in {journal.previous, journal.target}
    /\ JournalPending /\ ~Committed => local.release = journal.previous
    /\ ~JournalPending => link = local.release

\* Once no switch is pending the worker process runs the release the link shows,
\* although restarts fail, time out or are cut short.
RunsInstalled == ~JournalPending => worker.runs = link

\* A generation the host gave up has its evidence in the spool or in the control
\* plane as soon as no journal stands for it: no crash loses it.
FailureReported ==
    LET g == local.observed IN
    (g > 0 /\ Open(g) /\ local.release # orders[g].release /\ ~JournalPending /\ ~FailurePending)
        => \E r \in Evidence : r.gen = g /\ r.status \in {"failed", "rolled_back"}

\* A generation that was reported failed or rolled back is not tried again.
GivenUp(g) == \E r \in Evidence : r.gen = g /\ r.status \in {"failed", "rolled_back"}
NeverRetried ==
    [][\A g \in 1 .. MaxGen :
          GivenUp(g) => ~(journal' # journal /\ journal'.gen = g)]_vars

\* Seen from the control plane, a host is ReleaseHost: what is reported ready
\* stays linked until a newer generation wants another release.
ReadyGens == {r.gen : r \in {e \in Evidence : e.status = "ready"}}
LastReady == IF ReadyGens = {} THEN 0 ELSE CHOOSE g \in ReadyGens : \A h \in ReadyGens : h <= g
Ordered(g) == IF g = 0 THEN [release |-> First, open |-> TRUE]
              ELSE [release |-> orders[g].release, open |-> Open(g)]

Host == INSTANCE ReleaseHost WITH
            orders <- [g \in 0 .. Current |-> Ordered(g)],
            ready <- LastReady

ImplementsHost == Host!HostSpec

\* As the code stands no production host ever changes its release: a worker that
\* is to be replaced fails its check of the desired state before it can announce
\* the drain the agent waits for (see DrainAnnounced).
NoSwitchInProduction == Production => link = First /\ ~JournalPending

\* A switch that was begun is finished or undone, whatever was killed meanwhile.
JournalSettles == JournalPending ~> ~JournalPending

\* A worker that is asked to drain for a generation announces the drain.
AskedToDrain(g) == Current = g /\ orders[g].status = "draining"
DrainAnnounced ==
    \A g \in 1 .. MaxGen : AskedToDrain(g) ~> (worker.drained = g \/ ~AskedToDrain(g))

\* A report of the newest generation reaches the control plane, unless a newer
\* generation is ordered first.
ReportsArrive ==
    \A g \in 1 .. MaxGen :
        (Current = g /\ \E r \in spool : r.gen = g)
            ~> (Current > g \/ \E r \in reports : r.gen = g)
=============================================================================
