--------------------------- MODULE ReleaseRollout ---------------------------
(***************************************************************************)
(* Rollouts of a release over the crawler hosts of one environment         *)
(* (tools/manage_crawler_release.py): an administrator creates a rollout   *)
(* with canaries, widens it wave by wave, pauses it, completes it or takes *)
(* it back.  Every transition orders a new generation for every worker of  *)
(* the rollout, and those that go on require that the active workers moved *)
(* so far reported the current generation ready.  In between administrators *)
(* drain workers, which no transition asks or moves to the target.         *)
(*                                                                         *)
(* A host keeps the promise of ReleaseHost, which ReleaseAgent implements. *)
(***************************************************************************)
EXTENDS Naturals

CONSTANTS Hosts, Releases,
          First,    \* the release the hosts are bootstrapped with
          MaxGen    \* bound on generations

ASSUME RolloutAssumption == First \in Releases /\ MaxGen \in Nat

VARIABLES
    epoch,    \* the generation of the latest rollout, 0 before the first
    rollout,  \* the latest rollout, with the roster of its last transition
    draining, \* the enabled workers whose row says that they drain
    orders,   \* by host and generation, what the rollouts ordered
    link,     \* by host, the release its link names
    ready,    \* by host, the last generation it reported ready
    heard     \* by host, what its last ingested report of the current generation shows

\* A definition marked `Mutant' is a fault the checks must notice.
vars == <<epoch, rollout, draining, orders, link, ready, heard>>

Host(w) == INSTANCE ReleaseHost WITH
               orders <- orders[w], link <- link[w], ready <- ready[w]

Phases == {"none", "canary", "rolling", "paused", "complete", "rollback", "rolled_back"}
\* `enabled' are the workers not disabled, `roster' those the snapshots of the last
\* transition show active.
Rollout == [phase : Phases, target : Releases, baseline : Releases,
            members : SUBSET Hosts, enabled : SUBSET Hosts, canaries : SUBSET Hosts,
            roster : SUBSET Hosts]

NoRollout == [phase |-> "none", target |-> First, baseline |-> First,
              members |-> {}, enabled |-> {}, canaries |-> {}, roster |-> {}]

Init ==
    /\ epoch = 0
    /\ rollout = NoRollout
    /\ draining = {}
    /\ orders = [w \in Hosts |-> [g \in {0} |-> [release |-> First, open |-> TRUE]]]
    /\ link = [w \in Hosts |-> First]
    /\ ready = [w \in Hosts |-> 0]
    /\ heard = [w \in Hosts |-> "none"]

\* A row of the desired state names the generation of its rollout's last
\* transition, so the rows of the latest rollout are those with the epoch.
Wanted(w) == orders[w][epoch].release
Active == rollout.enabled \ draining

\* current_target: a worker that drains is not among them, whatever it is ordered.
Targeted == {w \in Active : Wanted(w) = rollout.target}

\* Mutant: a report of an earlier generation counts for the current one.
StillHeard(w) == heard[w]

\* Reports of earlier generations are no evidence any more.
Unheard(w) == "none"

\* What parse_desired_state asks of the published document.  Workers that drain are
\* enabled there, so the document of a completion that left one out is refused.
Publishable(r, targets) ==
    /\ r.phase = "canary" => targets = r.canaries
    /\ r.phase = "rolling" => r.canaries \subseteq targets
    /\ r.phase = "complete" => targets = r.enabled
    /\ r.phase \in {"rollback", "rolled_back"} => targets = {}

\* Orders generation epoch + 1: `targets' get the target, the other members the
\* baseline.  A refused or paused document and a disabled worker let nothing change.
Publish(r, targets) ==
    /\ epoch < MaxGen
    /\ epoch' = epoch + 1
    /\ rollout' = r
    /\ orders' = [w \in Hosts |->
          IF w \in r.members
          THEN [g \in DOMAIN orders[w] \cup {epoch + 1} |->
                   IF g = epoch + 1
                   THEN [release |-> IF w \in targets THEN r.target ELSE r.baseline,
                         open |-> /\ w \in r.enabled
                                  /\ r.phase # "paused"
                                  /\ Publishable(r, targets)]
                   ELSE orders[w][g]]
          ELSE orders[w]]
    /\ heard' = [w \in Hosts |-> Unheard(w)]
    /\ UNCHANGED <<link, ready>>

-----------------------------------------------------------------------------
(* The administrator.                                                      *)

Ended == rollout.phase \in {"none", "complete", "rolled_back"}

\* create_rollout, for reviewed workers of which at least one is an enabled canary.
Create(target, baseline, members, enabled, canaries) ==
    /\ Ended
    /\ target # baseline
    /\ canaries # {} /\ canaries \subseteq enabled /\ enabled \subseteq members
    /\ Publish([phase |-> "canary", target |-> target, baseline |-> baseline,
                members |-> members, enabled |-> enabled, canaries |-> canaries,
                roster |-> enabled], canaries)
    /\ draining' = {}

\* Mutant: the canaries' reports stand for all.
ProvenCanaries(W) == \A w \in W \cap Active \cap rollout.canaries : heard[w] = "ready"

\* _require_ready_reports: the latest report of every active worker of W is for the
\* current generation, exact and healthy; in time, or the transition is refused.
\* Nobody is asked if no worker of W is active.
Proven(W) == \A w \in W \cap Active : heard[w] = "ready"

\* Mutant: a rollback ends without a look at the workers.
EvidenceForward(phase) == phase \in {"rolling", "complete"} => Proven(Targeted)

\* A wave, the completion and the end of a rollback need evidence; a pause, a
\* return to the canaries and the start of a rollback do not.
Evidence(phase) ==
    /\ phase \in {"rolling", "complete"} => Proven(Targeted)
    /\ phase = "rolled_back" => Proven(rollout.members)

Allowed(phase) ==
    phase \in CASE rollout.phase = "canary"   -> {"paused", "rolling", "complete", "rollback"}
                [] rollout.phase = "rolling"  -> {"paused", "rolling", "complete", "rollback"}
                [] rollout.phase = "paused"   -> {"canary", "rolling", "rollback"}
                [] rollout.phase = "complete" -> {"rollback"}
                [] rollout.phase = "rollback" -> {"rolled_back"}
                [] OTHER                      -> {}

\* Mutant: a wave need not order the canaries.
SelectsAnyWave(phase, W) ==
    CASE phase = "rolling"  -> Targeted \subseteq W /\ W \subseteq Active
      [] phase = "complete" -> W = Active /\ W = Targeted
      [] phase = "canary"   -> W = Targeted /\ W = rollout.canaries
      [] phase = "paused"   -> W = Targeted
      [] OTHER              -> W = {}

\* Whether a transition may order the target for just the workers of W: the other
\* rows, those of workers that drain among them, get the baseline.
Selects(phase, W) ==
    CASE phase = "rolling"  -> Targeted \cup rollout.canaries \subseteq W /\ W \subseteq Active
      [] phase = "complete" -> W = Active /\ W = Targeted
      [] phase = "canary"   -> W = Targeted /\ W = rollout.canaries
      [] phase = "paused"   -> W = Targeted
      [] OTHER              -> W = {}

MayAdvance(phase, W) == Allowed(phase) /\ Evidence(phase) /\ Selects(phase, W)

\* advance_rollout, one SERIALIZABLE transaction under the administrators' lock.
Advance(phase, W) ==
    /\ MayAdvance(phase, W)
    /\ Publish([rollout EXCEPT !.phase = phase, !.roster = Active], W)
    /\ UNCHANGED draining

\* By hand, as no tool does it: a row goes from active to draining, or back.
Drain(w) ==
    /\ w \in Active
    /\ draining' = draining \cup {w}
    /\ UNCHANGED <<epoch, rollout, orders, link, ready, heard>>

Reactivate(w) ==
    /\ w \in draining
    /\ draining' = draining \ {w}
    /\ UNCHANGED <<epoch, rollout, orders, link, ready, heard>>

-----------------------------------------------------------------------------
(* The hosts and the reporter.                                             *)

MoveLink(w, r) ==
    /\ Host(w)!CanMove(r)
    /\ link' = [link EXCEPT ![w] = r]
    /\ UNCHANGED <<epoch, rollout, draining, orders, ready, heard>>

ReportReady(w, g) ==
    /\ Host(w)!CanReport(g)
    /\ ready' = [ready EXCEPT ![w] = g]
    /\ UNCHANGED <<epoch, rollout, draining, orders, link, heard>>

\* A report of the current generation is ingested: that it is ready, or else that it
\* is pending, drifted, failed or rolled back, which counts for as much as none.  A
\* report of a rollback names the release the host came back to, which is never the
\* one ordered.
Hear(w, what) ==
    /\ w \in rollout.members
    /\ what = "ready" => ready[w] = epoch
    /\ heard' = [heard EXCEPT ![w] = what]
    /\ UNCHANGED <<epoch, rollout, draining, orders, link, ready>>

-----------------------------------------------------------------------------
Administrate ==
    \/ \E t, b \in Releases, m, e, c \in SUBSET Hosts : Create(t, b, m, e, c)
    \/ \E p \in Phases, W \in SUBSET Hosts : Advance(p, W)
    \/ \E w \in Hosts : Drain(w) \/ Reactivate(w)

HostStep(w) ==
    \/ \E r \in Releases : MoveLink(w, r)
    \/ \E g \in 0 .. epoch : ReportReady(w, g)
    \/ \E what \in {"ready", "none"} : Hear(w, what)

Next == Administrate \/ \E w \in Hosts : HostStep(w)

Spec == Init /\ [][Next]_vars

-----------------------------------------------------------------------------
(* What must hold.                                                         *)

\* Rows and reports have their shape: the members of the latest rollout, and only
\* they, have an order of its generation, and only they are heard of.
TypeOK ==
    /\ epoch \in 0 .. MaxGen
    /\ rollout \in Rollout
    /\ draining \subseteq rollout.enabled
    /\ \A w \in Hosts :
          /\ DOMAIN orders[w] \subseteq 0 .. epoch /\ 0 \in DOMAIN orders[w]
          /\ \A g \in DOMAIN orders[w] : orders[w][g] \in [release : Releases, open : BOOLEAN]
          /\ epoch > 0 => (epoch \in DOMAIN orders[w] <=> w \in rollout.members)
          /\ heard[w] # "none" => w \in rollout.members
    /\ link \in [Hosts -> Releases]
    /\ ready \in [Hosts -> 0 .. MaxGen]
    /\ heard \in [Hosts -> {"none", "ready"}]

\* A wave does not leave unproven ground behind: once a rollout is rolling or
\* complete, every worker that its last transition kept on the target has it linked,
\* whatever its agent went through since it was asked and however often the worker
\* was drained.  (One that drained at the transition was not asked; its row is back
\* at the baseline.)
WavesProven ==
    rollout.phase \in {"rolling", "complete"} =>
        \A w \in rollout.members :
            /\ orders[w][epoch - 1].release = rollout.target
            /\ Wanted(w) = rollout.target
            => link[w] = rollout.target

\* A completed rollout is on every worker its roster shows active, a rolled back one
\* on none of them, until the next rollout is created.  The roster says nothing of
\* workers that drained when the rollout ended: it ends without them, and without
\* any report if there was no other.
EndMeansInstalled ==
    /\ rollout.phase = "complete" => \A w \in rollout.roster : link[w] = rollout.target
    /\ rollout.phase = "rolled_back" => \A w \in rollout.roster : link[w] = rollout.baseline

\* A wave goes out over canaries that have shown the release, also if they were
\* drained meanwhile.  A paused rollout is the exception: its document lets no worker
\* report ready, so it rolls on only if no active worker has the target ordered,
\* that is from nothing, and then without evidence.
WavesFromCanaries ==
    [][epoch' # epoch /\ rollout'.phase = "rolling" =>
          IF rollout.phase = "paused"
          THEN Targeted = {}
          ELSE \A w \in rollout.canaries : ready[w] = epoch /\ link[w] = rollout.target]_vars
=============================================================================
