---------------------------- MODULE JobLifecycle ----------------------------
(***************************************************************************)
(* What the control plane promises about a crawler job, whoever works on   *)
(* it: a bounded number of tries, one at a time; evidence that only the    *)
(* current try adds to and that nothing touches once the job is over; a    *)
(* stop request that holds.  The scheduler, the finalizer and the approver *)
(* rely on this and on nothing else; CrawlerQueue implements it.           *)
(*                                                                         *)
(* A transaction may move several jobs at once (the reaper does), so a     *)
(* step moves any set of jobs, each along its own lifecycle.               *)
(***************************************************************************)
EXTENDS Naturals

CONSTANTS Jobs, MaxTries

VARIABLE life

Outcomes == {"success", "partial_success", "failed", "cancelled", "timed_out",
             "blocked", "dead_lettered"}

\* `tries' counts the leases granted so far, `evidence' holds the tries that
\* have snapshots, `stop' is a requested cancellation.
Life == [phase : {"absent", "queued", "leased", "done"}, outcome : Outcomes \cup {"none"},
         tries : 0 .. MaxTries, stop : BOOLEAN, evidence : SUBSET (1 .. MaxTries)]

Untried(phase) == [phase |-> phase, outcome |-> "none", tries |-> 0, stop |-> FALSE,
                   evidence |-> {}]
Unborn == Untried("absent")
Born == Untried("queued")

Lease(r) == [r EXCEPT !.phase = "leased", !.tries = r.tries + 1]
GiveBack(r) == [r EXCEPT !.phase = "queued"]
End(r, outcome) == [r EXCEPT !.phase = "done", !.outcome = outcome]

\* Mutant: rows of the last try still arrive when the job is over.
StepsLateRows(r) ==
    CASE r.phase = "queued" /\ r.tries < MaxTries -> {Lease(r)}
      [] r.phase = "leased" -> {End(r, o) : o \in Outcomes \ {"cancelled"}}
                                  \cup {[r EXCEPT !.evidence = @ \cup {r.tries}]}
      [] r.phase = "done" -> {[r EXCEPT !.evidence = @ \cup {r.tries}]}
      [] OTHER -> {}

\* The lives one step away from r.
Steps(r) ==
    CASE r.phase = "absent" -> {Born}
      [] r.phase = "queued" ->
            (IF r.tries < MaxTries THEN {Lease(r)} ELSE {})
                \cup {[End(r, "cancelled") EXCEPT !.stop = TRUE]}
      [] r.phase = "leased" ->
            {[r EXCEPT !.evidence = @ \cup {r.tries}], [r EXCEPT !.stop = TRUE]}
                \cup (IF r.stop THEN {End(r, "cancelled")}
                      ELSE {End(r, o) : o \in Outcomes \ {"cancelled"}}
                              \cup (IF r.tries < MaxTries THEN {GiveBack(r)} ELSE {}))
      [] OTHER -> {}

Init == life \in [Jobs -> {Unborn, Born}]

\* Some jobs move, each by one step of its own.
Next ==
    /\ life' # life
    /\ life' \in [Jobs -> Life]
    /\ \A j \in Jobs : life'[j] # life[j] => life'[j] \in Steps(life[j])

Spec == Init /\ [][Next]_life
=============================================================================
