---------------------------- MODULE BatchLedger ----------------------------
(***************************************************************************)
(* What the control plane promises about a crawl batch, whoever plans,     *)
(* crawls, finalizes and approves it: a slot is used once; a batch that is *)
(* offered for promotion has rows of every provider it was opened for and  *)
(* those rows never change; a rejected batch stays rejected; approval      *)
(* changes nothing but the approval.  The promotion of batches to the      *)
(* primary relies on this; CrawlerBatches implements it.                   *)
(***************************************************************************)
EXTENDS Naturals

CONSTANTS Slots, Providers, MaxTries

VARIABLE ledger

\* `picked' names the try of each provider whose rows the batch offers, `rows'
\* is the part of those tries that has any.
Rows == SUBSET (Providers \X (1 .. MaxTries))
Entry == [state : {"absent", "open", "rejected", "held", "approved"},
          scope : SUBSET Providers, picked : Rows, rows : Rows]

Blank(state, scope) == [state |-> state, scope |-> scope, picked |-> {}, rows |-> {}]
Unused == Blank("absent", {})

\* The batches that may be offered for the providers in scope.
Offers(scope) ==
    {e \in [state : {"held"}, scope : {scope}, picked : Rows, rows : Rows] :
        /\ e.rows # {}
        /\ e.rows \subseteq e.picked
        /\ \A p \in scope : \E x \in e.picked : x[1] = p
        /\ \A x \in e.picked : x[1] \in scope}

\* The entries one step away from e.
Steps(e) ==
    CASE e.state = "absent" -> {Blank("open", s) : s \in SUBSET Providers}
      [] e.state = "open" -> {Blank("rejected", e.scope)} \cup Offers(e.scope)
      [] e.state = "held" -> {[e EXCEPT !.state = "approved"]}
      [] OTHER -> {}

Init == ledger = [s \in Slots |-> Unused]

Next ==
    \E s \in Slots : \E e \in Steps(ledger[s]) : ledger' = [ledger EXCEPT ![s] = e]

Spec == Init /\ [][Next]_ledger
=============================================================================
