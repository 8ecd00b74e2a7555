----------------------------- MODULE RequestBook -----------------------------
(***************************************************************************)
(* What requester, approver and administrator may rely on about requests   *)
(* for transitions of a rollout, without consumers, leases and attempts: a *)
(* request is filed, approved and ended once, its transition is committed  *)
(* after the approval, as it was filed, in its own generation, and a       *)
(* success is one of the rollout.  What a request that ended otherwise did *)
(* is left open: its transition may be there, or come late.                *)
(* ReleaseActions implements it.                                           *)
(***************************************************************************)
EXTENDS Naturals, Sequences

CONSTANTS Requests, Moves, Operator, MaxGen

VARIABLES
    book,    \* the requests, as those who did not execute them see them
    history  \* the committed transitions of the rollout, by generation

bookVars == <<book, history>>

Ends == {"succeeded", "failed", "reconciliation_required"}

Entry(state, g, m, approved) == [state |-> state, gen |-> g, move |-> m, approved |-> approved]
Blank == Entry("none", 0, CHOOSE m \in Moves : TRUE, FALSE)

BookInit ==
    /\ book = [q \in Requests |-> Blank]
    /\ history = <<>>

File(q, g, m) ==
    /\ book[q].state = "none"
    /\ book' = [book EXCEPT ![q] = Entry("open", g, m, FALSE)]
    /\ UNCHANGED history

Approve(q) ==
    /\ book[q].state = "open"
    /\ ~book[q].approved
    /\ book' = [book EXCEPT ![q] = Entry("open", book[q].gen, book[q].move, TRUE)]
    /\ UNCHANGED history

\* Whoever commits names the request, which may have ended meanwhile.
Commit(q) ==
    /\ book[q].approved
    /\ book[q].gen = Len(history) + 1
    /\ history' = Append(history, [move |-> book[q].move, by |-> q])
    /\ UNCHANGED book

OperatorCommits(m) ==
    /\ Len(history) < MaxGen
    /\ history' = Append(history, [move |-> m, by |-> Operator])
    /\ UNCHANGED book

\* The rollout went through the transition that was asked for.
IsDone(q) == book[q].gen \in DOMAIN history /\ history[book[q].gen].move = book[q].move

End(q, outcome) ==
    /\ book[q].state = "open"
    /\ book[q].approved
    /\ outcome = "succeeded" => IsDone(q)
    /\ book' = [book EXCEPT ![q].state = outcome]
    /\ UNCHANGED history

BookNext ==
    \/ \E q \in Requests :
          \/ \E g \in 1 .. MaxGen, m \in Moves : File(q, g, m)
          \/ Approve(q)
          \/ Commit(q)
          \/ \E outcome \in Ends : End(q, outcome)
    \/ \E m \in Moves : OperatorCommits(m)

BookSpec == BookInit /\ [][BookNext]_bookVars
=============================================================================
