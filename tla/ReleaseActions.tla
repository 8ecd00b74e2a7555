--------------------------- MODULE ReleaseActions ---------------------------
(***************************************************************************)
(* The queue of release actions: an administrator files a request for one  *)
(* transition of a rollout, a second person approves it, and a consumer    *)
(* (ops_agent/crawler_release_action_worker.py) leases and executes it.    *)
(*                                                                         *)
(* The lease fences the request's row.  The transition itself is another   *)
(* transaction, fenced by the generation the request expects: a consumer   *)
(* whose lease lapsed may still commit it, and one whose commit was not    *)
(* answered has to find out whether it did.                                *)
(***************************************************************************)
EXTENDS Naturals, Sequences

CONSTANTS Requests, Consumers,
          Moves,        \* what a transition may do: its phase and its workers
          Operator,     \* whoever uses the administrator's tool directly
          NoRequest,
          MaxAttempts,
          MaxGen        \* bound on generations

ASSUME ActionsAssumption ==
    /\ Operator \notin Requests
    /\ NoRequest \notin Requests
    /\ Moves # {}
    /\ MaxAttempts \in Nat \ {0}
    /\ MaxGen \in Nat

VARIABLES
    row,       \* ops_crawler_release_action_requests, with the approval receipt
    history,   \* the committed transitions of the rollout, by generation
    consumer   \* the local state of each consumer

vars == <<row, history, consumer>>

\* `gen' is the generation the transition brings about, 1 the rollout's creation;
\* a request was started iff it has an attempt.
Row == [status : {"none", "queued", "leased", "succeeded", "failed", "reconciliation_required"},
        gen : 0 .. MaxGen, move : Moves, attempts : 0 .. MaxAttempts, readOnly : BOOLEAN,
        lapsed : BOOLEAN, receipt : {"none", "live", "expired"}]

\* A lease token is named by the attempt and the mode it was drawn for.
Consumer == [pc : {"idle", "claimed", "mutating", "probing", "ending"},
             req : Requests \cup {NoRequest}, attempt : 0 .. MaxAttempts, readOnly : BOOLEAN,
             error : {"none", "refused", "other"},
             outcome : {"none", "success", "failure", "retry", "defer", "review"}]

Idle == [pc |-> "idle", req |-> NoRequest, attempt |-> 0, readOnly |-> FALSE,
         error |-> "none", outcome |-> "none"]

Unfiled == [status |-> "none", gen |-> 0, move |-> CHOOSE m \in Moves : TRUE, attempts |-> 0,
            readOnly |-> FALSE, lapsed |-> FALSE, receipt |-> "none"]

Init ==
    /\ row = [q \in Requests |-> Unfiled]
    /\ history = <<>>
    /\ consumer = [c \in Consumers |-> Idle]

Generation == Len(history)
AskedBy(c) == row[consumer[c].req]

-----------------------------------------------------------------------------
(* Requester, approver and the administrator's tool.                       *)

File(q, g, m) ==
    /\ row[q].status = "none"
    /\ row' = [row EXCEPT ![q] = [Unfiled EXCEPT !.status = "queued", !.gen = g, !.move = m]]
    /\ UNCHANGED <<history, consumer>>

\* One receipt for a request, before its first attempt.
Approve(q) ==
    /\ row[q].status = "queued"
    /\ row[q].attempts = 0
    /\ row[q].receipt = "none"
    /\ row' = [row EXCEPT ![q].receipt = "live"]
    /\ UNCHANGED <<history, consumer>>

ReceiptExpires(q) ==
    /\ row[q].receipt = "live"
    /\ row' = [row EXCEPT ![q].receipt = "expired"]
    /\ UNCHANGED <<history, consumer>>

Advance(m, by) == history' = Append(history, [move |-> m, by |-> by])

OperatorAdvances(m) ==
    /\ Generation < MaxGen
    /\ Advance(m, Operator)
    /\ UNCHANGED <<row, consumer>>

-----------------------------------------------------------------------------
(* The lease.  A definition marked `Mutant' is a fault the checks must     *)
(* notice.                                                                 *)

\* The receipt must be live at the first claim; a started request keeps it.
Approved(r) == IF r.attempts = 0 THEN r.receipt = "live" ELSE r.receipt # "none"

Claimable(r) ==
    /\ r.status = "queued"
    /\ Approved(r)
    /\ r.attempts < MaxAttempts \/ r.readOnly

\* Mutant: a read-only claim counts as an attempt.
AttemptAlways(r) == r.attempts + 1

AttemptOf(r) == IF r.readOnly THEN r.attempts ELSE r.attempts + 1

Claim(c, q) ==
    LET n == AttemptOf(row[q]) IN
    /\ consumer[c].pc = "idle"
    /\ Claimable(row[q])
    /\ row' = [row EXCEPT ![q].status = "leased", ![q].attempts = n]
    /\ consumer' = [consumer EXCEPT ![c] = [Idle EXCEPT !.pc = "claimed", !.req = q,
                                               !.attempt = n, !.readOnly = row[q].readOnly]]
    /\ UNCHANGED history

\* Completion, retry and renewal are fenced by attempt, token and time.
Holds(c) ==
    /\ AskedBy(c).status = "leased"
    /\ ~AskedBy(c).lapsed
    /\ AskedBy(c).attempts = consumer[c].attempt
    /\ AskedBy(c).readOnly = consumer[c].readOnly

\* No heartbeat renewed the lease in time.
Lapse(q) ==
    /\ row[q].status = "leased"
    /\ ~row[q].lapsed
    /\ row' = [row EXCEPT ![q].lapsed = TRUE]
    /\ UNCHANGED <<history, consumer>>

Unleased(r, status) == [r EXCEPT !.status = status, !.readOnly = FALSE, !.lapsed = FALSE]

\* Mutant: an expired last attempt is queued like any other.
ExpiredQueued(r) ==
    IF r.readOnly THEN Unleased(r, "reconciliation_required") ELSE Unleased(r, "queued")

\* reap_expired: the last attempt gets one read-only reconciliation.
Expired(r) ==
    IF r.readOnly THEN Unleased(r, "reconciliation_required")
    ELSE [Unleased(r, "queued") EXCEPT !.readOnly = r.attempts = MaxAttempts]

\* Every round of an idle consumer begins with the reaper.
Reap(q) ==
    /\ \E c \in Consumers : consumer[c].pc = "idle"
    /\ row[q].status = "leased"
    /\ row[q].lapsed
    /\ row' = [row EXCEPT ![q] = Expired(row[q])]
    /\ UNCHANGED <<history, consumer>>

-----------------------------------------------------------------------------
(* The execution.                                                          *)

Goto(c, pc) == consumer' = [consumer EXCEPT ![c].pc = pc]
Fails(c, error) == consumer' = [consumer EXCEPT ![c].pc = "probing", ![c].error = error]
Decides(c, outcome) == consumer' = [consumer EXCEPT ![c].pc = "ending", ![c].outcome = outcome]

\* Mutant: any transition to the expected generation counts as the request's.
RecoveredByGeneration(r) == Generation = r.gen

\* What the rollout says: the transition is there, as the request describes it.
Recovered(r) == Generation = r.gen /\ history[r.gen].move = r.move

\* It is not there yet; a rollout that does not exist is at no generation.
Absent(r) == ~Recovered(r) /\ (history = <<>> \/ Generation + 1 = r.gen)

\* The read-only look at the rollout.  It may fail, and for a creation it starts
\* with the fleet's enrollment, which need not be what it was.
Looks(r, seen) ==
    \/ seen = "recovered" /\ Recovered(r)
    \/ seen = "absent" /\ Absent(r)
    \/ seen = "conflict" /\ (Recovered(r) \/ Absent(r) => r.gen = 1)
    \/ seen = "unavailable"

\* reconcile_action, alone in a read-only lease, else the head of dispatch_action.
Look(c, seen) ==
    /\ consumer[c].pc = "claimed"
    /\ Looks(AskedBy(c), seen)
    /\ CASE seen = "recovered" -> Decides(c, "success")
         [] seen = "conflict"  -> Decides(c, "failure")
         [] consumer[c].readOnly -> Decides(c, "review")
         [] seen = "absent"    -> Goto(c, "mutating")
         [] OTHER              -> Fails(c, "other")
    /\ UNCHANGED <<row, history>>

\* Mutant: the generation is not compared again under the administrators' lock.
MutateUnchecked(c) ==
    /\ consumer[c].pc = "mutating"
    /\ Generation < MaxGen
    /\ Advance(AskedBy(c).move, consumer[c].req)
    /\ Decides(c, "success") \/ Fails(c, "other")
    /\ UNCHANGED row

\* create_rollout or advance_rollout; the answer of the commit may be lost.
Mutate(c) ==
    /\ consumer[c].pc = "mutating"
    /\ Generation + 1 = AskedBy(c).gen
    /\ Advance(AskedBy(c).move, consumer[c].req)
    /\ Decides(c, "success") \/ Fails(c, "other")
    /\ UNCHANGED row

\* It is refused (generation, phase, evidence, artifacts) or fails without effect.
MutateFails(c, error) ==
    /\ consumer[c].pc = "mutating"
    /\ Fails(c, error)
    /\ UNCHANGED <<row, history>>

LastAttempt(c) == consumer[c].attempt = MaxAttempts

\* _probe_committed_action, and what is made of it.
Probe(c, seen) ==
    /\ consumer[c].pc = "probing"
    /\ Looks(AskedBy(c), seen)
    /\ CASE seen = "recovered" -> Decides(c, "success")
         [] seen = "conflict"  -> Decides(c, "failure")
         [] seen = "unavailable" /\ LastAttempt(c) -> Decides(c, "defer")
         [] seen = "absent" /\ consumer[c].error = "refused" -> Decides(c, "failure")
         [] OTHER              -> Decides(c, "retry")
    /\ UNCHANGED <<row, history>>

\* The row after complete_success, complete_failure, retry_owned,
\* defer_reconciliation_owned or complete_reconciliation_required.
Settled(r, outcome) ==
    CASE outcome = "success" -> Unleased(r, "succeeded")
      [] outcome = "failure" -> Unleased(r, "failed")
      [] outcome = "review"  -> Unleased(r, "reconciliation_required")
      [] outcome = "defer"   -> [Unleased(r, "queued") EXCEPT !.readOnly = TRUE]
      [] outcome = "retry"   -> Unleased(r, IF r.attempts < MaxAttempts THEN "queued" ELSE "failed")

\* A consumer that lost the lease changes nothing.
End(c) ==
    /\ consumer[c].pc = "ending"
    /\ row' = IF Holds(c)
              THEN [row EXCEPT ![consumer[c].req] = Settled(@, consumer[c].outcome)]
              ELSE row
    /\ consumer' = [consumer EXCEPT ![c] = Idle]
    /\ UNCHANGED history

\* complete_success raises where run_once still catches it: the rollout is looked at
\* again, or a read-only lease gives up to review.  If its commit went through after
\* all, the row is as End leaves it, and what follows finds the lease gone.
EndRaises(c) ==
    /\ consumer[c].pc = "ending"
    /\ consumer[c].outcome = "success"
    /\ consumer[c].error = "none"
    /\ IF consumer[c].readOnly THEN Decides(c, "review") ELSE Fails(c, "other")
    /\ UNCHANGED <<row, history>>

\* The process dies, its heartbeat finds the lease gone, or the completion that a
\* handler makes raises.
Drop(c) ==
    /\ consumer[c].pc # "idle"
    /\ consumer' = [consumer EXCEPT ![c] = Idle]
    /\ UNCHANGED <<row, history>>

-----------------------------------------------------------------------------
Seen == {"recovered", "absent", "conflict", "unavailable"}

Execute(c) ==
    \/ \E seen \in Seen : Look(c, seen) \/ Probe(c, seen)
    \/ Mutate(c)
    \/ \E error \in {"refused", "other"} : MutateFails(c, error)
    \/ End(c) \/ EndRaises(c)

Next ==
    \/ \E q \in Requests : \E g \in 1 .. MaxGen, m \in Moves : File(q, g, m)
    \/ \E q \in Requests : Approve(q) \/ ReceiptExpires(q) \/ Lapse(q) \/ Reap(q)
    \/ \E m \in Moves : OperatorAdvances(m)
    \/ \E c \in Consumers : Execute(c) \/ Drop(c) \/ \E q \in Requests : Claim(c, q)

Spec == Init /\ [][Next]_vars

HeldByNone(q) == \A c \in Consumers : consumer[c].req = q => ~Holds(c)

\* A consumer polls, and its calls return or fail; a lease nobody renews lapses.
FairSpec ==
    /\ Spec
    /\ \A c \in Consumers : WF_vars(Execute(c))
    /\ \A q \in Requests :
          /\ WF_vars(\E c \in Consumers : Claim(c, q))
          /\ WF_vars(HeldByNone(q) /\ Lapse(q))
          /\ WF_vars(Reap(q))

-----------------------------------------------------------------------------
(* What must hold.                                                         *)

\* Rows and consumers have their shape; no request is tried more often than the
\* budget says, and read-only reconciliation comes after the last attempt only.
TypeOK ==
    /\ row \in [Requests -> Row]
    /\ history \in Seq([move : Moves, by : Requests \cup {Operator}])
    /\ Generation <= MaxGen
    /\ consumer \in [Consumers -> Consumer]
    /\ \A q \in Requests : row[q].readOnly => row[q].attempts = MaxAttempts
    /\ \A c \in Consumers : consumer[c].pc # "idle" => consumer[c].req \in Requests

\* A request brings about the transition that was approved, in the generation it
\* names, and so at most once, although lapsed leases let several consumers work
\* on it and a commit may go unanswered.
CommitsAsApproved ==
    \A g \in DOMAIN history : history[g].by \in Requests =>
        LET r == row[history[g].by] IN
        g = r.gen /\ history[g].move = r.move /\ r.receipt # "none"

\* A request is reported a success only if the rollout went through the very
\* transition it asked for.
SuccessEvident ==
    \A q \in Requests : row[q].status = "succeeded" =>
        /\ row[q].gen \in DOMAIN history
        /\ history[row[q].gen].move = row[q].move

\* Whatever becomes of consumers, a request that was begun gets an outcome.
Outcomes == {"succeeded", "failed", "reconciliation_required"}
RequestsEnd == \A q \in Requests : row[q].status = "leased" ~> row[q].status \in Outcomes

\* A request is not reported as failed when its transition was committed.
FailedMeansUncommitted ==
    \A q \in Requests : row[q].status = "failed" =>
        \A g \in DOMAIN history : history[g].by # q

-----------------------------------------------------------------------------
(* What a request is for those who do not execute it.                      *)

StateOf(status) == IF status \in {"queued", "leased"} THEN "open" ELSE status

EntryOf(r) ==
    [state |-> StateOf(r.status), gen |-> r.gen, move |-> r.move,
     approved |-> r.receipt # "none"]

\* Consumers, leases, attempts and lost answers are invisible: a request is
\* approved before it has any effect, commits what was filed, once, in its own
\* generation, ends once, and a success is one of the rollout.
Book == INSTANCE RequestBook WITH book <- [q \in Requests |-> EntryOf(row[q])]
ImplementsBook == Book!BookSpec
=============================================================================
