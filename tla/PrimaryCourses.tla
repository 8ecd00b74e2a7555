--------------------------- MODULE PrimaryCourses ---------------------------
(***************************************************************************)
(* What readers of the primary may rely on, however many runs look, try,   *)
(* fail and write: the courses change by whole batches, one at a time,     *)
(* each approved, each once, in the order of their slots.  A batch may be  *)
(* passed over for a newer one; it is then never taken over.               *)
(* BatchPromotion implements it, without the runs.                         *)
(***************************************************************************)
EXTENDS Naturals

CONSTANTS Slots, Providers, MaxTries, NoSlot

VARIABLES
    ledger,   \* the batches of the control plane
    primary,  \* by provider, the batch whose courses it shows
    log       \* the batches taken over

coursesVars == <<ledger, primary, log>>

Ledger == INSTANCE BatchLedger

CoursesInit ==
    /\ Ledger!Init
    /\ primary = [p \in Providers |-> NoSlot]
    /\ log = {}

BatchMoves == Ledger!Next /\ UNCHANGED <<primary, log>>

RowsOf(s, p) == {x \in ledger[s].rows : x[1] = p}

\* The batch replaces the courses of the providers it has rows of.
TakeOver(s) ==
    /\ ledger[s].state = "approved"
    /\ \A t \in log : t < s
    /\ primary' = [p \in Providers |-> IF RowsOf(s, p) # {} THEN s ELSE primary[p]]
    /\ log' = log \cup {s}
    /\ UNCHANGED ledger

CoursesNext == BatchMoves \/ \E s \in Slots : TakeOver(s)

CoursesSpec == CoursesInit /\ [][CoursesNext]_coursesVars
=============================================================================
