--------------------------- MODULE MCCoursePipeline ---------------------------
(* Instances of CoursePipeline for TLC. *)
EXTENDS CoursePipeline, TLC

CONSTANTS p1, p2, x1, f1, t1

OneSlot == {1}
TwoSlots == {1, 2}
TwoProviders == {p1, p2}
OnePlanner == {x1}
OneFinalizer == {f1}
OneTimer == {t1}
NoActivation == {}
None == 0

\* Providers are interchangeable; nothing here is about liveness.
Interchangeable == Permutations(Providers)
=============================================================================
