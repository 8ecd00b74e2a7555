--------------------------- MODULE MCBatchPromotion ---------------------------
(* Instances of BatchPromotion for TLC. *)
EXTENDS BatchPromotion

CONSTANTS p1, p2, t1, a1

ThreeSlots == {1, 2, 3}
TwoProviders == {p1, p2}
OneTimer == {t1}
OneActivation == {a1}
None == 0
=============================================================================
