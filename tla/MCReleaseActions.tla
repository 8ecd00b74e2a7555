-------------------------- MODULE MCReleaseActions --------------------------
(* Instances of ReleaseActions for TLC. *)
EXTENDS ReleaseActions

CONSTANTS q1, c1, c2, m1, m2

OneRequest == {q1}
OneConsumer == {c1}
TwoConsumers == {c1, c2}
TwoMoves == {m1, m2}
=============================================================================
