--------------------------- MODULE MCReleaseAgent ---------------------------
(* Instances of ReleaseAgent for TLC. *)
EXTENDS ReleaseAgent

CONSTANTS r1, r2, bad

TwoReleases == {r1, r2}
ThreeReleases == {r1, r2, bad}
BadOnly == {bad}
None == {}
=============================================================================
