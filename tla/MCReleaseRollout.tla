-------------------------- MODULE MCReleaseRollout --------------------------
(* Instances of ReleaseRollout for TLC. *)
EXTENDS ReleaseRollout, TLC

CONSTANTS h1, h2, r1, r2

TwoHosts == {h1, h2}
TwoReleases == {r1, r2}

Interchangeable == Permutations(Hosts)
=============================================================================
