--------------------------- MODULE MCCrawlerBatches ---------------------------
(* Instances of CrawlerBatches for TLC. *)
EXTENDS CrawlerBatches

CONSTANTS p1, x1, x2, f1, f2

OneSlot == {1}
TwoSlots == {1, 2}
OneProvider == {p1}
TwoPlanners == {x1, x2}
TwoFinalizers == {f1, f2}
None == 0
=============================================================================
