--------------------------- MODULE MCCrawlerQueue ---------------------------
(* Instances of CrawlerQueue for TLC. *)
EXTENDS CrawlerQueue

CONSTANTS j1, a1, a2

OneJob == {j1}
OneAgent == {a1}
TwoAgents == {a1, a2}
=============================================================================
