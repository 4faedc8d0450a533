--------------------------- MODULE MCCrawlerPool ---------------------------
(***************************************************************************)
(* Instances of CrawlerPool for TLC.                                       *)
(***************************************************************************)
EXTENDS CrawlerPool

CONSTANTS t1, t2, t3, t4, d1, d2, w1, w2
=============================================================================
