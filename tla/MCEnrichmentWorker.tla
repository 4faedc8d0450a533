------------------------- MODULE MCEnrichmentWorker -------------------------
(***************************************************************************)
(* Instances of EnrichmentWorker for TLC.                                  *)
(***************************************************************************)
EXTENDS EnrichmentWorker

CONSTANTS m1, m2, w1, w2
=============================================================================
