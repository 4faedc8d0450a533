------------------------ MODULE MCClickHouseStreamer ------------------------
(***************************************************************************)
(* Instances of ClickHouseStreamer for TLC.                                *)
(***************************************************************************)
EXTENDS ClickHouseStreamer

CONSTANTS m1, m2, w1
=============================================================================
