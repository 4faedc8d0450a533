--------------------------- MODULE MCPersistence ---------------------------
(***************************************************************************)
(* Instances of Persistence for TLC: two messages of one service, one of   *)
(* another port of the host, one that cannot be read and one that cannot   *)
(* be enriched.                                                            *)
(***************************************************************************)
EXTENDS Persistence, TLC

CONSTANTS m1, m2, m3, m4, m5, h1, p1, p2, c1, c2

MCHostOf == [m \in Msg |-> h1]
MCPortOf == [m \in Msg |-> IF m = m3 THEN p2 ELSE p1]
=============================================================================
