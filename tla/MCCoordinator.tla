--------------------------- MODULE MCCoordinator ---------------------------
(***************************************************************************)
(* Instances of Coordinator for TLC: a critical and a slower port, up to   *)
(* three subnets of two autonomous systems.                                *)
(***************************************************************************)
EXTENDS Coordinator, TLC

CONSTANTS p1, p2, s1, s2, s3, a1, a2

MCInterval == p1 :> 4 @@ p2 :> 6
MCSubnets  == <<s1, s2, s3>>
MCAsnOf    == s1 :> a1 @@ s2 :> a1 @@ s3 :> a2

ShortInterval == p1 :> 2 @@ p2 :> 3
TwoSubnets    == <<s1, s2>>
TwoAsnOf      == s1 :> a1 @@ s2 :> a1
=============================================================================
