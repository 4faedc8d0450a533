-------------------------- MODULE MCASNRateLimiter --------------------------
(***************************************************************************)
(* Instances of ASNRateLimiter for TLC.  The callers and the autonomous    *)
(* systems are interchangeable.                                            *)
(***************************************************************************)
EXTENDS ASNRateLimiter, TLC

Symmetry == Permutations(ASN) \cup Permutations(Caller)
=============================================================================
