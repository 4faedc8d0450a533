---------------------------- MODULE MCApiServer ----------------------------
(***************************************************************************)
(* Instances of ApiServer for TLC: a client and one with an unknown key,   *)
(* a prefix of two addresses and an address outside it.                    *)
(***************************************************************************)
EXTENDS ApiServer

CONSTANTS c1, c2, h1, h2, x, y, z

Prefixes == {{x, y}}
=============================================================================
