---------------------------- MODULE MCOperations ----------------------------
(***************************************************************************)
(* Two dispatch workers, two copies of the submission event, one client.   *)
(***************************************************************************)
EXTENDS Operations

CONSTANTS w1, w2, c1, m1, m2
=============================================================================
