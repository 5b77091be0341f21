-------------------------- MODULE MCDrainMigration --------------------------
(***************************************************************************)
(* Two nodes. Node n2 has two incarnations, a restart during which both    *)
(* run: together they drain n1 at the same time, and the peer n1 may catch *)
(* n2 between them.                                                        *)
(***************************************************************************)
EXTENDS DrainMigration

CONSTANTS n1, n2, p1, p2, p3

MCNodeOf == [p \in Proc |-> IF p = p1 THEN n1 ELSE n2]
=============================================================================
