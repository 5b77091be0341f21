------------------------------ MODULE MCMedia ------------------------------
(***************************************************************************)
(* One media session that may be migrated once, on two nodes, with one     *)
(* reconciliation pass at a time and one fault.                            *)
(***************************************************************************)
EXTENDS MediaSessions, TLC

CONSTANTS n1, n2, r1

MCNode == {n1, n2}

MCBinding == 1 .. 2

\* The nodes are interchangeable.
NodeSymmetry == Permutations(MCNode)
=============================================================================
