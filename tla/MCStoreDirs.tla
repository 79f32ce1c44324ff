---------------------------- MODULE MCStoreDirs ----------------------------
(* StoreDirs with up to three processes, which are interchangeable. *)
EXTENDS StoreDirs, TLC

CONSTANTS p1, p2, p3

Symmetry == Permutations(Proc)
=============================================================================
