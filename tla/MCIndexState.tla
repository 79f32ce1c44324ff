---------------------------- MODULE MCIndexState ----------------------------
(* IndexState for TLC: symmetry of the interchangeable runs. *)
EXTENDS IndexState, TLC

Symmetry == Permutations(Run)
=============================================================================
