------------------------------ MODULE MCMerge -------------------------------
(* Merge on small instances. *)
EXTENDS Merge, TLC

Symmetry == Permutations(Projects)
=============================================================================
