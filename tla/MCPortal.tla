------------------------------ MODULE MCPortal ------------------------------
(* Portal on small instances.                                              *)
EXTENDS Portal, TLC

Symmetry ==
  Permutations(Projects) \union Permutations(Translators) \union Permutations(FileIds)
=============================================================================
