------------------------------ MODULE MCQuotes ------------------------------
(* Quotes for TLC: the two people at the desk can be swapped.              *)
EXTENDS Quotes, TLC

Symmetry == Permutations(Desk)
=============================================================================
