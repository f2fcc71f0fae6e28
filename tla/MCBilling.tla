------------------------------ MODULE MCBilling -----------------------------
(* Billing on small instances. *)
EXTENDS Billing, TLC

Symmetry == Permutations(Projects) \union Permutations(Windows)
=============================================================================
