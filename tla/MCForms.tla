------------------------------ MODULE MCForms ------------------------------
(* Forms with two users at their desks, who are interchangeable.           *)
EXTENDS Forms, TLC

Symmetry == Permutations(Desks)
=============================================================================
