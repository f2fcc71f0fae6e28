------------------------------ MODULE MCIntake ------------------------------
(* Intake on small instances. *)
EXTENDS Intake, TLC

Symmetry == Permutations(PMs)
=============================================================================
