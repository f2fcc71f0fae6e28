----------------------------- MODULE MCCounting -----------------------------
(* Counting on small instances. *)
EXTENDS Counting
=============================================================================
