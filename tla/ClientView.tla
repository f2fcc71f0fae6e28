----------------------------- MODULE ClientView -----------------------------
(***************************************************************************)
(* What a client is promised about a project, in the stages their own area *)
(* shows: work only ever moves forward, and once it is announced as ready  *)
(* it can no longer be called off.                                         *)
(***************************************************************************)
CONSTANT Projects
VARIABLE stage

Follows(s) ==
  CASE s = "submitted"   -> {"in_progress", "cancelled"}
    [] s = "in_progress" -> {"in_review", "cancelled"}
    [] s = "in_review"   -> {"ready", "cancelled"}
    [] s = "ready"       -> {"completed"}
    [] OTHER             -> {}

Init == stage = [p \in Projects |-> "submitted"]

\* One project, one stage further.
Advance(p) == \E s \in Follows(stage[p]) : stage' = [stage EXCEPT ![p] = s]

Next == \E p \in Projects : Advance(p)

Spec == Init /\ [][Next]_stage
=============================================================================
