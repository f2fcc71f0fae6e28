---------------------------- MODULE Transitions ----------------------------
(***************************************************************************)
(* The project state machine: ProjectTransitionService, through which      *)
(* every change of projects.status goes.  A handler names the status it    *)
(* wants, never the one it expects to leave, so what a request does        *)
(* depends on the row it finds under the lock.                             *)
(***************************************************************************)

Roles == {"project_manager", "admin", "translator", "system"}

Statuses == {"draft", "available", "claimed", "delivered", "in_review",
             "revision_requested", "approved", "completed", "archived",
             "cancelled"}

\* What each permission of the matrix amounts to with the roles the seeder grants.
Managers    == {"project_manager", "admin"}    \* projects.manage, projects.review
PortalUsers == {"translator", "admin"}         \* portal.access

\* A rule of the matrix; note says whether the transition must carry a reason.
Rule(from, to, who, note) == [from |-> from, to |-> to, who |-> who, note |-> note]

Rules ==
  { Rule("draft",              "available",          Managers,           FALSE),
    Rule("available",          "claimed",            PortalUsers,        FALSE),
    Rule("claimed",            "delivered",          PortalUsers,        FALSE),
    Rule("claimed",            "available",          Managers,           TRUE),
    Rule("delivered",          "in_review",          Managers,           FALSE),
    Rule("in_review",          "revision_requested", Managers,           TRUE),
    Rule("revision_requested", "delivered",          PortalUsers,        FALSE),
    Rule("in_review",          "approved",           Managers,           FALSE),
    Rule("approved",           "completed",          {"system", "admin"}, FALSE),
    Rule("completed",          "archived",           Managers,           FALSE),
    Rule("draft",              "cancelled",          Managers,           TRUE),
    Rule("available",          "cancelled",          Managers,           TRUE),
    Rule("claimed",            "cancelled",          {"admin"},          TRUE),
    Rule("delivered",          "cancelled",          {"admin"},          TRUE) }

\* Mutants of Matrix: an approved project can be cancelled; a delivered one withdrawn.
MatrixCancelApproved  == {Rule("approved", "cancelled", {"admin"}, TRUE)} \union Rules
MatrixWithdrawDelivered == {Rule("delivered", "available", Managers, TRUE)} \union Rules

Matrix == Rules

\* transition() accepts: a rule leads from the locked row's status to the one
\* asked for, the actor satisfies it, and the note it demands is there.
Permitted(from, to, actor, noted) ==
  \E r \in Matrix :
    /\ r.from = from
    /\ r.to = to
    /\ actor \in r.who
    /\ r.note => noted

\* Statuses a project reaches only by having been delivered.
HandedOver == {"delivered", "in_review", "revision_requested", "approved",
               "completed", "archived"}

\* Project::CLIENT_STAGES: what the client is told, per internal status.
ClientStage(s) ==
  CASE s = "draft"                                  -> "submitted"
    [] s \in {"available", "claimed"}               -> "in_progress"
    [] s \in {"delivered", "in_review",
              "revision_requested"}                 -> "in_review"
    [] s = "approved"                               -> "ready"
    [] s \in {"completed", "archived"}              -> "completed"
    [] OTHER                                        -> "cancelled"
=============================================================================
