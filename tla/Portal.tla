------------------------------- MODULE Portal -------------------------------
(***************************************************************************)
(* Translators' portal, project management and review over the shared      *)
(* tables projects, assignments and project_files (deliverables only).     *)
(*                                                                         *)
(* PostgreSQL runs READ COMMITTED and the only lock is the project row, so *)
(* a handler that reads before it locks is two actions: the read leaves    *)
(* what it saw in claiming, delivering or withdrawing; the locked section  *)
(* runs later, on whatever the rows have become.  A handler that reads     *)
(* only under the lock is one action.                                      *)
(***************************************************************************)
EXTENDS Naturals, FiniteSets, Transitions

CONSTANTS
  Projects,         \* projects, each starting as a draft
  Translators,      \* users holding portal.access
  FileIds,          \* names of deliverable files
  None,             \* no project, no translator: an assignment row not inserted yet
  MaxAssignments,   \* bound: assignment rows ever inserted
  MaxRounds,        \* bound: delivery rounds per project
  MaxInFlight       \* bound: requests between their read and their locked section

ASSUME BoundsAssumption ==
  MaxAssignments \in Nat /\ MaxRounds \in Nat /\ MaxInFlight \in Nat
ASSUME NoneAssumption == None \notin Projects /\ None \notin Translators

VARIABLES
  status,           \* projects.status
  deleted,          \* projects with deleted_at set
  asg,              \* assignment rows, numbered in the order they are claimed
  files,            \* deliverable rows of each project: version and name
  claiming,         \* claim(): past assertNotBusy, before its transaction
  delivering,       \* deliver(): past currentAssignment, before the row lock
  withdrawing       \* withdraw(): past activeAssignment, before the row lock

vars == <<status, deleted, asg, files, claiming, delivering, withdrawing>>

AsgIds  == 1..MaxAssignments
NoAsg   == 0
Rounds  == 1..MaxRounds
Unused  == [project |-> None, translator |-> None, status |-> "unused"]
Row(p, t) == [project |-> p, translator |-> t, status |-> "active"]

-----------------------------------------------------------------------------
(* What the handlers ask of the tables.                                    *)

Active(a)       == asg[a].status = "active"
ActiveOn(p)     == {a \in AsgIds : Active(a) /\ asg[a].project = p}
ActiveOf(t)     == {a \in AsgIds : Active(a) /\ asg[a].translator = t}
AssignedTo(p)   == {a \in AsgIds : asg[a].project = p}
DeliveredBy(t, p) == {a \in AssignedTo(p) : /\ asg[a].translator = t
                                            /\ asg[a].status = "delivered"}

\* Rows currentAssignment() and assertNotBusy() look for: a claim under way, or a
\* delivery sent back for changes.
Workable(t) ==
  ActiveOf(t) \union
  {a \in AsgIds : /\ asg[a].translator = t
                  /\ asg[a].status = "delivered"
                  /\ status[asg[a].project] = "revision_requested"
                  /\ asg[a].project \notin deleted}

\* The newest claim of S: latest('claimed_at')->first().
IsLatest(a, S) == a \in S /\ \A b \in S : b <= a

\* max('version') over the project's deliverables, 0 when it has none.
Newest(p) ==
  IF files[p] = {} THEN 0
  ELSE CHOOSE v \in Rounds : /\ \E f \in files[p] : f.version = v
                             /\ \A f \in files[p] : f.version <= v
RoundFiles(p) == {f \in files[p] : f.version = Newest(p)}
Upload(v, S)  == [version : {v}, name : S]
NewNames(p)   == FileIds \ {f.name : f \in RoundFiles(p)}

InFlight == Cardinality(claiming) + Cardinality(delivering) + Cardinality(withdrawing)

\* transition() on the locked row; a soft-deleted project is not found.
Transition(p, to, actor, noted) ==
  /\ p \notin deleted
  /\ Permitted(status[p], to, actor, noted)
  /\ status' = [status EXCEPT ![p] = to]

-----------------------------------------------------------------------------
(* Translators.                                                            *)

\* claim(), before its transaction: assertNotBusy() passes.
StartClaim(t, p) ==
  /\ InFlight < MaxInFlight
  /\ Workable(t) = {}
  /\ claiming' = claiming \union {<<t, p>>}
  /\ UNCHANGED <<status, deleted, asg, files, delivering, withdrawing>>

\* Mutant of Claim: without the partial unique indexes the stale busy check decides.
ClaimWithoutIndexes(t, p, a) ==
  /\ <<t, p>> \in claiming
  /\ asg[a] = Unused
  /\ \A b \in AsgIds : b < a => asg[b] # Unused
  /\ Transition(p, "claimed", "translator", FALSE)
  /\ asg' = [asg EXCEPT ![a] = Row(p, t)]
  /\ claiming' = claiming \ {<<t, p>>}
  /\ UNCHANGED <<deleted, files, delivering, withdrawing>>

\* claim(), its transaction: status re-checked under the lock, the row inserted
\* unless one of the two partial unique indexes refuses it, then the transition.
Claim(t, p, a) ==
  /\ <<t, p>> \in claiming
  /\ status[p] = "available"
  /\ ActiveOf(t) = {}
  /\ ActiveOn(p) = {}
  /\ asg[a] = Unused
  /\ \A b \in AsgIds : b < a => asg[b] # Unused
  /\ Transition(p, "claimed", "translator", FALSE)
  /\ asg' = [asg EXCEPT ![a] = Row(p, t)]
  /\ claiming' = claiming \ {<<t, p>>}
  /\ UNCHANGED <<deleted, files, delivering, withdrawing>>

\* deliver() reads the current assignment before any lock is taken.
StartDeliver(t, a) ==
  /\ InFlight < MaxInFlight
  /\ IsLatest(a, Workable(t))
  /\ delivering' = delivering \union {a}
  /\ UNCHANGED <<status, deleted, asg, files, claiming, withdrawing>>

\* deliver(), under the lock: the project's status is checked again, the assignment
\* is not.  The uploads S become the next round.
Deliver(a, S) ==
  LET p == asg[a].project
      v == Newest(p) + 1
  IN /\ a \in delivering
     /\ status[p] \in {"claimed", "revision_requested"}
     /\ v \in Rounds
     /\ S # {}
     /\ Transition(p, "delivered", "translator", FALSE)
     /\ files' = [files EXCEPT ![p] = @ \union Upload(v, S)]
     /\ asg' = [asg EXCEPT ![a].status = "delivered"]
     /\ delivering' = delivering \ {a}
     /\ UNCHANGED <<deleted, claiming, withdrawing>>

\* Mutant of Amendable: the status is not checked again under the lock.
AmendableAnytime(t, p) == p \notin deleted /\ DeliveredBy(t, p) # {}

\* lockAmendableDelivery(): the translator's own delivery, not opened yet.
Amendable(t, p) ==
  /\ p \notin deleted
  /\ DeliveredBy(t, p) # {}
  /\ status[p] = "delivered"

\* amendDelivery() with replaces: one file of the newest round for one new file.
ReplaceDelivered(t, p, f, n) ==
  /\ Amendable(t, p)
  /\ f \in RoundFiles(p)
  /\ n \in NewNames(p)
  /\ files' = [files EXCEPT ![p] = (@ \ {f}) \union Upload(Newest(p), {n})]
  /\ UNCHANGED <<status, deleted, asg, claiming, delivering, withdrawing>>

\* Mutant of AddDelivered: a correction is filed as a new round.
AddAsNewRound(t, p, S) ==
  /\ Amendable(t, p)
  /\ S # {}
  /\ S \subseteq NewNames(p)
  /\ files' = [files EXCEPT ![p] = @ \union Upload(Newest(p) + 1, S)]
  /\ UNCHANGED <<status, deleted, asg, claiming, delivering, withdrawing>>

\* amendDelivery() without replaces: forgotten files join the newest round.
AddDelivered(t, p, S) ==
  /\ Amendable(t, p)
  /\ S # {}
  /\ S \subseteq NewNames(p)
  /\ files' = [files EXCEPT ![p] = @ \union Upload(Newest(p), S)]
  /\ UNCHANGED <<status, deleted, asg, claiming, delivering, withdrawing>>

\* Mutant of RemoveDelivered: the last file may go too.
RemoveAnyDelivered(t, p, f) ==
  /\ Amendable(t, p)
  /\ f \in RoundFiles(p)
  /\ files' = [files EXCEPT ![p] = @ \ {f}]
  /\ UNCHANGED <<status, deleted, asg, claiming, delivering, withdrawing>>

\* removeDeliveredFile(): never the last file of the round.
RemoveDelivered(t, p, f) ==
  /\ Amendable(t, p)
  /\ f \in RoundFiles(p)
  /\ RoundFiles(p) # {f}
  /\ files' = [files EXCEPT ![p] = @ \ {f}]
  /\ UNCHANGED <<status, deleted, asg, claiming, delivering, withdrawing>>

-----------------------------------------------------------------------------
(* The office.                                                             *)

\* A handler that is one transition and nothing else of these tables.
OnlyStatus(p, to, actor, noted) ==
  /\ Transition(p, to, actor, noted)
  /\ UNCHANGED <<deleted, asg, files, claiming, delivering, withdrawing>>

\* publish(); whether the project has a source file is another module's state.
Publish(p) == OnlyStatus(p, "available", "project_manager", FALSE)

\* withdraw(): activeAssignment() is read before the transition takes the lock.
StartWithdraw(p, a) ==
  /\ InFlight < MaxInFlight
  /\ IF ActiveOn(p) = {} THEN a = NoAsg ELSE a \in ActiveOn(p)
  /\ withdrawing' = withdrawing \union {<<p, a>>}
  /\ UNCHANGED <<status, deleted, asg, files, claiming, delivering>>

\* withdraw(), its transition and the update of the assignment it had read, if any.
\* A draft passes too: draft->available is the same request to transition().
Withdraw(p, a) ==
  /\ <<p, a>> \in withdrawing
  /\ Transition(p, "available", "project_manager", TRUE)
  /\ asg' = IF a = NoAsg THEN asg ELSE [asg EXCEPT ![a].status = "withdrawn"]
  /\ withdrawing' = withdrawing \ {<<p, a>>}
  /\ UNCHANGED <<deleted, files, claiming, delivering>>

\* cancel(): the transition alone, whoever may ask for it.
Cancel(p, actor) == OnlyStatus(p, "cancelled", actor, TRUE)

Open(p)            == OnlyStatus(p, "in_review", "project_manager", FALSE)
RequestRevision(p) == OnlyStatus(p, "revision_requested", "project_manager", TRUE)
Approve(p)         == OnlyStatus(p, "approved", "project_manager", FALSE)
\* The merge job's last step, a system transition.
Complete(p)        == OnlyStatus(p, "completed", "system", FALSE)
Archive(p)         == OnlyStatus(p, "archived", "project_manager", FALSE)

\* Mutant of Destroy: decided on the status instead of on the claims.
DestroyByStatus(p) ==
  /\ p \notin deleted
  /\ status[p] \in {"draft", "available", "cancelled"}
  /\ deleted' = deleted \union {p}
  /\ UNCHANGED <<status, asg, files, claiming, delivering, withdrawing>>

\* destroy(): soft delete, under the lock, of a project that was never claimed.
Destroy(p) ==
  /\ p \notin deleted
  /\ AssignedTo(p) = {}
  /\ deleted' = deleted \union {p}
  /\ UNCHANGED <<status, asg, files, claiming, delivering, withdrawing>>

-----------------------------------------------------------------------------
(* A request in flight that fails a check under the lock, or whose process *)
(* dies before the commit: its transaction rolls back and nothing is left. *)

AbortClaim(t, p) ==
  /\ <<t, p>> \in claiming
  /\ claiming' = claiming \ {<<t, p>>}
  /\ UNCHANGED <<status, deleted, asg, files, delivering, withdrawing>>

AbortDeliver(a) ==
  /\ a \in delivering
  /\ delivering' = delivering \ {a}
  /\ UNCHANGED <<status, deleted, asg, files, claiming, withdrawing>>

\* Mutant of AbortWithdraw: no transaction round the two writes.
AbortWithdrawHalfway(p, a) ==
  /\ <<p, a>> \in withdrawing
  /\ withdrawing' = withdrawing \ {<<p, a>>}
  /\ asg' = IF a = NoAsg THEN asg ELSE [asg EXCEPT ![a].status = "withdrawn"]
  /\ UNCHANGED <<status, deleted, files, claiming, delivering>>

AbortWithdraw(p, a) ==
  /\ <<p, a>> \in withdrawing
  /\ withdrawing' = withdrawing \ {<<p, a>>}
  /\ UNCHANGED <<status, deleted, asg, files, claiming, delivering>>

-----------------------------------------------------------------------------
Init ==
  /\ status = [p \in Projects |-> "draft"]
  /\ deleted = {}
  /\ asg = [a \in AsgIds |-> Unused]
  /\ files = [p \in Projects |-> {}]
  /\ claiming = {}
  /\ delivering = {}
  /\ withdrawing = {}

TranslatorStep ==
  \/ \E t \in Translators, p \in Projects :
       \/ StartClaim(t, p)
       \/ AbortClaim(t, p)
       \/ \E a \in AsgIds : Claim(t, p, a)
       \/ \E f \in files[p], n \in FileIds : ReplaceDelivered(t, p, f, n)
       \/ \E S \in SUBSET FileIds : AddDelivered(t, p, S)
       \/ \E f \in files[p] : RemoveDelivered(t, p, f)
  \/ \E a \in AsgIds :
       \/ AbortDeliver(a)
       \/ \E t \in Translators : StartDeliver(t, a)
       \/ \E S \in SUBSET FileIds : Deliver(a, S)

OfficeStep ==
  \E p \in Projects :
    \/ Publish(p)
    \/ Open(p)
    \/ RequestRevision(p)
    \/ Approve(p)
    \/ Complete(p)
    \/ Archive(p)
    \/ Destroy(p)
    \/ \E actor \in Managers : Cancel(p, actor)
    \/ \E a \in AsgIds \union {NoAsg} :
         StartWithdraw(p, a) \/ Withdraw(p, a) \/ AbortWithdraw(p, a)

Next == TranslatorStep \/ OfficeStep

Spec == Init /\ [][Next]_vars

-----------------------------------------------------------------------------
(* Type invariant.                                                         *)

AsgRow == [project : Projects, translator : Translators,
           status : {"active", "delivered", "withdrawn"}]

TypeOK ==
  /\ status \in [Projects -> Statuses]
  /\ deleted \subseteq Projects
  /\ asg \in [AsgIds -> AsgRow \union {Unused}]
  /\ files \in [Projects -> SUBSET [version : Rounds, name : FileIds]]
  /\ claiming \subseteq Translators \X Projects
  /\ delivering \subseteq AsgIds
  /\ withdrawing \subseteq Projects \X (AsgIds \union {NoAsg})

(* Safety.                                                                 *)

\* "Double-claiming is impossible even under concurrent requests": a translator has
\* one active assignment at most and so has a project, although claim() looks before
\* it locks (PortalService.claim).
OneActive ==
  \A a, b \in AsgIds :
    (Active(a) /\ Active(b) /\ (\/ asg[a].project = asg[b].project
                                \/ asg[a].translator = asg[b].translator)) => a = b

\* A claimed project is in somebody's hands: no stale withdraw() or deliver() strips
\* it of its active assignment while it still reads claimed.
ClaimedHasHolder ==
  \A p \in Projects : status[p] = "claimed" => ActiveOn(p) # {}

\* Past delivery there is a delivered assignment to send a revision back to and a
\* deliverable to review and merge, whatever was corrected or released meanwhile.
HandedOverIsBacked ==
  \A p \in Projects : status[p] \in HandedOver =>
    /\ files[p] # {}
    /\ \E a \in AssignedTo(p) : asg[a].status = "delivered"

\* "The line is a translator's claim": no project with an assignment on record is
\* deleted, a claim landing in the same instant included (ProjectController.destroy).
DeletedNeverClaimed ==
  \A p \in deleted : AssignedTo(p) = {}

\* A project's status and its assignments tell the same story: claimed work has its
\* holder, delivered work its delivery, and neither is on a project that was deleted.
StatusIsBacked == ClaimedHasHolder /\ HandedOverIsBacked /\ DeletedNeverClaimed

(* What a step may never do.                                               *)

\* A delivery stays on the translator's record: no withdraw() that read the
\* assignment before it was delivered turns it into a withdrawal.
DeliveryIsFinal ==
  [][\A a \in AsgIds : asg[a].status = "delivered" => asg[a]' = asg[a]]_vars

\* Rounds and reviews: a round opens only with a delivery and leaves earlier rounds
\* alone; a correction keeps the round's number and touches no other round; once the
\* review is open the files stand still (docs/02 rule 6).
RoundsFollowDeliveries ==
  [][\A p \in Projects : files[p]' # files[p] =>
       \/ /\ status[p] \in {"claimed", "revision_requested"}
          /\ status[p]' = "delivered"
          /\ files[p] \subseteq files[p]'
          /\ Newest(p)' = Newest(p) + 1
       \/ /\ status[p] = "delivered" /\ status[p]' = "delivered"
          /\ Newest(p)' = Newest(p)
          /\ (files[p] \ RoundFiles(p))' = files[p] \ RoundFiles(p)]_vars

\* The client's stages are implemented: ClientView, with each status read as the
\* stage Project::CLIENT_STAGES shows.
View == INSTANCE ClientView WITH stage <- [p \in Projects |-> ClientStage(status[p])]
ClientViewHolds == View!Spec

(* Why they hold: the inductive invariant.                                 *)

\* Once handed over, a project never returns to the portal.
DeliveredStay ==
  \A a \in AsgIds : asg[a].status = "delivered" =>
    status[asg[a].project] \in HandedOver \union {"cancelled"}

\* A request in flight names a row that exists; a withdrawal, one of its project.
InFlightRefers ==
  /\ \A a \in delivering : asg[a] # Unused
  /\ \A w \in withdrawing : w[2] # NoAsg =>
       asg[w[2]] # Unused /\ asg[w[2]].project = w[1]

IInv == /\ TypeOK
        /\ OneActive
        /\ ClaimedHasHolder
        /\ HandedOverIsBacked
        /\ DeletedNeverClaimed
        /\ DeliveredStay
        /\ InFlightRefers

-----------------------------------------------------------------------------
(* What the documentation says and the code does not do.                   *)

\* docs/02 rule 5: a cancelled project's assignment is withdrawn and the translator
\* unlocked.
CancelUnlocks ==
  \A p \in Projects : status[p] = "cancelled" => ActiveOn(p) = {}

\* docs/02 rule 1: a project back on the portal is held by nobody.
AvailableIsUnheld ==
  \A p \in Projects : status[p] = "available" => ActiveOn(p) = {}

\* docs/02 matrix row 3: a claimed project is delivered by its assignee only.
DeliveredByAssignee ==
  [][\A p \in Projects : status[p] = "claimed" /\ status[p]' = "delivered" =>
       \E a \in ActiveOn(p) : asg[a].status' = "delivered"]_vars

\* docs/02 rule 2: while their delivery is back for changes, a translator cannot
\* claim a new file.
RevisionHoldsLock ==
  [][\A t \in Translators : ActiveOf(t)' # {} /\ ActiveOf(t) = {} =>
       \A p \in Projects :
         DeliveredBy(t, p) # {} => status[p] # "revision_requested"]_vars

\* docs/02 rule 2 again: nor until the revised delivery is approved.
RevisionLocksUntilApproved ==
  [][\A t \in Translators : ActiveOf(t)' # {} /\ ActiveOf(t) = {} =>
       \A p \in Projects : DeliveredBy(t, p) # {} /\ Newest(p) > 1 =>
         status[p] \notin {"delivered", "in_review"}]_vars
=============================================================================
