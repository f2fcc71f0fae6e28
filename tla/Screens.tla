------------------------------ MODULE Screens ------------------------------
(***************************************************************************)
(* One browser of the web client against one project that other people     *)
(* work on too: the pages' cached queries, the live channels that are to   *)
(* keep them fresh, and the requests pressed on what they show.            *)
(*                                                                         *)
(* The user at this browser is the project's manager (the projects board   *)
(* and the project's page) or a translator (the portal); everybody else    *)
(* is "elsewhere".                                                         *)
(*                                                                         *)
(* The module keeps clear of Session's names: BrowserProofs extends both.  *)
(***************************************************************************)
EXTENDS Naturals, Transitions, QueryCache

CONSTANTS
  Starts,       \* statuses the project may have when the browser opens
  MaxChanges    \* bound: changes made to the project, here or elsewhere

ASSUME StartsAssumption == Starts \subseteq Statuses
ASSUME ChangesAssumption == MaxChanges \in Nat

VARIABLES
  page,      \* the page on screen
  srv,       \* the project's rows
  cache,     \* the browser's cached queries
  link,      \* the websocket: "down", "joining" (connected), "on" (subscribed)
  dropped,   \* wasDisconnected of RealtimeProvider
  inbox,     \* broadcasts on their way to this browser
  dialog,    \* the operation a dialog or prompt is open for
  request,   \* the request in flight
  deleted,   \* ProjectDetailPage's deleted
  missed,    \* history: queries whose answer changed with nobody to tell this browser
  changes    \* changes made so far

world == <<srv, changes>>
wire  == <<link, dropped, inbox>>
hands == <<page, dialog, request, deleted>>
screens == <<page, srv, cache, link, dropped, inbox, dialog, request, deleted, missed,
             changes>>

-----------------------------------------------------------------------------
(* The project's rows: its status, what became of its newest assignment,   *)
(* whether that one is this browser's user's, and merge_error.             *)

Asgs == {"none", "active", "delivered", "withdrawn"}
Gone == [status |-> "gone", asg |-> "none", mine |-> FALSE, failed |-> FALSE]
Row(s, a, m, f) == [status |-> s, asg |-> a, mine |-> m, failed |-> f]

\* The rows as the handlers leave them.
Rows(mine) ==
  {Row("claimed", "active", mine, FALSE), Row("approved", "delivered", mine, TRUE)}
  \union {Row(s, "none", FALSE, FALSE) : s \in {"draft", "available", "cancelled"}}
  \union {Row(s, "withdrawn", FALSE, FALSE) : s \in {"available", "cancelled"}}
  \union {Row("cancelled", a, mine, FALSE) : a \in {"active", "delivered"}}
  \union {Row(s, "delivered", mine, FALSE) : s \in HandedOver}

Ops == {"publish", "cancel", "withdraw", "delete", "open", "revise", "approve",
        "retry", "archive", "claim", "deliver", "amend", "complete", "fail"}

\* What transition() is asked for, and whether the request carries a reason.
Target(op) ==
  CASE op = "publish"  -> "available"  [] op = "withdraw" -> "available"
    [] op = "cancel"   -> "cancelled"  [] op = "claim"    -> "claimed"
    [] op = "deliver"  -> "delivered"  [] op = "open"     -> "in_review"
    [] op = "revise"   -> "revision_requested"
    [] op = "approve"  -> "approved"   [] op = "complete" -> "completed"
    [] op = "archive"  -> "archived"   [] OTHER           -> "none"
Noted == {"cancel", "withdraw", "revise"}

\* What the API accepts of actor on row r.  deliver and amend are for the holder.
Accepts(op, actor, r) ==
  /\ r.status # "gone"
  /\ CASE op = "delete" -> r.asg = "none"
       [] op = "retry"  -> r.status = "approved"
       [] op = "fail"   -> r.status = "approved"
       [] op = "amend"  -> r.status = "delivered"
       [] OTHER         -> Permitted(r.status, Target(op), actor, op \in Noted)

\* Mutant of Result: every request is taken for a transition.
ResultTransition(op, r, mine) == [r EXCEPT !.status = Target(op)]

\* The row an accepted request leaves; mine says whether a claim is this user's.
Result(op, r, mine) ==
  CASE op = "delete"   -> Gone
    [] op = "retry"    -> [r EXCEPT !.failed = FALSE]
    [] op = "fail"     -> [r EXCEPT !.failed = TRUE]
    [] op = "amend"    -> r
    [] op = "claim"    -> Row("claimed", "active", mine, FALSE)
    [] op = "withdraw" -> Row("available", "withdrawn", FALSE, FALSE)
    [] op = "deliver"  -> [r EXCEPT !.status = "delivered", !.asg = "delivered"]
    [] OTHER           -> [r EXCEPT !.status = Target(op), !.failed = FALSE]

-----------------------------------------------------------------------------
(* Queries: what each page reads, and what the API answers.  portal-current, *)
(* portal-deliveries and portal-history are asked for and refreshed         *)
(* together wherever they are, and are one query here.                     *)

Queries == {"project", "projects", "queue", "mine"}

\* The queries a page keeps in use; a deleted project's page disables its own.
Reads(pg) ==
  CASE pg = "project" -> {"project"}
    [] pg = "board"   -> {"projects"}
    [] OTHER          -> {"queue", "mine"}
Active(q) == q \in Reads(page) /\ ~(q = "project" /\ deleted)

\* The queries this user's pages ever cache.
Kept == IF page = "portal" THEN Reads("portal") ELSE Reads("board") \union Reads("project")

\* currentAssignment(): an active assignment whatever became of its project, or a
\* delivery sent back.
HasWork(r) ==
  /\ r.mine
  /\ \/ r.asg = "active"
     \/ r.asg = "delivered" /\ r.status = "revision_requested"

\* What the project's page, the board's row, the queue and the translator's own part of
\* the portal show of it.
ProjectView(r) == [r EXCEPT !.mine = FALSE]
BoardView(r)   == r.status
QueueView(r)   == r.status = "available"
MineView(r)    == IF HasWork(r) THEN "current"
                  ELSE IF r.mine /\ r.status = "delivered" THEN "delivery" ELSE "nothing"

View(q, r) ==
  CASE q = "project"  -> ProjectView(r)
    [] q = "projects" -> BoardView(r)
    [] q = "queue"    -> QueueView(r)
    [] q = "mine"     -> MineView(r)

Changed(r, s) == {q \in Kept : View(q, r) # View(q, s)}

-----------------------------------------------------------------------------
(* Live channels (RealtimeProvider).                                       *)

Kinds == {"portal", "claimed", "delivered"}

\* The broadcasts and personal notifications a change makes for this browser.  The
\* portal listens to published, withdrawn, cancelled, deleted and claimed and is
\* notified of a revision; the creator's pages listen to deliveries alone.
Announces(op, r) ==
  IF page = "portal"
  THEN CASE op \in {"publish", "withdraw"} -> {"portal"}
         [] op = "claim"                   -> {"claimed"}
         [] op = "cancel" /\ r.status \in {"available", "claimed"} -> {"portal"}
         [] op = "delete" /\ r.status = "available" -> {"portal"}
         [] op = "revise" /\ r.mine        -> {"portal"}
         [] OTHER                          -> {}
  ELSE IF op \in {"deliver", "amend"} THEN {"delivered"} ELSE {}

\* Queries a broadcast invalidates: invalidatePortal, and the listeners' own lists.
Refreshes(k) ==
  CASE k = "portal"    -> {"queue", "mine"}
    [] k = "claimed"   -> {"queue"}
    [] k = "delivered" -> {"project", "projects"}

Covered(ks) == UNION {Refreshes(k) : k \in ks}

\* onStateChange, once wasDisconnected: the portal's queries and the board's.
Reconciled == {"projects"} \union Refreshes("portal")

\* The project becomes s, announced by ks if the socket is subscribed and the broadcast
\* (broadcastLive, best effort) gets through.  Where nobody announces it and told, the
\* answer of this browser's own request, is not to come, the pages cannot know.
Change(s, ks, told) ==
  \E heard \in IF link = "on" THEN {ks, {}} ELSE {{}} :
    /\ srv' = s
    /\ inbox' = inbox \union heard
    /\ missed' = IF heard # {} \/ told THEN missed ELSE missed \union Changed(srv, s)

\* invalidateQueries() for every query of S.
Invalidate(S) ==
  /\ cache' = [q \in Queries |-> IF q \in S THEN Invalidated(cache[q], Active(q))
                                 ELSE cache[q]]
  /\ missed' = missed \union {q \in S \intersect Kept : Forgotten(cache[q], Active(q))}

-----------------------------------------------------------------------------
(* Requests: what each page offers on what it shows.                       *)

NoRequest == [op |-> "none", stage |-> "none"]

Shows(q, v) == cache[q].data = {v}

\* Mutant of ProjectOffers: a project is deleted whoever has held it.
ProjectOffersDelete(r) ==
  {op \in Ops :
     \/ op = "publish" /\ r.status = "draft"
     \/ op = "cancel"  /\ r.status \in {"draft", "available"}
     \/ op = "delete"  /\ r.status \in {"draft", "available", "cancelled"}}

\* The buttons of ProjectDetailPage's header.
ProjectOffers(r) ==
  {op \in Ops :
     \/ op = "publish" /\ r.status = "draft"
     \/ op = "open"    /\ r.status = "delivered"
     \/ op \in {"approve", "revise"} /\ r.status = "in_review"
     \/ op = "withdraw" /\ r.status = "claimed"
     \/ op = "archive"  /\ r.status = "completed"
     \/ op = "cancel"   /\ r.status \in {"draft", "available"}
     \/ op = "delete"   /\ r.asg = "none"
                        /\ r.status \in {"draft", "available", "cancelled"}}

\* The card of a failed merge.
FailureOffers(r) == {op \in {"retry"} : r.status = "approved" /\ r.failed}

\* QueueCard, disabled while the portal shows work in hand.
QueueOffers == {op \in {"claim"} : Shows("queue", TRUE) /\ ~Shows("mine", "current")}

\* CurrentAssignmentCard, whatever became of the project, and AwaitingReview.
CurrentOffers  == {op \in {"deliver"} : Shows("mine", "current")}
DeliveryOffers == {op \in {"amend"} : Shows("mine", "delivery")}

Offers ==
  CASE page = "portal"  -> QueueOffers \union CurrentOffers \union DeliveryOffers
    [] page = "project" -> UNION {ProjectOffers(r) \union FailureOffers(r) :
                                    r \in cache["project"].data}
    [] OTHER            -> {}

\* Pressed and sent at once, or first through a dialog, a prompt or a file picker.
Immediate == {"publish", "open", "retry", "claim"}

Actor == IF page = "portal" THEN "translator" ELSE "project_manager"

SendRequest(op) ==
  /\ request = NoRequest
  /\ request' = [op |-> op, stage |-> "sent"]

\* A button that sends its request.
PressButton(op) ==
  /\ dialog = "none"
  /\ ~deleted
  /\ op \in Offers \intersect Immediate
  /\ SendRequest(op)
  /\ UNCHANGED <<page, dialog, deleted, cache, missed, world, wire>>

\* A button that asks first: a prompt for the reason, the approval dialog, files.
OpenDialog(op) ==
  /\ dialog = "none"
  /\ request = NoRequest
  /\ ~deleted
  /\ op \in Offers \ Immediate
  /\ dialog' = op
  /\ UNCHANGED <<page, request, deleted, cache, missed, world, wire>>

\* Confirmed: nothing looks at the project again, whatever the page shows by now.
Confirm ==
  /\ dialog # "none"
  /\ SendRequest(dialog)
  /\ dialog' = "none"
  /\ UNCHANGED <<page, deleted, cache, missed, world, wire>>

Dismiss ==
  /\ dialog # "none"
  /\ dialog' = "none"
  /\ UNCHANGED <<page, request, deleted, cache, missed, world, wire>>

\* The request reaches the API; deliver and amend are for the one who holds the work.
Handled(op, r) ==
  /\ Accepts(op, Actor, r)
  /\ op = "deliver" => HasWork(r)
  /\ op = "amend"   => r.mine

\* Mutant of OnSuccess: retrying the merge leaves the page alone.
OnSuccessNoRetry(op) ==
  CASE op \in {"claim", "deliver", "amend"} -> {"queue", "mine"}
    [] op = "delete" -> {"projects"}
    [] op = "retry"  -> {"projects"}
    [] OTHER         -> {"project", "projects"}

\* The queries a mutation's onSuccess invalidates: invalidate(), invalidateAll().
OnSuccess(op) ==
  CASE op \in {"claim", "deliver", "amend"} -> {"queue", "mine"}
    [] op = "delete" -> {"projects"}
    [] OTHER         -> {"project", "projects"}

\* Mutant of OnError: a refused claim is a toast only.
OnErrorToast(op) == IF op = "amend" THEN OnSuccess(op) ELSE {}

\* And its onError: a refused claim or correction refreshes, "someone else likely
\* took it"; everything else is a toast.
OnError(op) == IF op \in {"claim", "amend"} THEN OnSuccess(op) ELSE {}

\* The API accepts, and the answer gets back or does not.
Accepted ==
  /\ request.stage = "sent"
  /\ changes < MaxChanges
  /\ changes' = changes + 1
  /\ Handled(request.op, srv)
  /\ \E stage \in {"accepted", "broken"} :
       /\ request' = [request EXCEPT !.stage = stage]
       /\ Change(Result(request.op, srv, TRUE), Announces(request.op, srv),
                 stage = "accepted" \/ OnError(request.op) # {})
  /\ UNCHANGED <<page, dialog, deleted, cache, link, dropped>>

\* It refuses, or never hears of the request.
Refused ==
  /\ request.stage = "sent"
  /\ \/ ~Handled(request.op, srv) /\ request' = [request EXCEPT !.stage = "refused"]
     \/ request' = [request EXCEPT !.stage = "broken"]
  /\ UNCHANGED <<page, dialog, deleted, cache, missed, world, wire>>

\* Mutant of Succeed: the deleted project's entry is left where it is.
SucceedKeepingEntry ==
  /\ request.stage = "accepted"
  /\ request' = NoRequest
  /\ deleted' = (deleted \/ request.op = "delete")
  /\ Invalidate(OnSuccess(request.op))
  /\ UNCHANGED <<page, dialog, world, wire>>

\* onSuccess.  After a delete the project's own entry is removed, the page's queries
\* are disabled, and the board takes its place.
Succeed ==
  /\ request.stage = "accepted"
  /\ request' = NoRequest
  /\ IF request.op = "delete"
     THEN /\ cache' = [cache EXCEPT !["project"]  = Removed(@),
                                    !["projects"] = Invalidated(@, Active("projects"))]
          /\ missed' = missed \union {q \in {"projects"} : Forgotten(cache[q], Active(q))}
          /\ deleted' = TRUE
     ELSE Invalidate(OnSuccess(request.op)) /\ UNCHANGED deleted
  /\ UNCHANGED <<page, dialog, world, wire>>

\* onError.
GiveUp ==
  /\ request.stage \in {"refused", "broken"}
  /\ request' = NoRequest
  /\ Invalidate(OnError(request.op))
  /\ UNCHANGED <<page, dialog, deleted, world, wire>>

-----------------------------------------------------------------------------
(* The browser.                                                            *)

\* The API answers a query under way, as the rows are now.
Answer(q) ==
  /\ cache[q].fetch = "asked"
  /\ cache' = [cache EXCEPT ![q] = Answered(@, View(q, srv))]
  /\ missed' = missed \ {q}
  /\ UNCHANGED <<hands, world, wire>>

\* The card a dialog belongs to left the page: the files picked in it go with it.
Orphaned(q, e) ==
  /\ q = "mine"
  /\ \/ dialog = "deliver" /\ e.data # {"current"}
     \/ dialog = "amend"   /\ e.data # {"delivery"}

\* The answer arrives.  A project that is gone answers 404: an error, and a page that
\* had it keeps showing it.
Land(q) ==
  /\ cache[q].fetch = "answered"
  /\ LET e == IF q = "project" /\ cache[q].reply = {Gone} THEN Failed(cache[q]) ELSE Landed(cache[q])
     IN /\ cache' = [cache EXCEPT ![q] = e]
        /\ dialog' = IF Orphaned(q, e) THEN "none" ELSE dialog
  /\ UNCHANGED <<page, request, deleted, missed, world, wire>>

\* It does not, twice.
LoseAnswer(q) ==
  /\ cache[q].fetch = "answered"
  /\ cache' = [cache EXCEPT ![q] = Failed(@)]
  /\ UNCHANGED <<hands, missed, world, wire>>

\* The manager goes from the board to the project's page or back.
Navigate ==
  /\ page # "portal"
  /\ dialog = "none"
  /\ page' = IF page = "project" THEN "board" ELSE "project"
  /\ deleted' = FALSE
  /\ \E young \in BOOLEAN :
       cache' = [q \in Queries |-> IF q \in Reads(page') THEN Mounted(cache[q], young)
                                   ELSE cache[q]]
  /\ UNCHANGED <<dialog, request, missed, world, wire>>

-----------------------------------------------------------------------------
(* The socket.                                                             *)

\* Mutant of Hear: the portal's broadcasts refresh the queue alone.
HearQueueOnly(k) ==
  /\ k \in inbox
  /\ inbox' = inbox \ {k}
  /\ Invalidate(Refreshes(k) \ {"mine"})
  /\ UNCHANGED <<hands, world, link, dropped>>

\* A broadcast arrives.  A colleague's claim first drops the card from the queue.
Hear(k) ==
  LET seen == [cache EXCEPT !["queue"] = IF k = "claimed" THEN Patched(@, FALSE) ELSE @]
      S    == Refreshes(k)
  IN /\ k \in inbox
     /\ inbox' = inbox \ {k}
     /\ cache' = [q \in Queries |-> IF q \in S THEN Invalidated(seen[q], Active(q))
                                    ELSE seen[q]]
     /\ missed' = missed \union {q \in S \intersect Kept : Forgotten(seen[q], Active(q))}
     /\ UNCHANGED <<hands, world, link, dropped>>

\* The connection goes, and with it what was on its way.  Only ten seconds later is
\* it "unavailable", the state that sets wasDisconnected.
Drop ==
  /\ link # "down"
  /\ link' = "down"
  /\ dropped' \in {dropped, TRUE}
  /\ inbox' = {}
  /\ missed' = missed \union (Covered(inbox) \intersect Kept)
  /\ UNCHANGED <<hands, cache, world>>

\* Connected again: what was missed is refetched now, while the channels still wait
\* for their authorisation.
Reconnect ==
  /\ link = "down"
  /\ link' = "joining"
  /\ IF dropped THEN Invalidate(Reconciled) ELSE UNCHANGED <<cache, missed>>
  /\ UNCHANGED <<hands, world, dropped, inbox>>

Subscribe ==
  /\ link = "joining"
  /\ link' = "on"
  /\ UNCHANGED <<hands, cache, missed, world, dropped, inbox>>

-----------------------------------------------------------------------------
\* Someone else, or the merge job.  This user's own delivery is made here.
Elsewhere(op, actor) ==
  /\ changes < MaxChanges
  /\ changes' = changes + 1
  /\ Accepts(op, actor, srv)
  /\ op \in {"deliver", "amend"} => ~srv.mine
  /\ Change(Result(op, srv, FALSE), Announces(op, srv), FALSE)
  /\ UNCHANGED <<hands, cache, link, dropped>>

-----------------------------------------------------------------------------
ScreensInit ==
  /\ page \in {"board", "portal"}
  /\ srv \in {r \in Rows(page = "portal") : r.status \in Starts}
  /\ cache = [q \in Queries |-> IF q \in Reads(page) THEN Asked(Absent) ELSE Absent]
  /\ link = "down"
  /\ dropped = FALSE
  /\ inbox = {}
  /\ dialog = "none"
  /\ request = NoRequest
  /\ deleted = FALSE
  /\ missed = {}
  /\ changes = 0

Arrivals ==
  \/ \E q \in Queries : Answer(q) \/ Land(q)
  \/ \E k \in Kinds : Hear(k)
  \/ Accepted
  \/ Refused
  \/ Succeed
  \/ GiveUp
  \/ Reconnect
  \/ Subscribe

ScreensNext ==
  \/ Arrivals
  \/ \E op \in Ops :
       \/ PressButton(op)
       \/ OpenDialog(op)
       \/ \E actor \in Roles : Elsewhere(op, actor)
  \/ Confirm
  \/ Dismiss
  \/ Navigate
  \/ Drop
  \/ \E q \in Queries : LoseAnswer(q)

ScreensSpec == ScreensInit /\ [][ScreensNext]_screens

\* The API answers what it is asked and what it answers arrives or fails; the client
\* library reconnects on its own.  Nobody has to press anything.
FairScreensSpec == ScreensSpec /\ WF_screens(Arrivals)

-----------------------------------------------------------------------------
RowType == [status : Statuses \union {"gone"}, asg : Asgs, mine : BOOLEAN,
            failed : BOOLEAN]
Views(q) ==
  CASE q = "project"  -> RowType
    [] q = "projects" -> Statuses \union {"gone"}
    [] q = "queue"    -> BOOLEAN
    [] q = "mine"     -> {"current", "delivery", "nothing"}

ScreensTypeOK ==
  /\ page \in {"board", "project", "portal"}
  /\ srv \in RowType
  /\ \A q \in Queries : cache[q] \in Entry(Views(q))
  /\ link \in {"down", "joining", "on"}
  /\ dropped \in BOOLEAN
  /\ inbox \subseteq Kinds
  /\ dialog \in Ops \union {"none"}
  /\ request \in [op : Ops \union {"none"},
               stage : {"none", "sent", "accepted", "refused", "broken"}]
  /\ deleted \in BOOLEAN
  /\ missed \subseteq Queries
  /\ changes \in 0..MaxChanges

\* What is still to come: broadcasts on their way and the answer to one's own request.
Expected ==
  Covered(inbox)
  \union (IF request.stage = "accepted" THEN OnSuccess(request.op) ELSE {})
  \union (IF request.op = "delete" /\ request.stage = "accepted" THEN {"project"} ELSE {})
  \union (IF request.stage \in {"refused", "broken"} THEN OnError(request.op) ELSE {})

\* A query with nothing to wait for: neither asked again nor flagged.
Settled(q) ==
  /\ Active(q)
  /\ cache[q].fetch = "idle"
  /\ cache[q].data # {}
  /\ ~cache[q].invalid
  /\ q \notin Expected

\* A page at rest shows the project as it is, unless the change was one nobody
\* announces to it or its announcement was lost: whatever the order in which
\* broadcasts, answers and the user's own requests arrive (RealtimeProvider,
\* invalidate(), invalidateAll()).  And "a cached copy would show a deleted project on
\* the way back": once the delete is answered the project's entry stays empty, on its
\* way answers included.
NotBehind ==
  /\ \A q \in Queries : Settled(q) => Shows(q, View(q, srv)) \/ q \in missed
  /\ deleted => cache["project"].data = {}

\* A page that shows the project as it is offers nothing the API would refuse: the
\* buttons' conditions agree with the state machine's, so that a refusal always means
\* somebody else was faster.  The one exception is work whose project was cancelled
\* under its translator, which the portal goes on showing.
OffersAreHonest ==
  (\A q \in Reads(page) : Shows(q, View(q, srv))) =>
    \A op \in Offers :
      \/ Handled(op, srv)
      \/ op = "deliver" /\ srv.status = "cancelled"

\* From some time on the socket stays up and the user stays on a page, pressing nothing.
Calm == <>[](link = "on" /\ request = NoRequest /\ page # "board")

\* A query whose last fetch failed.
Broken(q) == cache[q].fetch = "idle" /\ cache[q].invalid

\* Whatever is announced is on screen sooner or later, or the query failed.  And
\* "refresh: someone else likely took it": a claim the API refused ends with a queue
\* that no longer shows the file, unless the file is free again or the refresh failed.
CatchesUp ==
  Calm =>
    /\ []<>(\A q \in Queries : Active(q) => \/ q \in missed
                                           \/ Shows(q, View(q, srv))
                                           \/ Broken(q))
    /\ (request.op = "claim" /\ request.stage = "refused") ~>
         \/ Shows("queue", FALSE)
         \/ srv.status = "available"
         \/ Broken("queue")

-----------------------------------------------------------------------------
(* What a comment says and the code does not do.                           *)

\* "Refetch everything realtime normally keeps fresh": once reconnected after a lost
\* connection, every query a broadcast would refresh is asked for again.
ReconnectRefetches ==
  [][link = "down" /\ link' = "joining" /\ dropped =>
       \A q \in Covered(Kinds) : Active(q) => cache[q]'.fetch = "asked"
                                            \/ cache[q].data = {}]_screens
=============================================================================
