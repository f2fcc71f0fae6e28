----------------------------- MODULE Documents -----------------------------
(***************************************************************************)
(* "This certificate needs the holder's ID attached": what the office asks *)
(* the client for, what is sent back, and how each of them takes a step    *)
(* back.  Every request of the API runs in the steps its handler takes, no *)
(* lock is held, and only an upload has a transaction.  A request from a   *)
(* page loaded long ago is refused, which its caller is told and which     *)
(* changes nothing, or let in, which is then all that counts: so a call    *)
(* begins where its handler lets it in.                                    *)
(***************************************************************************)
EXTENDS Naturals, Sequences, FiniteSets

CONSTANTS
  Sources,     \* the project's work files
  Office,      \* managers with the project open
  Client,      \* the client with the project open
  Whole,       \* "none": an ask about the job as a whole
  MaxRows,     \* bound: requests made and files sent
  Askers,      \* bound: managers who only ask
  MaxCrashes   \* bound: requests of the API that die halfway

ASSUME PeopleAssumption == Client \notin Office
ASSUME WholeAssumption  == Whole \notin Sources
ASSUME BoundsAssumption == {MaxRows, MaxCrashes} \subseteq Nat

VARIABLES
  status,      \* the project: a client's draft, published, or settled
  sources,     \* its work files
  requests,    \* rows of document_requests
  files,       \* reference files: a row, a blob on the disk, or both
  calls,       \* API: the request each browser has in flight
  due,         \* web: the query of the client's page was invalidated
  hasty,       \* history: files sent while a work file was being removed, or lost to a client's removal
  hurt,        \* history: requests whose handler died halfway, whose work file went, or whose
               \* answer a reopening under way rejected unseen
  raced,       \* history: requests cancelled while another call was let in on them
  doubled,     \* history: requests made while somebody else's for the same thing was let in
  crashes      \* requests that died so far

rows == <<status, sources, requests, files>>
hist == <<hasty, hurt, raced, doubled, crashes>>
vars == <<rows, calls, due, hist>>

Actors == Office \union {Client}
Abouts == Sources \union {Whole}
None   == 0

-----------------------------------------------------------------------------
(* Rows.                                                                   *)

Ask(about) == [status |-> "pending", about |-> about, again |-> FALSE]

\* clients: the column uploaded_by_client_id is set.
Sent(r, about, by) ==
  [row |-> TRUE, blob |-> TRUE, req |-> r, parent |-> about, clients |-> by = Client,
   superseded |-> FALSE]

\* A blob without a row, and what is left of a file that was removed.
Stray == [Sent(None, Whole, Client) EXCEPT !.row = FALSE]
Gone  == [Stray EXCEPT !.blob = FALSE]

Settled      == status = "settled"
Pending(r)   == requests[r].status = "pending"
Fulfilled(r) == requests[r].status = "fulfilled"
Files        == DOMAIN files
Requests     == DOMAIN requests

\* scope current() of the request's attachments.
Standing(f)    == files[f].row /\ ~files[f].superseded
Current(r)     == {f \in Files : Standing(f) /\ files[f].req = r}
Attachments(r) == {f \in Files : files[f].row /\ files[f].req = r}
Unprompted     == {f \in Files : files[f].row /\ files[f].req = None /\ files[f].clients}
HangingOffStanding(s) == {f \in Files : Standing(f) /\ files[f].parent = s}   \* Mutant of HangingOff
HangingOff(s) == {f \in Files : files[f].row /\ files[f].parent = s}

UnansweredAll(r) == Fulfilled(r) /\ Attachments(r) = {}       \* Mutant of Unanswered
Unanswered(r) == Fulfilled(r) /\ Current(r) = {}

-----------------------------------------------------------------------------
(* The pages.  An offer is an operation with the row it is pressed on.     *)

Offer(op, id, on) == [op |-> op, id |-> id, on |-> on]

ClientOffers ==
  LET listed == {r \in Requests : requests[r].status # "cancelled"}
  IN  {Offer("answer", r, Whole) : r \in {r \in listed : Pending(r)}}
      \union {Offer("remove", f, Whole) : f \in UNION {Current(r) : r \in listed}}
      \union IF Settled THEN {} ELSE
                {Offer("remove", f, Whole) : f \in Unprompted} \union {Offer("send", None, Whole)}
      \union IF status # "draft" THEN {} ELSE {Offer("removeSource", None, s) : s \in sources}

OfficeOffers ==
  IF Settled THEN {} ELSE
    {Offer("ask", None, a) : a \in sources \union {Whole}}
    \union {Offer(op, r, Whole) : op \in {"answer", "cancel"}, r \in {r \in Requests : Pending(r)}}
    \union {Offer("reopen", r, Whole) : r \in {r \in Requests : Fulfilled(r)}}
    \union {Offer("remove", f, Whole) : f \in Unprompted \union UNION {Attachments(r) : r \in Requests}}
    \union IF status # "draft" THEN {} ELSE {Offer("removeSource", None, s) : s \in sources}

Rendered(a) == IF a = Client THEN ClientOffers ELSE OfficeOffers

\* The refetch that follows invalidateQueries: the page shows what is offered now.
Refetch == due /\ due' = FALSE /\ UNCHANGED <<rows, calls, hist>>

-----------------------------------------------------------------------------
(* The handlers.                                                           *)

Call(op, id, on, step, paths) ==
  [op |-> op, id |-> id, on |-> on, step |-> step, kept |-> "", paths |-> paths]
Idle == Call("none", None, Whole, "idle", {})

At(a, op, step) == calls[a].op = op /\ calls[a].step = step

\* The request passes its handler's checks.
Begin(a, op, id, on, paths) ==
  /\ calls[a] = Idle /\ (a \in Askers => op = "ask")
  /\ calls' = [calls EXCEPT ![a] = Call(op, id, on, "let in", paths)]
  /\ UNCHANGED <<rows, due, hist>>

Goes(a, step) == calls' = [calls EXCEPT ![a].step = step]
Refuse(a)     == calls' = [calls EXCEPT ![a] = Idle]

\* Answered: the client's page hears of it, what the office's page does is not kept.
Done(a) == calls' = [calls EXCEPT ![a] = [Idle EXCEPT !.step = IF a = Client THEN "done" ELSE "idle"]]

\* The success path of a button invalidates the page's query; the failure path is a toast.
InvalidatedNot == UNCHANGED due                               \* Mutant of Invalidated
Invalidated == due' = TRUE

Succeed ==
  /\ calls[Client].step = "done"
  /\ Invalidated
  /\ calls' = [calls EXCEPT ![Client] = Idle]
  /\ UNCHANGED <<rows, hist>>

\* The bound, counting what is under way.
Uploads == {"answer", "send"}
Room == Len(requests) + Len(files)
          + Cardinality({a \in Actors : calls[a].op \in Uploads \union {"ask"}}) < MaxRows

TwinsAnyFulfilled(about) == {r \in Requests : Fulfilled(r) /\ requests[r].about = about}   \* Mutant of Twins
Twins(about) == {r \in Requests : Pending(r) /\ requests[r].about = about}

MayAsk(about) == ~Settled /\ about \in sources \union {Whole} /\ Twins(about) = {}

\* DocumentRequestController::store, up to the create.
LoadAsk(a, about) ==
  /\ a \in Office /\ MayAsk(about) /\ Room
  /\ Begin(a, "ask", None, about, {})

\* Somebody else has passed the check for the same thing, and creates theirs next.
Meanwhile(a) == \E b \in Actors \ {a} : At(b, "ask", "let in") /\ calls[b].on = calls[a].on

\* No lock and no unique index: what was checked is not looked at again.  The foreign key
\* refuses a work file that went meanwhile.
CreateAsk(a) ==
  /\ At(a, "ask", "let in")
  /\ IF calls[a].on \in sources \union {Whole}
       THEN /\ requests' = Append(requests, Ask(calls[a].on)) /\ Done(a)
            /\ doubled' = doubled \union IF Meanwhile(a) THEN {Len(requests) + 1} ELSE {}
       ELSE UNCHANGED <<requests, doubled>> /\ Refuse(a)
  /\ UNCHANGED <<status, sources, files, due, hasty, hurt, raced, crashes>>

\* On a settled project an open request is still the client's to answer.
MayUpload(a, r) ==
  IF r = None THEN a = Client /\ ~Settled ELSE Pending(r) /\ (a = Client \/ ~Settled)

\* ClientPortalController::uploadFile and ProjectFileController::store, up to the
\* transaction.
LoadUpload(a, r) ==
  /\ MayUpload(a, r) /\ Room
  /\ Begin(a, IF r = None THEN "send" ELSE "answer", r,
           IF r = None THEN Whole ELSE requests[r].about, {})

\* Files sent while somebody is taking a work file away.
Removing == \E a \in Actors : At(a, "removeSource", "let in")

\* markFulfilled() judges by the instance that was loaded, so it writes whatever came
\* between; the transaction makes row and status one step.
Store(a) ==
  /\ \E op \in Uploads : At(a, op, "let in")
  /\ LET c == calls[a]
         hung == c.on \in sources \union {Whole}
     IN  /\ files' = Append(files, IF hung THEN Sent(c.id, c.on, a) ELSE Stray)
         /\ requests' = IF hung /\ c.id # None
                          THEN [requests EXCEPT ![c.id].status = "fulfilled"] ELSE requests
         /\ hasty' = IF Removing \/ ~hung THEN hasty \union {Len(files) + 1} ELSE hasty
         /\ IF hung THEN Done(a) ELSE Refuse(a)
  /\ UNCHANGED <<status, sources, due, hurt, raced, doubled, crashes>>

\* The document request that a call may write.
Subject(a) == {calls[a].id} \ {None}
LetInOn(a, r) == r \in Subject(a)

\* The document requests that files in hand answer.
AnsweredBy(paths) == {files[f].req : f \in {f \in paths : files[f].row}} \ {None}
Removals == {"remove", "removeSource"}

\* DocumentRequestController::cancel, on the instance the route bound.
LoadCancel(a, r) == a \in Office /\ Pending(r) /\ Begin(a, "cancel", r, Whole, {})

SaveCancel(a) ==
  /\ At(a, "cancel", "let in")
  /\ requests' = [requests EXCEPT ![calls[a].id].status = "cancelled"]
  /\ raced' = raced \union IF \E b \in Actors \ {a} : LetInOn(b, calls[a].id) THEN {calls[a].id} ELSE {}
  /\ Done(a)
  /\ UNCHANGED <<status, sources, files, due, hasty, hurt, doubled, crashes>>

\* DocumentRequestController::reopen, then DocumentRequest::reopen(): refresh(), the
\* update of the attachments, and a save() that writes only what it finds dirty.
MayReopenAny(r) == ~Settled                                   \* Mutant of MayReopen
MayReopen(r) == ~Settled /\ Fulfilled(r)

LoadReopen(a, r) == a \in Office /\ MayReopen(r) /\ Begin(a, "reopen", r, Whole, Current(r))

RefreshReopen(a) ==
  /\ At(a, "reopen", "let in")
  /\ calls' = [calls EXCEPT ![a].step = "refreshed", ![a].kept = requests[calls[a].id].status]
  /\ UNCHANGED <<rows, due, hist>>

SupersededClients(r) == {f \in Current(r) : files[f].clients}   \* Mutant of Superseded
Superseded(r) == Current(r)

Supersede(a) ==
  /\ At(a, "reopen", "refreshed")
  /\ files' = [f \in Files |-> IF f \in Superseded(calls[a].id)
                                 THEN [files[f] EXCEPT !.superseded = TRUE] ELSE files[f]]
  /\ Goes(a, "superseded")
  /\ UNCHANGED <<status, sources, requests, due, hist>>

\* Back to pending, and open again.
Open(r) == requests' = [requests EXCEPT ![r].status = "pending", ![r].again = TRUE]

\* A status that was pending when it was refreshed is not dirty and is not written.  If an
\* answer came in between, it was superseded with the rest and leaves the request fulfilled.
SaveReopen(a) ==
  /\ At(a, "reopen", "superseded")
  /\ LET c == calls[a]
     IN  IF c.kept = "pending"
           THEN /\ UNCHANGED requests
                /\ hurt' = hurt \union IF Unanswered(c.id) THEN {c.id} ELSE {}
           ELSE Open(c.id) /\ UNCHANGED hurt
  /\ Done(a)
  /\ UNCHANGED <<status, sources, files, due, hasty, raced, doubled, crashes>>

\* destroyFile() and destroy(): the client only what they sent and what still stands,
\* the office any supporting document of the client's.
MayRemoveStanding(a, f) == Standing(f) /\ ~Settled /\ (a = Client => files[f].clients)   \* Mutant of MayRemove
MayRemove(a, f) ==
  /\ files[f].row /\ ~Settled
  /\ a = Client => files[f].clients /\ ~files[f].superseded

LoadRemove(a, f) == MayRemove(a, f) /\ Begin(a, "remove", files[f].req, Whole, {f})

\* The blob, then the row; the request was read before.
DeleteFile(a) ==
  /\ At(a, "remove", "let in")
  /\ files' = [f \in Files |-> IF f \in calls[a].paths THEN Gone ELSE files[f]]
  /\ hasty' = hasty \ calls[a].paths
  /\ IF calls[a].id = None THEN Done(a)
       ELSE calls' = [calls EXCEPT ![a].step = "row gone", ![a].paths = {}]
  /\ UNCHANGED <<status, sources, requests, due, hurt, raced, doubled, crashes>>

\* reopenIfUnanswered(): refresh() and the query, then the save.
CheckAnswers(a) ==
  /\ At(a, "remove", "row gone")
  /\ IF Unanswered(calls[a].id) THEN Goes(a, "unanswered") ELSE Done(a)
  /\ UNCHANGED <<rows, due, hist>>

SaveUnanswered(a) ==
  /\ At(a, "remove", "unanswered")
  /\ Open(calls[a].id)
  /\ Done(a)
  /\ UNCHANGED <<status, sources, files, due, hist>>

\* A work file of the draft.  destroy() also deletes the blobs of what hangs off it;
\* destroyFile() deletes the one blob.
PathsNone(a, s) == {}                                         \* Mutant of Paths
Paths(a, s) == IF a = Client THEN {} ELSE HangingOff(s)

MayRemoveSource(s) == status = "draft" /\ s \in sources

LoadRemoveSource(a, s) == MayRemoveSource(s) /\ Begin(a, "removeSource", None, s, Paths(a, s))

\* The blobs; then the row, which takes its attachments with it (cascade), while the
\* requests about it are about the job as a whole from now on (nullOnDelete).
DeleteSource(a) ==
  /\ At(a, "removeSource", "let in")
  /\ LET s == calls[a].on
     IN  /\ sources' = sources \ {s}
         /\ files' = [f \in Files |->
              CASE f \in calls[a].paths -> Gone
                [] f \in HangingOff(s) \ calls[a].paths -> Stray
                [] OTHER -> files[f]]
         /\ requests' = [r \in Requests |->
              IF requests[r].about = s THEN [requests[r] EXCEPT !.about = Whole] ELSE requests[r]]
         /\ hurt' = hurt \union {r \in Requests : requests[r].about = s}
         /\ hasty' = (hasty \ calls[a].paths) \union IF a = Client THEN HangingOff(s) ELSE {}
  /\ Done(a)
  /\ UNCHANGED <<status, due, raced, doubled, crashes>>

-----------------------------------------------------------------------------
(* Failures and the rest of the office.                                    *)

\* The handler dies: what it wrote stays, a transaction it was in is rolled back.  A removal
\* deletes the blobs first, of an answer or of all that hangs off a work file, and leaves
\* rows that lead nowhere.
Crash(a) ==
  /\ calls[a].step \notin {"idle", "done"}
  /\ crashes < MaxCrashes
  /\ crashes' = crashes + 1
  /\ hurt' = hurt \union Subject(a) \union AnsweredBy(calls[a].paths)
  /\ \/ UNCHANGED <<files, hasty>>
     \/ /\ \E op \in Removals : At(a, op, "let in")
        /\ files' = [f \in Files |-> IF f \in calls[a].paths THEN [files[f] EXCEPT !.blob = FALSE] ELSE files[f]]
        /\ UNCHANGED hasty
     \/ /\ \E op \in Uploads : At(a, op, "let in")
        /\ files' = Append(files, Stray)
        /\ hasty' = hasty \union {Len(files) + 1}
  /\ Refuse(a)
  /\ UNCHANGED <<status, sources, requests, due, raced, doubled>>

\* The answer is lost, or the upload was cancelled once the API had it.
LoseAnswer ==
  /\ calls[Client].step = "done"
  /\ crashes < MaxCrashes
  /\ crashes' = crashes + 1
  /\ Refuse(Client)
  /\ UNCHANGED <<rows, due, hasty, hurt, raced, doubled>>

Publish == status = "draft" /\ status' = "running" /\ UNCHANGED <<sources, requests, files, calls, due, hist>>
Settle  == ~Settled /\ status' = "settled" /\ UNCHANGED <<sources, requests, files, calls, due, hist>>

-----------------------------------------------------------------------------
Init ==
  /\ status = "draft"
  /\ sources = Sources
  /\ requests = <<>> /\ files = <<>>
  /\ calls = [a \in Actors |-> Idle]
  /\ due = FALSE
  /\ hasty = {} /\ hurt = {} /\ raced = {} /\ doubled = {}
  /\ crashes = 0

Press(a) ==
  \/ \E about \in sources \union {Whole} : LoadAsk(a, about)
  \/ \E r \in Requests \union {None} : LoadUpload(a, r)
  \/ \E r \in Requests : LoadCancel(a, r) \/ LoadReopen(a, r)
  \/ \E f \in Files : LoadRemove(a, f)
  \/ \E s \in sources : LoadRemoveSource(a, s)

Step(a) ==
  \/ CreateAsk(a) \/ Store(a) \/ SaveCancel(a)
  \/ RefreshReopen(a) \/ Supersede(a) \/ SaveReopen(a)
  \/ DeleteFile(a) \/ CheckAnswers(a) \/ SaveUnanswered(a)
  \/ DeleteSource(a)

Next ==
  \/ \E a \in Actors : Press(a) \/ Step(a) \/ Crash(a)
  \/ Succeed \/ Refetch \/ LoseAnswer
  \/ Publish \/ Settle

Spec == Init /\ [][Next]_vars

\* The client's request runs to its end and is answered.  Nobody has to press anything, and
\* the office's requests may stand still wherever they are.
FairSpec == Spec /\ WF_vars(Step(Client)) /\ WF_vars(Succeed)

-----------------------------------------------------------------------------
(* Correctness.                                                            *)

AskRow  == [status : {"pending", "fulfilled", "cancelled"}, about : Abouts, again : BOOLEAN]
FileRow == [row : BOOLEAN, blob : BOOLEAN, req : Nat, parent : Abouts, clients : BOOLEAN,
            superseded : BOOLEAN]
CallRow == [op : {"none", "ask", "answer", "send", "cancel", "reopen", "remove", "removeSource"},
            id : Nat, on : Abouts, paths : SUBSET Nat,
            step : {"idle", "let in", "refreshed", "superseded", "row gone", "unanswered", "done"},
            kept : {"", "pending", "fulfilled", "cancelled"}]

\* Rows have the shapes of the tables and their foreign keys: a request is about a work
\* file of the project or the job as a whole, and what hangs off a work file went with it.
TypeOK ==
  /\ status \in {"draft", "running", "settled"} /\ sources \subseteq Sources
  /\ requests \in Seq(AskRow) /\ files \in Seq(FileRow) /\ calls \in [Actors -> CallRow]
  /\ \A r \in Requests : requests[r].about \in sources \union {Whole}
  /\ \A f \in Files :
       /\ files[f].req \in Requests \union {None}
       /\ files[f].row => files[f].parent \in sources \union {Whole}
  /\ due \in BOOLEAN /\ hurt \union raced \union doubled \subseteq Requests /\ hasty \subseteq Files
  /\ crashes \in 0 .. MaxCrashes

AtRest(r) == \A a \in Actors : ~LetInOn(a, r)

\* A document is shown as received only while the office holds one.  Whatever the order
\* in which answers, rejections and removals of both sides run, a fulfilled request has a
\* file that still stands, and such a file is on the disk.  Three things break it, all
\* known divergences: a handler that dies between two of its writes, a work file that
\* takes the answers with it, and an answer that comes between the refresh() and the
\* update of a reopening whose request was open again by then: it is rejected unseen, and
\* save() leaves the request fulfilled (DocumentRequest.php:132-144).  And when the manager
\* is told that the document was asked for again, nothing of what they rejected still
\* counts, or reaches the translator as the document to spell names from.
FulfilledIsAnswered ==
  /\ \A r \in Requests : Fulfilled(r) /\ AtRest(r) =>
       \/ r \in hurt
       \/ Current(r) # {} /\ \A f \in Current(r) : files[f].blob
  /\ \A a \in Office : At(a, "reopen", "superseded") => \A f \in calls[a].paths : ~Standing(f)

\* "Asking twice for the same thing on the same file would give the client two identical
\* boxes".  It takes more than asking after one another, whatever becomes of the first
\* request meanwhile: two managers passed the check before either created theirs
\* (DocumentRequestController.php:47-57), or one of the two was opened again, or it lost
\* its work file or a handler that died (known divergences).
OneBoxPerAsk ==
  \A r, q \in Requests :
    r # q /\ Pending(r) /\ Pending(q) /\ requests[r].about = requests[q].about =>
      \E p \in {r, q} : requests[p].again \/ p \in hurt \union doubled

\* No blob without a row that leads to it, "or the disk keeps orphans nothing can reach":
\* except for files sent while the work file they hang off was going, a transaction that
\* died, and a work file the client took back.
NothingUnreachable == \A f \in Files : files[f].blob /\ ~files[f].row => f \in hasty

\* What the office withdrew stays withdrawn: a cancelled request is never answered or
\* asked again, but by a call that was already past its check when it was cancelled.
WithdrawnStays ==
  [][\A r \in Requests : requests[r].status = "cancelled" =>
       requests'[r].status = "cancelled" \/ r \in raced]_vars

(* Why they hold: the inductive invariant.                                 *)

\* A file that answers a request hangs off what the request is about.
AnswersHang ==
  \A f \in Files : files[f].row /\ files[f].req # None =>
    files[f].parent = requests[files[f].req].about

\* What a call knows from when it was let in: its request is there, an upload's work file
\* is the request's unless it went, the files in hand are the request's while they last.
CallKnows(c) ==
  /\ c.id \in Requests \union {None} /\ c.paths \subseteq Files
  /\ c.op = "none" <=> c.step \in {"idle", "done"}
  /\ c.op \in {"none", "send", "ask", "removeSource"} => c.id = None
  /\ c.op \in {"answer", "cancel", "reopen"} => c.id # None
  /\ c.op = "answer" /\ c.on \in sources \union {Whole} => c.on = requests[c.id].about
  /\ c.op \in {"remove", "reopen"} =>
       \A f \in c.paths : files[f].row => files[f].req = c.id
  /\ c.op = "removeSource" =>
       /\ c.step = "let in" /\ c.on \in Sources
       /\ \A f \in c.paths : files[f].row => files[f].parent = c.on
  /\ c.step \in {"row gone", "unanswered"} => c.op = "remove" /\ c.id # None
  /\ c.step \in {"refreshed", "superseded"} => c.op = "reopen"
  /\ c.step = "superseded" => \A f \in c.paths : ~Standing(f)

CallsKnow ==
  \A a \in Actors :
    /\ CallKnows(calls[a])
    /\ calls[a].op \in {"ask", "cancel", "reopen"} => a \in Office
    /\ calls[a].op = "removeSource" =>
         IF a = Client THEN calls[a].paths = {}
         ELSE HangingOff(calls[a].on) \ calls[a].paths \subseteq hasty

\* Whoever takes the last answer away is about to open the request again.
MendedBy(a, r) ==
  /\ LetInOn(a, r)
  /\ calls[a].step \in {"row gone", "unanswered", "superseded"}

\* A row that leads nowhere answers nothing, or a request that a crash has hurt.
RowsLead ==
  \A f \in Files : files[f].row /\ ~files[f].blob => files[f].req \in hurt \union {None}

FulfilledOrMended ==
  \A r \in Requests : Fulfilled(r) /\ Current(r) = {} /\ r \notin hurt =>
    \E a \in Actors : MendedBy(a, r)

\* Nobody who may write a cancelled request is left, unless they were let in before.
NobodyOnWithdrawn ==
  \A r \in Requests, a \in Actors :
    requests[r].status = "cancelled" /\ r \notin raced /\ LetInOn(a, r) =>
      calls[a].op = "cancel" \/ (calls[a].op = "remove" /\ calls[a].step # "unanswered")

IInv == TypeOK /\ AnswersHang /\ CallsKnow /\ FulfilledOrMended /\ NobodyOnWithdrawn
        /\ NothingUnreachable /\ RowsLead

\* Whoever is let in to ask finds no twin, but one that may become one.
AskedOnce(r) == requests[r].again \/ r \in hurt \union doubled
AskersKnow ==
  \A a \in Actors : calls[a].op = "ask" /\ calls[a].on \in sources \union {Whole} =>
    \A r \in Twins(calls[a].on) : AskedOnce(r)

-----------------------------------------------------------------------------
\* A page that is up to date offers only what the API accepts; except the bin the
\* client's card shows on any file that stands (the office's, or on a settled project).
Allowed(a, o) ==
  CASE o.op \in Uploads -> MayUpload(a, o.id)
    [] o.op = "cancel" -> Pending(o.id)
    [] o.op = "reopen" -> MayReopen(o.id)
    [] o.op = "remove" -> MayRemove(a, o.id)
    [] o.op = "removeSource" -> MayRemoveSource(o.on)
    [] OTHER -> TRUE
OffersAreHonest ==
  \A a \in Actors : \A o \in Rendered(a) :
    Allowed(a, o) \/ (a = Client /\ o.op = "remove" /\ (Settled \/ ~files[o.id].clients))

\* "Removing the last file reopens the request server-side, which is what brings the
\* upload button back": a client who took back their only answer gets the box again.
TakingBack(r) == calls[Client].op = "remove" /\ r \in Subject(Client)
Settles(r) ==
  \/ crashes > 0 \/ requests[r].status = "cancelled" \/ Current(r) # {}
  \/ due /\ Offer("answer", r, Whole) \in ClientOffers
BoxComesBack ==
  \A r \in 1 .. MaxRows - 1 :
    (r \in Requests /\ TakingBack(r)) ~> (r \in Requests /\ Settles(r))

\* NOT a property of the code: "A request whose answer has been removed is open again by
\* definition".
RemovedIsAskedAgain ==
  \A r \in Requests : Fulfilled(r) /\ AtRest(r) => Current(r) # {} \/ crashes > 0

=============================================================================
