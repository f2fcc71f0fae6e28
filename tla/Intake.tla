------------------------------- MODULE Intake -------------------------------
(***************************************************************************)
(* A project while it is a draft: who owns it, what it is called and which *)
(* documents it is made of, from its creation by the office or the client  *)
(* to its publication.  ProjectController, ProjectFileController and       *)
(* ClientPortalController change the same row and the same files, and none *)
(* of them locks the project except to change its status: a request works  *)
(* on the row it loaded, and another one may commit between its steps.     *)
(* What becomes of a published project is modelled in Portal.              *)
(***************************************************************************)
EXTENDS Naturals, FiniteSets, Transitions

CONSTANTS
  PMs,             \* project managers
  Client,          \* the client whose project it may be
  Nobody,          \* created_by of a project no PM has taken yet
  MaxFiles,        \* bound: source files ever attached
  MaxRequests,     \* bound: requests in flight
  WithdrawDrafts   \* the office also calls withdraw on a draft, which the API accepts
                   \* and the web offers only on a claimed project

ASSUME NobodyAssumption == Nobody \notin PMs
ASSUME ClientAssumption == Client \notin PMs
ASSUME WithdrawAssumption == WithdrawDrafts \in BOOLEAN

VARIABLES
  status,          \* projects.status, "none" before the project exists
  deleted,         \* projects.deleted_at is set
  owner,           \* projects.created_by
  submitted,       \* projects.client_submitted
  title,           \* projects.title: the code, a file's name or words a PM typed
  auto,            \* projects.title_auto
  sources,         \* the source files: id, and who sent it
  requests         \* requests between two of their steps

vars == <<status, deleted, owner, submitted, title, auto, sources, requests>>

Files     == 1..MaxFiles
Senders   == PMs \union {Client}
Source    == [id : Files, by : Senders]
Published == status \notin {"none", "draft", "cancelled"}

\* A request and what it has loaded of the row that it still uses later.
Request(kind, by) ==
  [kind |-> kind, at |-> "loaded", by |-> by, owner |-> Nobody, title |-> "code",
   auto |-> FALSE, had |-> FALSE, file |-> 0]
UpdateBy(pm)    == [Request("update", pm) EXCEPT !.owner = owner, !.title = title, !.auto = auto]
UploadBy(by)    == [Request("upload", by) EXCEPT !.auto = auto]
RemoveBy(by, s) == [Request("remove", by) EXCEPT !.file = s.id]

Take(r) ==
  /\ Cardinality(requests) < MaxRequests
  /\ requests' = requests \union {r}

Drop(r) == requests' = requests \ {r}

\* The request goes on, from the record it was to the one it is now.
GoOn(r, next) == requests' = (requests \ {r}) \union {next}

\* A row of the batch just uploaded; ids are never reused.
NewSource(by) ==
  \E f \in Files :
    /\ \A s \in sources : s.id < f
    /\ sources' = sources \union {[id |-> f, by |-> by]}

-----------------------------------------------------------------------------
(* Creation.                                                               *)

\* What the office's form for a new project sends: a name, or none.
OfficeForm ==
  \/ title' = "typed" /\ auto' = FALSE
  \/ title' = "code" /\ auto' = TRUE

\* The client's: the documents, without which it sends nothing, and a name or none.
ClientForm ==
  /\ NewSource(Client)
  /\ \/ title' = "typed" /\ auto' = FALSE
     \/ title' \in {"file", "code"} /\ auto' = TRUE

\* store(): named by the PM, or after its own code until a file names it.
Store(pm) ==
  /\ status = "none"
  /\ status' = "draft"
  /\ owner' = pm
  /\ OfficeForm
  /\ UNCHANGED <<deleted, submitted, sources, requests>>

\* storeProject(): the client's own draft, owned by nobody, with its documents, the
\* first of which names it (unless its name is blank): one transaction.
StoreProject ==
  /\ status = "none"
  /\ status' = "draft"
  /\ submitted' = TRUE
  /\ ClientForm
  /\ UNCHANGED <<deleted, owner, requests>>

-----------------------------------------------------------------------------
(* Editing the draft and taking it on.                                     *)

StartUpdate(pm) ==
  /\ status = "draft" /\ ~deleted
  /\ Take(UpdateBy(pm))
  /\ UNCHANGED <<status, deleted, owner, submitted, title, auto, sources>>

\* Eloquent writes the columns that differ from the ones it loaded.
Write(r, newTitle, newAuto) ==
  /\ title' = IF newTitle = r.title THEN title ELSE newTitle
  /\ auto'  = IF newAuto = r.auto THEN auto ELSE newAuto

\* update(): new words, the title as it was loaded, a blank one, or none at all.
Update(r) ==
  /\ r \in requests /\ r.kind = "update" /\ r.at = "loaded"
  /\ \/ title' = "typed" /\ auto' = IF r.auto THEN FALSE ELSE auto
     \/ Write(r, r.title, FALSE)
     \/ Write(r, "code", TRUE)
     \/ UNCHANGED <<title, auto>>
  /\ GoOn(r, [r EXCEPT !.at = "own"])
  /\ UNCHANGED <<status, deleted, owner, submitted, sources>>

\* Mutant of ClaimOwnership: decided on the copy this request loaded.
ClaimOwnershipOfCopy(loaded, pm) ==
  owner' = IF loaded = Nobody /\ ~deleted THEN pm ELSE owner

\* claimOwnership(): a PM whose copy has no owner takes the row if it has none still.
ClaimOwnership(loaded, pm) ==
  owner' = IF loaded = Nobody /\ owner = Nobody /\ ~deleted THEN pm ELSE owner

Own(r) ==
  /\ r \in requests /\ r.kind = "update" /\ r.at = "own"
  /\ ClaimOwnership(r.owner, r.by)
  /\ Drop(r)
  /\ UNCHANGED <<status, deleted, submitted, title, auto, sources>>

-----------------------------------------------------------------------------
(* Leaving the draft.                                                      *)

StartPublish(pm) ==
  /\ status # "none" /\ ~deleted
  /\ sources # {}
  /\ Take(Request("publish", pm))
  /\ UNCHANGED <<status, deleted, owner, submitted, title, auto, sources>>

Accepted(to, noted) == ~deleted /\ Permitted(status, to, "project_manager", noted)

\* publish(): the transition and the ownership, under the project's lock.
Publish(r) ==
  /\ r \in requests /\ r.kind = "publish"
  /\ Accepted("available", FALSE)
  /\ status' = "available"
  /\ ClaimOwnership(owner, r.by)
  /\ Drop(r)
  /\ UNCHANGED <<deleted, submitted, title, auto, sources>>

AbortPublish(r) ==
  /\ r \in requests /\ r.kind = "publish"
  /\ ~Accepted("available", FALSE)
  /\ Drop(r)
  /\ UNCHANGED <<status, deleted, owner, submitted, title, auto, sources>>

\* withdraw() asks for the same transition, and reads neither files nor owner.
Withdraw ==
  /\ WithdrawDrafts
  /\ status = "draft"
  /\ Accepted("available", TRUE)
  /\ status' = "available"
  /\ UNCHANGED <<deleted, owner, submitted, title, auto, sources, requests>>

Cancel ==
  /\ Accepted("cancelled", TRUE)
  /\ status' = "cancelled"
  /\ UNCHANGED <<deleted, owner, submitted, title, auto, sources, requests>>

\* destroy(): a project no translator ever held.
Destroy ==
  /\ status # "none" /\ ~deleted
  /\ deleted' = TRUE
  /\ UNCHANGED <<status, owner, submitted, title, auto, sources, requests>>

-----------------------------------------------------------------------------
(* Source files.                                                           *)

\* The draft check, on the row as loaded; the client's also needs their own draft.
StartUpload(by) ==
  /\ status = "draft" /\ ~deleted
  /\ by = Client => submitted
  /\ Take(UploadBy(by))
  /\ UNCHANGED <<status, deleted, owner, submitted, title, auto, sources>>

ReadSources(r) ==
  /\ r \in requests /\ r.kind = "upload" /\ r.at = "loaded"
  /\ GoOn(r, [r EXCEPT !.at = "read", !.had = (sources # {})])
  /\ UNCHANGED <<status, deleted, owner, submitted, title, auto, sources>>

\* Mutant of Name: a blank file name is not looked for.
NameBlank(r) ==
  \/ ~r.had /\ r.auto /\ title' \in {"file", ""}
  \/ UNCHANGED title

\* The first source names a project whose name is the system's to set: the title
\* alone is written, and only if the file's name is not blank.
Name(r) ==
  \/ ~r.had /\ r.auto /\ title' = "file"
  \/ UNCHANGED title

\* The office's upload commits its rows, then names the project.
InsertSource(r) ==
  /\ r \in requests /\ r.kind = "upload" /\ r.at = "read" /\ r.by \in PMs
  /\ NewSource(r.by)
  /\ GoOn(r, [r EXCEPT !.at = "stored"])
  /\ UNCHANGED <<status, deleted, owner, submitted, title, auto>>

NameProject(r) ==
  /\ r \in requests /\ r.kind = "upload" /\ r.at = "stored"
  /\ Name(r)
  /\ Drop(r)
  /\ UNCHANGED <<status, deleted, owner, submitted, auto, sources>>

\* addSources(): the client's upload does both in one transaction.
AddSources(r) ==
  /\ r \in requests /\ r.kind = "upload" /\ r.at = "read" /\ r.by = Client
  /\ NewSource(Client)
  /\ Name(r)
  /\ Drop(r)
  /\ UNCHANGED <<status, deleted, owner, submitted, auto>>

\* destroy() and destroyFile(): on a draft as loaded; the client only what they sent.
StartRemove(by, s) ==
  /\ status = "draft" /\ ~deleted
  /\ by = Client => submitted /\ s.by = Client
  /\ Take(RemoveBy(by, s))
  /\ UNCHANGED <<status, deleted, owner, submitted, title, auto, sources>>

Remove(r) ==
  /\ r \in requests /\ r.kind = "remove"
  /\ sources' = {s \in sources : s.id # r.file}
  /\ Drop(r)
  /\ UNCHANGED <<status, deleted, owner, submitted, title, auto>>

-----------------------------------------------------------------------------
Init ==
  /\ status = "none"
  /\ deleted = FALSE
  /\ owner = Nobody
  /\ submitted = FALSE
  /\ title = "code"
  /\ auto = TRUE
  /\ sources = {}
  /\ requests = {}

Next ==
  \/ \E pm \in PMs : Store(pm) \/ StartUpdate(pm) \/ StartPublish(pm)
  \/ StoreProject \/ Withdraw \/ Cancel \/ Destroy
  \/ \E by \in Senders : StartUpload(by) \/ \E s \in sources : StartRemove(by, s)
  \/ \E r \in requests :
       \/ Update(r) \/ Own(r)
       \/ Publish(r) \/ AbortPublish(r)
       \/ ReadSources(r) \/ InsertSource(r) \/ NameProject(r) \/ AddSources(r)
       \/ Remove(r)

Spec == Init /\ [][Next]_vars

-----------------------------------------------------------------------------
(* Type invariant.                                                         *)

Titles == {"code", "file", "typed"}
Owners == PMs \union {Nobody}

RequestRow ==
  [kind : {"update", "publish", "upload", "remove"},
   at : {"loaded", "own", "read", "stored"}, by : Senders, owner : Owners,
   title : Titles, auto : BOOLEAN, had : BOOLEAN, file : Files \union {0}]

TypeOK ==
  /\ status \in {"none", "draft", "available", "cancelled"}
  /\ deleted \in BOOLEAN
  /\ owner \in Owners
  /\ submitted \in BOOLEAN
  /\ title \in Titles
  /\ auto \in BOOLEAN
  /\ sources \subseteq Source
  /\ requests \subseteq RequestRow

(* Safety.                                                                 *)

\* "Two PMs acting at once both loaded NULL, and only the first write may land": a
\* project that has an owner keeps them, whatever requests are in flight.
OwnerIsFinal ==
  [][owner # Nobody => owner' = owner]_vars

\* "Every project in the pipeline has an owner": nobody is left unnotified of a
\* client's submission that went to the translators unedited.
PublishedIsOwned ==
  Published => owner # Nobody

(* Why they hold: the inductive invariant.                                 *)

\* Whoever may come to own the project by a request in flight is a PM.
OfficeRequests ==
  \A r \in requests : r.kind \in {"update", "publish"} => r.by \in PMs

\* Store() gives an owner to a project that had none, and nobody is working on.
UnbornUnowned == status = "none" => owner = Nobody /\ requests = {}

IInv == TypeOK /\ OfficeRequests /\ UnbornUnowned

-----------------------------------------------------------------------------
(* What the comments say and the code does not do.                         *)

\* "draft -> available. Requires at least one source file."
PublishedHasSource == Published => sources # {}

\* "Work files only while drafting", "after publication they are frozen for the
\* office too".
SourcesFrozen ==
  [][Published => sources' = sources]_vars

\* "A PM who types a name owns it, and no later upload overwrites their wording."
TypedTitleStays ==
  [][title = "typed" => title' # "file"]_vars
=============================================================================
