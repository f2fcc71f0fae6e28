# Formal models of the translation office's system

The repository is a translation office's workflow system: a Laravel API
(`src/api`), a Next.js web interface with the office's pages and a public site
(`src/web`), PostgreSQL, Redis with one queue worker, and Gotenberg for PDFs. A
client asks for a quote or sends documents; a project is drafted, published to
translators, claimed, delivered with seals, reviewed, approved, merged onto a
letterhead and billed. This directory holds TLA+ models of the parts where
concurrent requests, the queue worker, cached pages and failures meet, the TLC
configurations that check them, and TLAPS proofs.

Run, in this directory: `tlc -workers 2 -config X.cfg M` and `tlapm M.tla`.
`PROJECT.json` maps every definition to its source lines and lists the runs,
the mutants, the hazards, the finding and the theorems.

## 1. Inventory

Paths are relative to `src/api/app` or, in the second table, to
`src/web/src`.

### The API

| Component | State | Operations | Hard behaviour | What makes it correct |
|---|---|---|---|---|
| Project state machine: `Services/ProjectTransitionService`, `Models/Project` | `projects.status`, `status_transitions` | `transition()`: lock the row, look up the matrix, authorise, require a note | a handler names only its target, so its effect depends on what it finds | only matrix edges; the client's stages only move forward |
| Translator portal: `Services/PortalService` | `assignments`, deliverables in `project_files` | claim, deliver, amend, remove, reads | checks made before the lock, two partial unique indexes behind them | nobody double-booked, rounds intact, deliveries final |
| Project management: `ProjectController` | `projects`, assignments it releases | create, edit, publish, withdraw, cancel, archive, delete, ownership | stale route-bound models | claimed work has a holder and is not deleted; owners are final |
| Drafts and source files: `ProjectFileController`, `ClientPortalController` | `project_files`, `projects.title`, `title_auto`, `created_by` | upload, remove, name, client submissions | no lock at all; large uploads between load and write | ownership, title, frozen sources |
| Review: `ReviewController` | status, review notes, letterhead choice | open, request revision, approve, retry merge, previews | dispatch after commit | every approval is answered |
| Final merge: `Jobs/MergeFinalFileJob`, `Services/DocumentMergeService` | finals in `project_files`, blobs, `merge_error`, `merge_attempts` | job handle, `failed()` | dies between any two writes; redelivery; retry beside a running job | completed means one whole set, never rewritten |
| Word counts: `Jobs/CountWordsJob`, `files:recount`, `Project::refreshTotals` | counts per file, cached totals | job, manual count, removal, recount | stale copies, column-wise writes, two attempts | a typed number stays; files do not stay "processing"; totals add up |
| Invoices: `InvoiceController`, `InvoiceNumberGenerator` | `invoices`, `projects.invoice_id`, `invoice_counters`, stored PDFs | issue, correct | READ COMMITTED row locks, rollback after an external write | billed once, marks match line items, no gap in the numbers |
| Document requests: `DocumentRequestController`, `Models/DocumentRequest` | `document_requests`, reference files | ask, answer, reopen, cancel, delete the answer | check-then-create, loaded status, cascades | a fulfilled request has an answer, a cancelled one stays cancelled |
| Quote requests: `QuoteRequestController` | `quote_requests` | submit, price, status, convert, delete | loaded row written back, mail after the save | one project per request, at the price that was mailed |
| Records: clients, users, language pairs, templates, day logs, preferences | one table each, artwork on the disk | create, update, stop, delete | whole-record writes, blob and row apart | an edit is not undone, artwork is there for the merge |
| Sessions: `AuthController`, `ClientAuthController` | tokens of two realms | sign in, out, register, password, profile | suspended accounts | (with the web's half) |
| Deadlines: `projects:scan-deadlines` | `late_notified_at`, `due_soon_notified_at` | scan | notify, then flag | each notice once, to whoever works on it |
| Rendering, counting inside a file, template artwork, reports, exports, project codes, notification centre, activity log | files, aggregates, records | per request | numeric, external or one row | (not modelled, section 6) |

### The web interface

| Component | State | Operations | Hard behaviour | What makes it correct |
|---|---|---|---|---|
| Live screens: board, project page, portal, `components/realtime-provider.tsx` | TanStack Query cache, socket | visit, press, confirm, optimistic removal, reconnect | broadcasts, answers and one's own requests in any order, some lost | a page at rest is true, its buttons are honest, it catches up |
| Sessions: `lib/auth.tsx`, `lib/client-auth.tsx`, `lib/api.ts`, `lib/echo.ts` | two tokens in localStorage, the tab's users, the socket | boot probe, guards, sign-in, sign-out, 401 | two realms in one browser, other tabs, providers unmounted with a probe out | the tab shows whose token it sends; realms apart; guards settle |
| Draft preview, delivery, corrections, approval: `components/portal`, `app/(app)/portal`, `approve-dialog.tsx` | chosen files, placements, dialogs | pick, place, render, upload, confirm, cancel | positions outlive their document; uploads carried out after they were cancelled | every seal on its own document, nothing handed over twice |
| Upload panel: `lib/transfers.tsx` | rows and timers | begin, progress, end, cancel, dismiss | timers outlive pages | no row stays |
| Seal placement: `lib/placement.ts`, `stamp-positioner.tsx`, `Services/PlacementConfig` | offsets in mm from an anchor | drag, clamp, show, draw | two programs compute one place | drawn where it was dropped |
| Record forms: users, pairs, clients, templates, invoices, days, preferences | dialogs over cached records | open, type, save, toggle, delete | a form taken from an old copy | own saves not undone, typing not lost |
| Client's pages, quote pages | forms over a row | request, track, answer, withdraw an answer | lost answers, old pages | (with the API's half) |

How they interact. Controllers and jobs share PostgreSQL tables; the only lock
most of them take is the project row, inside `transition()`. Jobs reach the
worker through Redis after a commit (`dispatch` and `afterCommit`), and the
worker's failures come back as rows (`merge_error`, `count_status`). Files live
on a disk that no transaction covers. Mail and broadcasts are queued and nobody
waits for them. Pages hold cached answers (`staleTime` 30 s, `retry` 1, no
refetch on focus), refreshed by broadcasts over one socket and by what their
own mutations invalidate.

What is hard: reads before locks (route model binding counts as one), Eloquent
writing only the columns that differ from the copy it loaded, several writes
outside a transaction, an external effect inside one, jobs delivered twice or
never, the gap between a commit and the dispatch that should follow it; and in
the browser, copies that a save does not renew, answers older than the change
they arrive after, and requests that succeed after their caller gave up.

## 2. Modules

| Module | Models |
|---|---|
| `Transitions` | the matrix, the roles that satisfy it, the client stages |
| `ClientView` | abstract: what a client may see a project do |
| `Portal`, `MCPortal`, `PortalProofs` | published projects: translators, PMs, review; it implements `ClientView` |
| `Merge`, `MCMerge`, `MergeProofs` | from approval to certified finals: API, queue, worker, job |
| `Intake`, `MCIntake` | one project while it is a draft (proved about in `DocumentsProofs`) |
| `Counting`, `MCCounting`, `CountingProofs` | word counts and the cached total of one project |
| `Billing`, `MCBilling`, `OfficeProofs` | invoices of one client |
| `QueryCache` | one query of the web's cache: fetch, land, fail, invalidate, patch, remove |
| `Screens`, `BrowserProofs` | one browser against one project that others change |
| `Session`, `BrowserProofs` | both sessions of a browser, from one tab |
| `Placement` | where a seal is shown and drawn (proved about in `DeliveryProofs`) |
| `Delivery`, `DeliveryProofs` | draft preview, delivery dialog, uploads and panel, corrections, approval dialog |
| `Documents`, `DocumentsProofs` | the office's requests for documents and the client's answers |
| `Quotes`, `MCQuotes`, `QuotesProofs` | from a request for a price to a project |
| `Forms`, `MCForms`, `OfficeProofs` | seven forms over one record each, in two windows |

`Portal`, `Merge`, `Intake` and `Screens` take the matrix and its `Permitted`
from `Transitions`, so all of them move a project by the same rules; `Screens` and
`Forms` keep their queries as `QueryCache` entries. The `MC` modules add the
symmetry of model values where it is sound: never in a run that checks liveness.

**Portal.** A handler that reads before it locks is two actions. `StartClaim`,
`StartDeliver` and `StartWithdraw` are the reads (`assertNotBusy`,
`currentAssignment`, `activeAssignment`), what they saw is kept in `claiming`,
`delivering` and `withdrawing`, and `Claim`, `Deliver` and `Withdraw` are the
locked sections, which act on the rows as they have become; the `Abort` actions
are the same sections refused. `Claim` states the two partial unique indexes on
`assignments`. Corrections read under the lock and are one action each. `asg`
numbers the assignment rows by `claimed_at`. Deliverables keep their version
(the round) and a name. `Complete` stands for the merge job's transition. The
matrix lets an admin do what a translator or a PM does, and a handler's actor is
chosen only where the matrix tells them apart (`Cancel`).

**Merge.** Nothing in the job is a transaction except the last transition, so
each write is one action and `worker.at` says which is next: `Begin` (status
check, attempt counter), `MergeAll` (all PDFs in memory), `Discard` per old
final, `Put` and `CreateRow` per document, `ClearMerge`, `Complete`, `Notify`.
`Throw`, `Timeout` and `Kill` may strike between any two, as `Faults` allows;
`Failed` and `RecordFailure` are what the job does about it and `Redeliver` is
Redis giving back a job whose worker died, after `retry_after` (the job has one
try, so it then fails). Which queued job is taken next is left open, a superset
of Redis' order. There is one worker (`docker-compose.prod.yml`).

**Intake.** Requests are records in `requests` with what they loaded and use
later: the owner, title and `title_auto` of an edit, `title_auto` and "had
sources" of an upload. `UpdateBy` loads; `Write` writes only the columns that
differ from the loaded ones. `ClaimOwnership` is the conditional UPDATE of
`created_by`. `WithdrawDrafts` says whether somebody calls `withdraw` on a draft:
the API accepts it, the web page offers it only for a claimed project.

**Counting.** `Saved(f, copy, new)` is Eloquent's update: a column is written if
it differs from the copy. The worker's copy, the recount command's copies and
the requests' are separate. `refreshTotals()` is three steps: load the project,
sum the files, write if the sum differs from what was loaded. A count is one of
three numbers: none, the machine's, a typed one. A behaviour has a `mode`, chosen
at its start among `Modes`: `"serial"` (an actor begins when no other is at
work; `files:recount` included), `"overlapping"` (anything, but no `files:recount`)
and `"recounting"` (anything, `files:recount` included). `Owes` says of a file that its
number may be saved and not in the total, because an attempt died in between.

**Billing.** One transaction per browser window, one action per statement, at
READ COMMITTED: `Select` fixes the rows a `SELECT ... FOR UPDATE` or `UPDATE`
will visit, `LockProject` and `Release` visit one row each, wait for its lock
and look at it again. `Seen` is a transaction's own writes over what is
committed. `Create` holds the counter's row to the end of the transaction.
`Rollback` is any failure, the deadlock detector's choice included. The PDF is
stored by `PutPdf` and does not roll back. Two windows may correct one invoice:
`WriteRow` waits for the row and always writes the line items (PostgreSQL's `jsonb`
gives keys back in its own order, so Eloquent finds them changed), and a correction
whose rivals commit after its release has looked for rows is `overtaken`; its invoice
is `mixed` until the next.

**Screens.** `srv` is the project as the API has it; `cache` holds the queries of
the board, the project's page and the portal as `QueryCache` entries; `link` is
the socket; `request` the one request the user has in flight. A change here or
elsewhere sends its broadcast kinds (`Covered` says which queries a kind
invalidates) to a browser that is connected. Fetches read `srv` and land later,
so an answer may be older than a change. `missed` records the queries whose
change nobody announced to this browser or whose announcement it lost: the
property's excuse, and the list of what the pages do not learn. One project, one
request at a time, one change elsewhere or here per behaviour (`MaxChanges`),
from each of the ten statuses.

**Session.** `token` is localStorage, shared with other tabs; `shown`, `loading`
and `probe` are this tab's providers; `socket` the singleton of `lib/echo.ts`;
`owner` and `live` are the API's side. `OtherTab` signs in and out under the tab.
`late` are the requests nobody waits for any more: the client's check when the tab leaves
the website, which is not aborted (`Unmount`), and what a page asked for when its user
goes on (`MoveOn`). Most of their answers are ignored, but a failed check still drops the
token, a 401 still signs the realm out, and a saved profile is still shown (`LateAnswer`).
`crossed` is the only excuse: another tab changed a token under this one, a form was
submitted with a check still out, or a late answer took away or replaced what was there
(`DropLate`, `Held`). Sign-in is atomic at the API, one sign-in or sign-out is out at a
time, staff can be suspended once, a registration is answered as a sign-in, and the
footer's links are left out.

**Placement.** Lengths are whole hundredths of a millimetre. `Moved` is what a drag
stores, `InHand` and `SealRect` what the browser draws of a seal in hand and at rest,
`Normalize` and `ResolveRect` what the merge makes of the position, for each anchor.
No run: the module is definitions, and the theorems are about all their arguments. Templates of no width (fitted into the page by
both sides alike), the page margins of Word files and letterhead areas are left out.

**Delivery.** A position means something on one document only, so a placement is
modelled by the file it was measured on. `draft` is the preview, `staging` the
delivery or correction dialog, `sending` the upload with its row in `panel`,
`rows` what the API has, `pm` the approval dialog in another browser. An upload
can be refused, cancelled, or lose its answer and be carried out later
(`orphans`). One letterhead, preselected; picking and positioning are atomic, seals
chosen at approval and approval itself too; there is a preview only before the first
upload.

**Documents.** Calls of the office and of the client run in the steps their
handlers take, without locks; an upload is a transaction. A row's blob and row
are apart. `Crash` ends a handler between two steps, a removal also between the blobs and
the rows, of one answer or of all that hangs off a work file. Pages are the sets of
buttons `Rendered` from what was last fetched. `raced`, `hurt`, `doubled` and `hasty` are
the requests and files that met one of the divergences of section 4.
There is one kind of document, one call at a time per page, and a call begins where its handler
lets it in, since what it loaded before decides nothing else. In the run one manager does
everything and a second one only asks (`Askers`): asking is what two managers do to each
other without the client; the theorems put no bound on them.

**Quotes.** `quotes` is the table, `pages` what each member of the desk was
last shown, `calls` a handler from its load to its save (`kept` is the loaded row; a
save writes only dirty columns), its mail and its answer. Converting creates the
project in the same transaction. Deleting a project hands the request back. A
request is in `overtaken` once a save wrote over a row that had changed since it
was loaded, in `unsent` if a handler died before its mail.

**Forms.** `family` is one of seven forms; `row` the record, `text` the set of
edits it carries, `on` the switch, `art` the artwork; `page`, `cache`, `form` and
`call` are the two desks'. A form takes the cached copy when it opens (or when its
component mounts, by family), a save replaces the record, then invalidates the
queries that family's `onSaved` names. `behind` marks a form taken while its copy was known to be older than
the user's own saves, `saved` what each user has been told is saved: no code reads either. Edits only add marks, so a record that lost
one shows it. Creation, unchanged forms, failed fetches, lost answers, the
website account and the deletion of clients are left out; a call reaches its handler at
once and nothing is typed into a form being saved.

## 3. Runs

| Run | Shows | Distinct states |
|---|---|---|
| `portal` | two projects, two translators, three requests between read and lock: no double booking (`OneActive`), every status has what it needs behind it (`StatusIsBacked`), deliveries stay on record (`DeliveryIsFinal`), rounds move with deliveries (`RoundsFollowDeliveries`), and the refinement `ClientViewHolds` | 985,707 |
| `merge` | under exceptions, timeouts, dead workers, lost dispatches and lost notices: `CompletedIsCertified`, `CertifiedIsFinal`, and liveness `ApprovalIsAnswered` | 278,008 |
| `intake` | two PMs, the client, two requests in flight: `OwnerIsFinal` | 1,170,763 |
| `counting` | two files, a request, the worker, `files:recount`, faults before and after the save: `TotalsMatch` in serial behaviours, `ManualWins` in all, and liveness `CountSettles` | 834,334 |
| `counting_forced` | finding: `files:recount` overwrites a number typed while it works (`ManualAlwaysWins`) | violation |
| `billing` | three projects, two windows, the same invoice corrected from both, failures at every statement: `BilledOnce`, `BillsMatch`, `NumbersRunOn` | 5,413,248 |
| `screens` | `NotBehind`, `OffersAreHonest`, and liveness `CatchesUp`, from every status | 1,144,883 |
| `session` | `ShownIsOwner`, `RealmsApart`, and liveness `GuardSettles` | 1,658,339 |
| `delivery` | `PlacedOnItsOwn`, `HandedOverOnce`, `ApprovedAsShown`, and liveness `NothingHangs` | 1,373,209 |
| `documents` | `FulfilledIsAnswered`, `OneBoxPerAsk`, `NothingUnreachable`, `WithdrawnStays`, and liveness `BoxComesBack` | 1,888,806 |
| `quotes` | `OneOfEach` (one request per form, one project per request, references for good), `PricesHold` (what was agreed is priced, the price last mailed is the row's and the track page's), `LaneFollowed` | 2,718,414 |
| `forms` | `ArtworkOnDisk`, `FormsUndoNothing`, `TypingSurvives` for seven forms in two windows | 2,800,039 |

`counting`, `screens`, `delivery` and `forms` also check their type invariant; all
type invariants are proved (section 5; `ScreensTypeOK` and `FormsTypeOK` carry the names of their
modules because they share a proof module with another's).

Bounds and why they are enough. The races modelled are between two requests, or
a request and the worker, over one or two rows; a third request in `portal`
lets a withdrawal, a delivery and a claim be stale together. Two translators
and two projects are what double booking takes; two rounds are what it takes
for a correction to reach an earlier one. Two documents leave a merge half way;
three jobs are a dispatch, a retry beside it and a redelivery after both. Two
invoices and three projects let one window move a project off an invoice while
another bills it. `counting` needs two files for a sum to be stale in one of them.
In `session`, three tokens are two sign-ins of one realm beside one of the other,
or one account after another; one late request is enough to meet a newer session. `delivery` has two documents to confuse and two
sends of each, so that one can be repeated; two rounds let an old list meet a
new one. `documents` has three rows for a question, its twin and an answer (or
a second answer), and one death. `quotes` has two requests and two references,
so that a reference could come back, two prices and two pricings, four other
moves, enough to go once round decline and reopen. `forms` has two desks, two
edits each, and three visits, which is a copy, a change and a return to the
copy. `screens` needs one change only: what can be stale is relative to it,
and every status is a start. Numbers, attempts and rows are bounded by `Max...`
constants in the guards, never in the properties. The theorems of section 5 hold
for every value of these constants.

`CHECK_DEADLOCK FALSE` appears where the modelled work ends: all jobs
dispatched, all projects done, all ids drawn, all visits made. `portal` checks
deadlock.

Each property of a passing run has a mutant of the code that breaks it (a
dropped lock, a check on a copy, half of a release, a retry too many), listed in
`PROJECT.json`. The other operators named "Mutant of" beside a definition
break a further part of a property that combines several; each does so under the
same cfg when its definition is replaced by it.

Excuses. Where the code has a race that does break a promise, the property says
so by a history variable (`missed`, `crossed`, `haste`, `raced`, `hurt`,
`hasty`, `overtaken`, `mixed`, `unsent`, `unseen`, `stopper`), set exactly by the step in
which that race happens, so that what is checked is that nothing else breaks it.
Section 4 lists the races.

Assumptions of single runs and what happens without them:

- `merge` excludes the fault `"put"` (a blob the disk refuses).
- `TotalsMatch` speaks of the serial behaviours and of files none of whose counts was
  given up; beside `files:recount`, `counting` has one file only (`MaxRecounted`).

### Fairness

`Merge` and `Counting` assume weak fairness of the requests already accepted
(php-fpm finishes them) and of the worker: the container has
`restart: unless-stopped` and `queue:work` takes jobs as long as there are some,
and Redis redelivers a reserved job after `retry_after`. A fault can strike a job
only as often as its tries allow, so no assumption limits how often the worker
dies. An approval or an upload whose dispatch was lost (`"api"`) is excepted: it
is never answered in the code either. `Screens` assumes that the API answers
what it is asked and that the socket library reconnects (`Arrivals`), and
`CatchesUp` speaks of behaviours in which the user and the link come to rest;
`Session` that requests are answered or fail and that React runs its
effects (`Settle`); `Delivery` that every request ends, in an answer or an error
(the browser sees to that), and that timers fire; `Documents` that the
client's own request runs to its end and is answered, and nothing of the office's. Faults, users and commands are never fair.

## 4. Where code and comments differ

`counting_forced` is the finding `PROJECT.json` lists: `files:recount` writes to rows
it read at its start (`RecountFilesCommand.php:59`, `:131`), and line 25 says "A manual
count always wins, --force included: if someone typed a number for a scan, re-running
this must never replace it with the machine's opinion".

Each of the following came up while modelling, and is a property some module
states (or a property of section 3 under other constants). To see the trace, put it
into the named cfg in place of that cfg's properties, with the changes named. `PC`
is `ProjectController.php`, `PS` `PortalService.php`, `MJ`
`MergeFinalFileJob.php`, `PFC` `ProjectFileController.php`.

| Property, module | cfg and changes | Code and claim |
|---|---|---|
| `CancelUnlocks`, Portal | `Portal.cfg` | cancelling a claimed project leaves its assignment active (PC:262), and the translator locked; docs/02-state-machine.md:70 |
| `AvailableIsUnheld`, Portal | `Portal.cfg` | a withdrawal updates the assignment it read before the lock (PC:215), so one overtaken by a new claim leaves an available project held; docs/02-state-machine.md:66 |
| `DeliveredByAssignee`, Portal | `Portal.cfg` | PS:139 reads the assignment before the lock: a delivery across a withdrawal and a new claim delivers the other's project; docs/02-state-machine.md:51 "assignee only" |
| `RevisionHoldsLock`, Portal | `Portal.cfg` | PS:88 checks before the transaction; docs/02-state-machine.md:67 "revision does not release the translator's lock" |
| `RevisionLocksUntilApproved`, Portal | `Portal.cfg`, `MaxInFlight = 1` | PS:427 frees the translator at the re-delivery; same line "until the revision is delivered and approved" |
| `CompletedIsCertified`, Merge | `Merge.cfg`, `Faults = {"put"}` | a blob the disk refuses is not noticed (MJ:98, `config/filesystems.php:37` `'throw' => false`); docs/02-state-machine.md:68 "Never silently completes" |
| `NoHalfFinishedSet`, Merge | `Merge.cfg`, `Faults = {"throw"}` | the job stops after the first final; MJ:64 "no half-finished set of finals" |
| `FailureStaysApproved`, Merge | `Merge.cfg`, `Faults = {"notify"}` | the notice is inside the try block (MJ:120), so its failure marks a completed project as failed; docs/02-state-machine.md:68 |
| `ApprovedIsInHand`, Merge | `Merge.cfg`, `Faults = {"api"}` | dispatch after commit (`ReviewController.php:186`): approved, no job, no error; the retry button shows only with an error |
| `PublishedIsOwned`, Intake | `Intake.cfg` | a withdrawn draft (PC:217) that lost its owner is published; PC:188 "Every project in the pipeline has an owner" |
| `PublishedHasSource`, Intake | `Intake.cfg`, `WithdrawDrafts = FALSE` | the check of PC:183 is outside the transaction; PC:180 "Requires at least one source file" |
| `SourcesFrozen`, Intake | the same | uploads and removals check a loaded status; `ClientPortalController.php:376` "once published it is frozen, for the office too" |
| `TypedTitleStays`, Intake | the same | PFC:168 trusts the copy's `title_auto`; PFC:142 "no later upload overwrites their wording" |
| `TotalsMatch` without `Serial`, Counting | `Counting.cfg` | two `refreshTotals()` overlap and the slower one writes a stale sum (`Project.php:303`); docs/01-database-schema.md:125 |
| `ManualAlwaysWins`, Counting | `Counting.cfg`, `Modes = {"overlapping"}` | a first attempt that failed after saving opens the manual entry, and the second, which has read the row before, overwrites it (`CountWordsJob.php:40`); `CountWordsJob.php:28` "a manual count already took precedence" |
| `TotalsMatch` without its files that failed, Counting | `Counting.cfg`, `Modes = {"serial"}` | the last attempt may save a number and die before the total (`CountWordsJob.php:63`) |
| `PdfMatchesRow`, Billing | `Billing.cfg` | the PDF is overwritten before the commit (`InvoiceController.php:289`); lines 205-206 "the download can never disagree with the row" |
| `DroppedIsReleased`, Billing | the same | of two corrections of one invoice, the second looks for what to release (`InvoiceController.php:265`) before the first commits, and what that one claimed stays marked on an invoice that no longer lists it, so nobody bills it until a further correction; lines 207-208 "Projects dropped from the invoice are released back to billable in the same transaction" |
| `FailedIssueBurns`, Billing | the same | the upsert rolls back with the issue, so the number comes back; `InvoiceNumberGenerator.php:13` "A failed issue burns its number" (the sequence is the better for it: no gaps) |
| `ReconnectRefetches`, Screens | `Screens.cfg` | after a lost connection the project's page and its timeline are not asked for; `realtime-provider.tsx:117` "refetch everything realtime normally keeps fresh" |
| `OnlyDeadDropped`, Session | `Session.cfg` | a lost answer to the boot probe drops a token the API would take; `auth.tsx:29` "A dead staff token is handled right here by dropping it" |
| `NoStaleDraft`, Delivery | `Delivery.cfg` | a render that was under way lands after the input changed; `draft-preview-dialog.tsx:96` "A stale draft is worse than none" |
| `ListIsTheNewestRound`, Delivery | `Delivery.cfg` | the approval dialog shows the cached list of the round before until the new one arrives; its key `["project", <number>, "approve"]` is not matched by the page's invalidation, which has a string (`approve-dialog.tsx:88`, `projects/[id]/page.tsx:120`); `approve-dialog.tsx:102` "The newest round's deliverables" |
| `RemovedIsAskedAgain`, Documents | `Documents.cfg` | removing a work file takes the answers that hang off it by a cascade, and the request stays fulfilled with nothing; `DocumentRequest.php:150` "is open again by definition" |

Others are excused in the properties by a history variable, so that the
property shows they are the only ones:

- Documents. A client who removes a work file removes its own blob only, where the
  office's removal takes the attachments' too (`PFC:219`); an upload that began
  meanwhile leaves a blob nothing leads to. A reopening (`DocumentRequest.php:132-144`)
  whose request was opened by a removal before its `refresh()` finds the status pending; an
  answer that then comes before its update is superseded unseen, the status is not dirty
  and not saved, and the request stays fulfilled with nothing that stands. Two boxes
  for one document: two managers pass the check before either created theirs, which
  neither a lock nor a unique index prevents (`DocumentRequestController.php:47-57`); an
  answered request is reopened while a newer twin is pending; or a
  work file's removal turns both into requests about the whole project. An answer that was let in writes over a
  cancellation and the reverse. The client's card shows a bin on files the API
  will not remove (the office's, or those of a settled project): `OffersAreHonest`.
- Quotes. `convert()` looks only at `project_id`, on the row it loaded, so two
  conversions make two projects, and a status, a price or a deletion loaded
  before a conversion writes over it (`QuoteRequestController.php:131`, against
  docs/03-modules-and-api.md:306). The conversion dialog takes its content when
  it mounts (`convert-dialog.tsx:52`). A declined request can be re-priced, and the
  page its mail links to hides the price. The page offers "client agreed" for
  declined and reviewing requests that have a price, which the API refuses. A
  lost answer makes the visitor send a second request.
- Forms. The language pairs' dialog is not refreshed by its own save: reopened
  within 30 s it shows the old pairs and sends them back, saved before they load it
  replaces all, and two windows' pairs are united or collide. A client edited from
  the list and then from its file starts from the old record. The settings page
  forgets switches flipped while it saves (`settings/page.tsx:32`). The invoice
  dialog drops projects a stale list of billable ones lacks. A form opened while its
  list is on its way keeps what was there. A client's or a template's form holds the switch, so
  a stale one starts again what a colleague stopped (the account's does not send
  it). A template's artwork is deleted before its row: a project approved on it
  meanwhile has none (`LetterheadController.php:104`), and overlapping
  replacements leave a blob nothing leads to. Cards go on showing a replaced artwork.
  A day that was cleared is never saved, and leaving the page with a save
  in flight loses its answer.
- Delivery. An upload that was cancelled or lost its answer may have been carried
  out, and sending the files again adds them twice. `/portal/deliver` names no
  project, so the delivery goes to whatever the translator then holds.
- Screens. The portal offers delivery of work whose project was cancelled. The
  office's page is not told of a claim or of a finished merge.
- Session. The sign-in form can be submitted while the boot probe is out, whose
  late answer then takes the new session away. The client's provider drops the token in a
  `catch` that does not ask whether it is still there (`client-auth.tsx:54`): leave the
  sign-in page for the staff's with a check out, come back, and when that check fails the
  client is shown with no token. A 401 to an older page of the office does the same to a
  new sign-in (`api.ts:88`), and a profile saved late shows its client again after that
  client has signed out (`profile/page.tsx:68`).

## 5. Proofs

`tlapm` checks every leaf. The theorems hold for any number of projects,
translators, files, jobs, PMs, windows, requests, tokens and so on.

**Portal** (`PortalProofs`). `IInv` strengthens the invariants with
`DeliveredStay` (a delivered assignment's project is past delivery or
cancelled) and `InFlightRefers` (a request in flight names a row that exists, a
withdrawal one of its own project). The first is what makes a stale withdrawal
harmless to a delivered row: the matrix has no edge from there back to the
portal. `HandedOverIsBacked` needs that a removal leaves a file in the newest
round, hence the lemmas on `Newest`, the greatest version of a finite set of
rounds. One lemma per action, joined by `TranslatorStepInv` and
`OfficeStepInv`. From `Invariance`: `TypeCorrect`, `NoDoubleBooking`,
`ClaimedIsHeld`, `HandedOverBacked`, `NoClaimedProjectDeleted` and, together,
`EveryStatusBacked`; with one step more `DeliveriesAreFinal`. `RoundsKeepOrder`
adds what a handler does to the files of a project: a delivery's round is one above
the newest (`VersionChosen`, `DeliverOpensRound`), whatever else is deleted, and a
correction leaves every round but the newest as it was, and that one's number
(`RoundKept`, `CorrectionKeepsRound`). `ImplementsClientView`, the refinement, follows from the lemma that every rule of the
matrix moves the client's stage forward or not at all.

**Merge** (`MergeProofs`). `WorkerInv` says, stage by stage, how much of the
set the running attempt has written; `CompletedCertified` follows at
`Complete` because the whole set is then of this attempt. `CertifiedStays`
rests on `OnlyApprovedWritten`: every write of the job is of an approved
project, which holds because nothing but the job itself completes one and
there is one worker. `NoAccumulation` is `FinalsDoNotAccumulate`, which no run
needs any more. The theorems assume `"put" \notin Faults`.

**Intake** (at the end of `DocumentsProofs`, as an instance with the same office and
client). Typing of requests in flight, and that edits and
publications come from PMs, give `OwnerStays`. `PublishedOwned` proves that an
unowned project is never on the portal under `WithdrawDrafts = FALSE`.

**Counting** (`CountingProofs`). `IInv` adds to the types: what each actor at work
holds of its file (`ActorsHold`), that serial actors are alone (`Alone`), that until its
first attempt has saved (`FirstTry`) a file is counting and so the manual entry is shut
(`CountFirst`, `NotTyped`), and that the total is the sum of the files but for an actor on
the way to write it, or a count that died between the two (`Summed`, `Owes`). `TotalsAdd`
and `TypedNumbersStay` follow, in every mode and under every fault: the second says that
who replaces a typed number is `Behind`, a second attempt, one beside `files:recount`, or
that command, and does so only where actors overlap. They rest on `SumAssumption`, two
facts of arithmetic about a sum over a function (of zeros it is zero; it is bounded),
which need induction and which TLC evaluates for the instance.

**Billing** (`OfficeProofs`). An invoice being issued is nobody else's
(`InvoicesApart`); one being corrected may be in several windows. The rows a window has
selected or released are locked by it, and what was committed of them is what it saw
(`RowsHeld`); whatever its invoice bills is among the rows it releases, unless it was
overtaken (`ReleasesAll`). Then what is listed is marked at every commit, and the reverse
but for the `mixed` invoices (`MarksAgree`); listed projects being marked on one invoice
only, `NoDoubleBilling` follows. `NoGaps` needs that the counter's row stays locked from
the upsert to the end.

**Session** (`BrowserProofs`). A check is out exactly while its provider is loading, for the
token that is stored, and nobody is shown meanwhile (`ProbeInv`); sign-ins start with no check
out, or the tab is `crossed` (`SignInInv`); a page's request waits where it was asked
(`PageKinds`, `PageInv`); a visitor of the site whose provider has settled on nobody has no
token (`VisitorInv`); a socket is somebody's and was opened with a token (`SocketInv`). A
late answer changes what these are about only by setting `crossed` (`LateInv`). From
these `NobodyElseShown`, and step by step `SessionsApart`, for any accounts, tokens and page loads.

**Screens** (in `BrowserProofs`). `NotBehind` is about pages at rest, so the invariant says
of every query what it can know. `CacheSound`: an unflagged entry, and an answer on its
way, say what the project is, unless news of it is still to come (`Expected`) or was
missed; one that is flagged or being asked for may say anything; queries of pages the user
does not have, and the one of a deleted project, hold nothing. `AnnouncedIs`: a change that is announced is announced to every query it shows in.
`RowSound` says of the project what every change keeps: only claimed or cancelled work
is active, drafts and published work are nobody's. Four lemmas
carry it over the steps, one for each way a step can touch the cache: not at all
(`QuietInv`), by a change of the project (`ChangeInv`), by flags and fetches (`RenewInv`),
at one entry (`EntryInv`). `PagesKeepUp` is what is left of `CacheSound` at rest;
`OffersHonest` reads the buttons of a true page against the matrix, row by row.

**Delivery** (`DeliveryProofs`). A position is right when it was measured on the
document it is used for, so every place that carries one is in the invariant: the
preview and what is under way (`UnderWayPlaced`), what the PM moved
(`EditsPlaced`), and the PM's list, whose rows keep their file under their id
(`IdsApart`). `SealsOnTheirOwn` follows, its last part from `RendersOfForm`: what is
being rendered is the form as it is, unless an input was changed meanwhile.
`OneHandover` rests on `OneUploadEach`: a dialog that can be confirmed has not had its
files accepted, and a new pick has a new number. `ApprovedIsShown` rests on
`ReviewStands`: files stand still while a review is open, so a list loaded in it is the
list approved. What is where changes in three parts that seldom meet (the draft, the
uploads, the review), hence the frame lemmas.

**Placement** (in `DeliveryProofs`). `NeverLost`: however a seal is dragged, some of it
stays on the sheet. `InsideIsFree`: a place inside the sheet is not moved.
`DrawnWhereDropped`: the merge draws a seal where it was dropped, at its size, on the
pages chosen. `AtRestAgree`: a seal at rest is shown where it is drawn, from every anchor.

**Documents** (`DocumentsProofs`). No handler locks, so the invariant says what a call
still knows when it writes (`CallKnows`): its request is there, the files it has in hand
are that request's while they last, an upload's work file is the request's unless it
went. A file that answers a request hangs off what the request is about (`AnswersHang`),
which is why a work file's removal finds them. `FulfilledOrMended` says who is about to
open a request whose last answer went, from which `AnswersHold`; `NobodyOnWithdrawn`
that whoever may still write a cancelled request was let in before, from which
`WithdrawnStay`. That nothing a step of one call does takes from another what it knows
is one lemma (`KnowsStill`, from `RowsGoOn`: rows stay, what is gone does not come
back); `StepInv` leaves of each handler only its own call and its own rows to look at.
`OneBox` holds for any number of managers, since what turns up between the check and the
create of an ask was made while that ask was let in (`AskersKnow`) and is excused by name:
what is left says that asking for something while it is open is refused, whatever happened
to the first request meanwhile. A file that stands is on the disk (`RowsLead`). `NothingLost` is
part of the invariant. Foreign keys and types: `DocumentsTypeCorrect`.

**Quotes** (`QuotesProofs`). Rows only move on, in a partial order of what they
have been (`NotBefore`), and a call in flight holds a row that was there
and passed its check (`CallSound`); pages show rows that were (`PagesSound`); a
row, a project and a mail have their price (`RowsPriced`, `ProjectsPriced`,
`MailsMatch`). A save whose row is still as loaded
is then as good as a locked one, and one whose row is not puts the request among the
`overtaken`. From these `OneProjectEach`, `PricesAreHeld` and, as a step property, `StaysInLane`.

**Forms** (in `OfficeProofs`). A cached copy, a form and a request in flight each hold
some earlier state of the record, and the invariant says which. What a desk was told is saved is still
on record (`saved[d] \subseteq row.text` in `KeepsSaved`); a copy that an own save has
renewed since says as much (`CopiesKeepOwn`, `PairsKeepOwn`), so does a form taken from it and
a request sent from that form (`ContentKeepsOwn`), and a copy of a record this user
stopped says that it is off. Then `NothingUndone` is what a handler makes of content that
says so, family by family. `ArtworkThere` needs that no two requests share an artwork and that
none has stored the one another has loaded (`ArtSound`). For days, an edit that is typed and not saved
is in nobody else's hands (`Fresh`), so a save that overwrites another's brings something the
other desk has never seen (`News`): a month that comes back to a desk
whose save is under way has that save, or such news (`Pending`), which is `TypingStays`.
Frame lemmas say what one desk's step leaves the others (`StaysPut`, `Brings`).

Only model-checked: the liveness properties
(fairness and ENABLED are out of the prover's reach); and every finding. No module
with a theorem uses a RECURSIVE operator.

The inductive invariants of `Delivery`, `Documents`, `Screens` and `Forms` were checked by TLC on the
instances of their runs before they were proved, that of `Documents` with two managers who do
everything as well (11,586,060 states where no handler dies; with one that dies, on two rows), that of `Screens` with two changes. `TypingSurvives` had to be restated: its excuse, an edit
another window still has in hand, fails with three saves, when that window's edit has in turn been
overwritten; what is true is that the month brings an edit this desk has never seen. Two models were mended by their proof: where two arms of
a CASE hold at once TLC takes the first and a prover may not (the failure of an upload in
`Delivery`, the removal of a file in `Documents`).

Three further properties hold on the instances and are in no run:
`Documents!OffersAreHonest`, `Quotes!OffersAreHonest` (an up-to-date page offers
only what the API accepts, but for what section 4 lists) and `Forms!OwnSavesShown`.

## 6. Not modelled, and why

- Deadline scanner: it needs a clock. It notifies and then flags, so a death between
  the two notifies twice (`ScanDeadlinesCommand.php:37`).
- Rendering the certified PDF, counting inside a document, template artwork:
  external programs and numeric code on pixels; abstracted to their outcome.
- Reports, dashboards and exports, activity log: aggregating reads, and a record a package writes.
- Project codes: the same upsert as the invoice numbers. Roles and languages: seeded
  data; the roles are constants of `Transitions`.
- Notification centre: messages nobody waits for; `Merge` has the one whose failure matters,
  `Quotes` the mail of a price, `Screens` the broadcasts.
- Public site and design system: no state that outlives a render. Deployment: in the worker's
  restart, timeout and `retry_after` of `Merge` and `Counting`.

Within the modelled parts: which letterhead is used, amounts, pages, notes,
currencies, wording and filters are data no property tells apart; `work_seconds`, delivered
totals (the same pattern as the source total), the client record and the copied
attachments of a conversion, and permissions beyond the seeded roles are left out.
`Portal` and `Merge` meet only in the approval and the completion: `Portal` completes
an approved project at any time, `Merge` starts from an open review. `Delivery` models the
round that is approved, `Merge` a set of documents of one size: that they are the same is
`latestRound`, not stated.

## 7. What is left

1. The scanner against a coarse clock, with a death between notice and flag.
2. `Portal` and `Merge` composed: the round that was approved is the one certified.
3. Proofs: `Forms!OwnSavesShown`, which needs of the preferences' patched copy what the
   invariant says of the other families' copies.
4. Creation in `Forms`, two managers who both answer, reject and remove in the run of `Documents`, two translators' portals in `Screens`.
