------------------------------- MODULE Quotes -------------------------------
(***************************************************************************)
(* A visitor asks for a price on the public site and gets a reference; the *)
(* office prices the request, records that the client agreed, and turns it *)
(* into a project: "the single bridge between the public module and the    *)
(* operational one".  The accountant and the manager have the request's    *)
(* page open at once, each showing the row as it was when last fetched.    *)
(* The API loads the row, checks it and writes it back, without a lock; a  *)
(* save writes only the columns it finds dirty.                            *)
(***************************************************************************)
EXTENDS Naturals, Sequences, FiniteSets

CONSTANTS
  Desk,         \* staff with quotes.manage
  Converters,   \* of them, those with quotes.convert
  Visitors,     \* visitors with the request form open
  References,   \* tracking references
  Prices,       \* what the office may ask
  MaxRequests, MaxProjects,   \* bounds: rows
  MaxMoves, MaxPricings,   \* bounds: calls of the office let in, and of them the pricings
  MaxLost       \* bound: answers lost and handlers that die

ASSUME DeskAssumption   == Converters \subseteq Desk
ASSUME PriceAssumption  == Prices \subseteq Nat \ {0}
ASSUME BoundsAssumption == {MaxRequests, MaxProjects, MaxMoves, MaxPricings, MaxLost} \subseteq Nat

VARIABLES
  quotes,      \* rows of quote_requests
  projects,    \* rows of projects that a request became
  calls,       \* API: the request each member of the desk has in flight
  pages,       \* web: the quote page of each
  forms,       \* web: the request form of each visitor
  mailed,      \* history: the price last mailed for each request, 0 for none
  unsent,      \* history: requests whose price was changed without a mail
  overtaken,   \* history: requests written by a call whose row had changed since it was loaded
  unanswered,  \* history: requests whose visitor never got the answer
  moves, pricings, lost \* counters of the bounds

rows == <<quotes, projects>>
hist == <<mailed, unsent, overtaken, unanswered>>
vars == <<rows, calls, pages, forms, hist, moves, pricings, lost>>

None == 0
Requests == DOMAIN quotes
Projects == DOMAIN projects

-----------------------------------------------------------------------------
(* Rows.                                                                   *)

Statuses == {"new", "reviewing", "quoted", "accepted", "declined", "converted"}

\* QUOTED_STATUSES and hasQuote().
QuotedStatuses == {"quoted", "accepted", "converted"}
HasQuote(q) == q.status \in QuotedStatuses /\ q.answered

Row(ref) ==
  [ref |-> ref, status |-> "new", price |-> None, answered |-> FALSE, project |-> None, deleted |-> FALSE]

\* QuoteReferenceGenerator::next(): deleted requests keep theirs.
UsedStanding == {quotes[i].ref : i \in {i \in Requests : ~quotes[i].deleted}}   \* Mutant of Used
Used == {quotes[i].ref : i \in Requests}

-----------------------------------------------------------------------------
(* The visitor: RequestForm, its receipt, and PublicQuoteRequestController.*)

OfficeUnchanged == UNCHANGED <<projects, calls, pages, mailed, unsent, overtaken, moves, pricings>>

\* The button is dead while a submission is out, and the receipt replaces the form.
SubmittableAlways(v) == forms[v].at \in {"open", "receipt"}   \* Mutant of Submittable
Submittable(v) == forms[v].at = "open"

Form(at, request) == [at |-> at, request |-> request]

Submit(v) ==
  /\ Submittable(v)
  /\ forms' = [forms EXCEPT ![v] = Form("sending", None)]
  /\ UNCHANGED <<quotes, unanswered, lost>> /\ OfficeUnchanged

\* store(): the row, its files and its reference in one transaction.
Store(v) ==
  /\ forms[v].at = "sending" /\ Len(quotes) < MaxRequests
  /\ \E ref \in References \ Used : quotes' = Append(quotes, Row(ref))
  /\ mailed' = Append(mailed, None)
  /\ forms' = [forms EXCEPT ![v] = Form("stored", Len(quotes) + 1)]
  /\ UNCHANGED <<projects, calls, pages, unsent, overtaken, unanswered, moves, pricings, lost>>

\* onSubmitted: the panel with the reference.
Receipt(v) ==
  /\ forms[v].at = "stored"
  /\ forms' = [forms EXCEPT ![v] = Form("receipt", forms[v].request)]
  /\ UNCHANGED <<quotes, unanswered, lost>> /\ OfficeUnchanged

\* The answer is lost, or the visitor cancels once the API has it all: the form is as
\* it was, to be sent again.
LoseReceipt(v) ==
  /\ forms[v].at = "stored" /\ lost < MaxLost
  /\ lost' = lost + 1
  /\ forms' = [forms EXCEPT ![v] = Form("open", None)]
  /\ unanswered' = unanswered \union {forms[v].request}
  /\ UNCHANGED quotes /\ OfficeUnchanged

\* show(), the page behind the reference: the price, once there is an answer to show.
Tracked(i) == IF ~quotes[i].deleted /\ HasQuote(quotes[i]) THEN quotes[i].price ELSE None

-----------------------------------------------------------------------------
(* The quote page of the office.                                           *)

Shown(q) == [status |-> q.status, answered |-> q.answered]

Closed == [on |-> None, shown |-> Shown(Row(None)), seed |-> None]
Fresh(s) == pages[s].on # None /\ pages[s].shown = Shown(quotes[pages[s].on])

Call(op, id, price, notify, step) ==
  [op |-> op, id |-> id, price |-> price, notify |-> notify, step |-> step,
   kept |-> IF step = "let in" THEN quotes[id] ELSE Row(None)]
Idle == Call("none", None, None, FALSE, "idle")
Free(s) == calls[s] = Idle

\* The page mounts with the row, and ConvertDialog's form with the row's price.  Coming
\* back to a page left earlier is a visit too.
Visit(s, i) ==
  /\ Free(s) /\ ~quotes[i].deleted /\ (pages[s].on = i => ~Fresh(s) \/ pages[s].seed # quotes[i].price)
  /\ pages' = [pages EXCEPT ![s] =
       [on |-> i, shown |-> Shown(quotes[i]), seed |-> quotes[i].price]]
  /\ UNCHANGED <<rows, calls, hist, forms, moves, pricings, lost>>

\* The buttons of the page, and none of them once the request is converted.
Buttons(s, q) ==
  {"respond", "delete"}
  \union (IF q.status \in {"new", "declined"} THEN {"reviewing"} ELSE {})
  \union (IF q.answered /\ q.status # "accepted" THEN {"accepted"} ELSE {})
  \union (IF q.status # "declined" THEN {"declined"} ELSE {})
  \union (IF q.status = "accepted" /\ s \in Converters THEN {"convert"} ELSE {})

OfferedAgain(s) == IF pages[s].on = None THEN {} ELSE Buttons(s, pages[s].shown)   \* Mutant of Offered
Offered(s) ==
  IF pages[s].on = None \/ pages[s].shown.status = "converted" THEN {} ELSE Buttons(s, pages[s].shown)

-----------------------------------------------------------------------------
(* The API of the office.  A call begins where its handler lets it in.     *)

MayMove(q, to) == q.status # "converted" /\ (to = "accepted" => HasQuote(q))
MayRespond(q) == q.status # "converted"
MayConvert(q) == q.project = None
MayDeleteAny(q) == TRUE                                       \* Mutant of MayDelete
MayDelete(q) == q.project = None

LetIn(s, op, price, notify) ==
  /\ Free(s) /\ pages[s].on # None /\ moves < MaxMoves
  /\ ~quotes[pages[s].on].deleted
  /\ moves' = moves + 1
  /\ calls' = [calls EXCEPT ![s] = Call(op, pages[s].on, price, notify, "let in")]
  /\ pricings' = IF op = "respond" THEN pricings + 1 ELSE pricings
  /\ UNCHANGED <<rows, pages, forms, hist, lost>>

Moves == {"reviewing", "accepted", "declined"}
PressMove(s) ==
  \E to \in Offered(s) \intersect Moves :
    MayMove(quotes[pages[s].on], to) /\ LetIn(s, to, None, FALSE)

PressDelete(s) ==
  /\ "delete" \in Offered(s)
  /\ MayDelete(quotes[pages[s].on]) /\ LetIn(s, "delete", None, FALSE)

PressRespond(s) ==
  /\ "respond" \in Offered(s) /\ pricings < MaxPricings
  /\ MayRespond(quotes[pages[s].on])
  /\ \E p \in Prices, notify \in BOOLEAN : LetIn(s, "respond", p, notify)

\* The form's price is left as it was seeded.
PressConvert(s) ==
  /\ "convert" \in Offered(s)
  /\ MayConvert(quotes[pages[s].on])
  /\ LetIn(s, "convert", pages[s].seed, FALSE)

At(s, ops, step) == calls[s].op \in ops /\ calls[s].step = step

\* The handler is through.  Its answer arrives and the page is left behind, or invalidated
\* and fetched again; or it is lost: a toast, and the page stays.  The form of ConvertDialog
\* stays as it is.
Answer(s) ==
  /\ calls' = [calls EXCEPT ![s] = Idle]
  /\ \/ /\ pages' = [pages EXCEPT ![s] =
               IF calls[s].op \in {"convert", "delete"} THEN Closed
               ELSE [@ EXCEPT !.shown = Shown(quotes'[calls[s].id])]]
        /\ UNCHANGED lost
     \/ lost < MaxLost /\ lost' = lost + 1 /\ UNCHANGED pages

\* A save on a row that is no longer the one loaded.
Overtakes(s) ==
  overtaken' = IF calls[s].kept = quotes[calls[s].id] THEN overtaken ELSE overtaken \union {calls[s].id}

\* Eloquent writes the columns that differ from what was loaded.
Written(s, status, price, answered) ==
  LET c == calls[s]
      q == quotes[c.id]
  IN  [q EXCEPT !.status = IF status = c.kept.status THEN @ ELSE status,
                !.price = IF price = c.kept.price THEN @ ELSE price,
                !.answered = IF answered THEN TRUE ELSE @]

\* updateStatus()
SaveMove(s) ==
  /\ At(s, Moves, "let in")
  /\ quotes' = [quotes EXCEPT ![calls[s].id] = Written(s, calls[s].op, calls[s].kept.price, FALSE)]
  /\ Overtakes(s) /\ Answer(s)
  /\ UNCHANGED <<projects, forms, mailed, unsent, unanswered, moves, pricings>>

\* respond(): an accepted or declined request keeps its standing.
RepricedQuoted(status) == "quoted"                            \* Mutant of Repriced
Repriced(status) == IF status \in {"accepted", "declined"} THEN status ELSE "quoted"

SaveRespond(s) ==
  /\ At(s, {"respond"}, "let in")
  /\ LET c == calls[s]
     IN  /\ quotes' = [quotes EXCEPT ![c.id] = Written(s, Repriced(c.kept.status), c.price, TRUE)]
         /\ IF c.notify
              THEN /\ calls' = [calls EXCEPT ![s] = Call(c.op, c.id, c.price, TRUE, "saved")]
                   /\ UNCHANGED <<pages, unsent, lost>>
              ELSE Answer(s) /\ unsent' = unsent \union {c.id}
  /\ Overtakes(s)
  /\ UNCHANGED <<projects, forms, mailed, unanswered, moves, pricings>>

\* The mail goes out after the save, with the price that fresh() reads.
MailPriceKept(c) == c.price                                   \* Mutant of MailPrice
MailPrice(c) == quotes[c.id].price

Notify(s) ==
  /\ At(s, {"respond"}, "saved")
  /\ UNCHANGED rows
  /\ mailed' = [mailed EXCEPT ![calls[s].id] = MailPrice(calls[s])]
  /\ unsent' = unsent \ {calls[s].id}
  /\ Answer(s)
  /\ UNCHANGED <<forms, overtaken, unanswered, moves, pricings>>

\* The handler dies before the mail.
Die(s) ==
  /\ At(s, {"respond"}, "saved") /\ lost < MaxLost
  /\ lost' = lost + 1
  /\ unsent' = unsent \union {calls[s].id}
  /\ calls' = [calls EXCEPT ![s] = Idle]
  /\ UNCHANGED <<rows, pages, forms, mailed, overtaken, unanswered, moves, pricings>>

\* convert(): an empty price is the row's.
ProjectPriceTyped(c) == c.price                               \* Mutant of ProjectPrice
ProjectPrice(c) == IF c.price = None THEN c.kept.price ELSE c.price

\* The project, its client and the copies of the attachments in one transaction.
SaveConvert(s) ==
  /\ At(s, {"convert"}, "let in") /\ Len(projects) < MaxProjects
  /\ LET c == calls[s]
     IN  /\ projects' = Append(projects,
              [from |-> c.id, price |-> ProjectPrice(c), standing |-> TRUE])
         /\ quotes' = [quotes EXCEPT ![c.id] =
              [Written(s, "converted", c.kept.price, FALSE) EXCEPT !.project = Len(projects) + 1]]
  /\ Overtakes(s) /\ Answer(s)
  /\ UNCHANGED <<forms, mailed, unsent, unanswered, moves, pricings>>

\* destroy(): a soft delete.
SaveDelete(s) ==
  /\ At(s, {"delete"}, "let in")
  /\ quotes' = [quotes EXCEPT ![calls[s].id].deleted = TRUE]
  /\ Overtakes(s) /\ Answer(s)
  /\ UNCHANGED <<projects, forms, mailed, unsent, unanswered, moves, pricings>>

-----------------------------------------------------------------------------
(* The project the request became.                                         *)

\* ProjectController::destroy, under the project's row lock: the request is handed back
\* "as accepted, where it stood before converting".  One that a translator claimed is
\* not deleted any more: that project's Destroy is then never taken.
HandedBackDraft(q) == [q EXCEPT !.status = "draft", !.project = None]   \* Mutant of HandedBack
HandedBack(q) == [q EXCEPT !.status = "accepted", !.project = None]

Destroy(p) ==
  /\ projects[p].standing
  /\ projects' = [projects EXCEPT ![p].standing = FALSE]
  /\ quotes' = [i \in Requests |->
       IF quotes[i].project = p /\ ~quotes[i].deleted THEN HandedBack(quotes[i]) ELSE quotes[i]]
  /\ UNCHANGED <<calls, pages, forms, hist, moves, pricings, lost>>

-----------------------------------------------------------------------------
Init ==
  /\ quotes = <<>> /\ projects = <<>>
  /\ calls = [s \in Desk |-> Idle]
  /\ pages = [s \in Desk |-> Closed]
  /\ forms = [v \in Visitors |-> Form("open", None)]
  /\ mailed = <<>>
  /\ unsent = {} /\ overtaken = {} /\ unanswered = {}
  /\ moves = 0 /\ pricings = 0 /\ lost = 0

Handler(s) == SaveMove(s) \/ SaveRespond(s) \/ Notify(s) \/ SaveConvert(s) \/ SaveDelete(s)

Office(s) ==
  \/ \E i \in Requests : Visit(s, i)
  \/ PressMove(s) \/ PressDelete(s) \/ PressRespond(s) \/ PressConvert(s)
  \/ Handler(s) \/ Die(s)

Next ==
  \/ \E v \in Visitors : Submit(v) \/ Store(v) \/ Receipt(v) \/ LoseReceipt(v)
  \/ \E s \in Desk : Office(s)
  \/ \E p \in Projects : Destroy(p)

Spec == Init /\ [][Next]_vars

-----------------------------------------------------------------------------
(* Correctness.                                                            *)

QuoteRow == [ref : References \union {None}, status : Statuses, price : Prices \union {None},
             answered : BOOLEAN, project : Nat, deleted : BOOLEAN]
ProjectRow == [from : Nat, price : Prices \union {None}, standing : BOOLEAN]
CallRow == [op : Moves \union {"none", "respond", "convert", "delete"}, id : Nat,
            price : Prices \union {None}, notify : BOOLEAN, step : {"idle", "let in", "saved"},
            kept : QuoteRow]
PageRow == [on : Nat, shown : [status : Statuses, answered : BOOLEAN], seed : Prices \union {None}]
FormRow == [at : {"open", "sending", "stored", "receipt"}, request : Nat]

\* Rows and pages have the shapes of the tables and of what is fetched, and their keys lead
\* to rows that exist.
TypeOK ==
  /\ quotes \in Seq(QuoteRow) /\ projects \in Seq(ProjectRow)
  /\ \A i \in Requests : quotes[i].ref \in References /\ quotes[i].project \in Projects \union {None}
  /\ \A p \in Projects : projects[p].from \in Requests
  /\ calls \in [Desk -> CallRow] /\ pages \in [Desk -> PageRow] /\ forms \in [Visitors -> FormRow]
  /\ \A s \in Desk : {calls[s].id, pages[s].on} \subseteq Requests \union {None}
  /\ \A v \in Visitors : forms[v].request \in Requests \union {None}
  /\ mailed \in Seq(Prices \union {None}) /\ Len(mailed) = Len(quotes)
  /\ unsent \union overtaken \union unanswered \subseteq Requests
  /\ moves \in 0 .. MaxMoves /\ pricings \in 0 .. MaxPricings /\ lost \in 0 .. MaxLost

Became(i) == {p \in Projects : projects[p].from = i /\ projects[p].standing}

\* "A stale link can never resolve to a different visitor's request later on."
ReferenceForever == \A i, j \in Requests : i # j => quotes[i].ref # quotes[j].ref

\* Pressing send makes one request: each is on the screen of the visitor who sent it, and
\* only an answer that was lost leaves one behind.
OneRequestPerForm ==
  /\ Requests \ unanswered = {forms[v].request : v \in Visitors} \ {None}
  /\ \A v, u \in Visitors : forms[v].request = forms[u].request /\ v # u => forms[v].request = None

\* "Converted is terminal: no second project from the same request", "and the link is
\* kept".  A request is converted exactly while it leads to a project, that project is the
\* one it became and it stands, and a deleted request became nothing: through conversions,
\* re-pricings, deletions on either side and hand-backs, unless a call wrote over a row
\* that changed after it had been checked.
BridgeHolds ==
  \A i \in Requests \ overtaken :
    /\ Became(i) = {quotes[i].project} \ {None}
    /\ quotes[i].status = "converted" <=> quotes[i].project # None
    /\ quotes[i].deleted => quotes[i].project = None

\* One form, one request; one request, one reference and one project.
OneOfEach == OneRequestPerForm /\ ReferenceForever /\ BridgeHolds

\* new -> reviewing -> quoted -> accepted -> converted, "declined is reopenable; converted
\* is not", but for the project deleted.  No re-pricing drags a request back, and none skips
\* a stage, unless the page it was pressed on no longer showed the request as it stood.
Lane ==
  {"new"} \X {"reviewing", "quoted", "declined"}
  \union {"reviewing"} \X {"quoted", "declined"}
  \union {"quoted"} \X {"accepted", "declined"}
  \union {"accepted"} \X {"declined", "converted"}
  \union {<<"declined", "reviewing">>, <<"converted", "accepted">>}

PressedStale(i, s) == ~Free(s) /\ calls[s].id = i /\ pages[s].shown # Shown(calls[s].kept)

LaneFollowed ==
  [][\A i \in Requests :
       quotes'[i].status # quotes[i].status =>
         \/ <<quotes[i].status, quotes'[i].status>> \in Lane
         \/ i \in overtaken'
         \/ \E s \in Desk : calls'[s] # calls[s] /\ PressedStale(i, s)]_vars

\* Accepted "is the client saying yes to a price: there has to be one", and so has the
\* project: whatever page it was converted from, with a form filled in before the request
\* was priced or after, and also once the project is deleted and the request handed back.
AgreedIsPriced ==
  /\ \A i \in Requests : quotes[i].status \in QuotedStatuses => HasQuote(quotes[i]) /\ quotes[i].price # None
  /\ \A p \in Projects : projects[p].price # None

Mailing(i) == \E s \in Desk : At(s, {"respond"}, "saved") /\ calls[s].id = i

\* The last price mailed to the client is the one the office holds them to, however two
\* pricings and their mails interleave; except a price saved without a mail, by choice or
\* because the handler died.  And the page the mail links to shows that price, unless the
\* request was declined or opened again.
MailedIsOffered ==
  \A i \in Requests \ unsent : ~Mailing(i) =>
    /\ mailed[i] = quotes[i].price
    /\ Tracked(i) = mailed[i] \/ quotes[i].deleted \/ quotes[i].status \in {"declined", "reviewing"}

\* The price: always there where it was agreed to, and the one the client was told.
PricesHold == AgreedIsPriced /\ MailedIsOffered

(* Why they hold: the inductive invariant.                                 *)

\* A form holds a request from the save on.
FormsFilled == \A v \in Visitors : forms[v].at \in {"open", "sending"} <=> forms[v].request = None

\* A row that was priced has its price; a new one has none.
Priced(q) ==
  /\ q.status \in QuotedStatuses => q.answered
  /\ q.answered => q.price # None
  /\ q.status = "new" => q.price = None

ProjectsPriced == \A p \in Projects : projects[p].price # None
RowsPriced == \A i \in Requests : Priced(quotes[i]) /\ (quotes[i].project # None => quotes[i].answered)

MailsMatch == \A i \in Requests \ unsent : Mailing(i) \/ mailed[i] = quotes[i].price

\* No row goes back to what it was before it was seen, or priced, later than kept says.
NotBefore(q, kept) ==
  /\ kept.answered => q.answered
  /\ kept.price # None => q.price # None
  /\ kept.status # "new" => q.status # "new"

\* A page that has shown a price was shown it, and a call that was let in was offered by
\* its page, passed its checks, and its row can only have moved on.
PagesSound ==
  \A s \in Desk :
    pages[s].on # None /\ (pages[s].shown.answered \/ pages[s].shown.status \in QuotedStatuses)
      => quotes[pages[s].on].answered

CallSound(s) ==
  LET c == calls[s]
  IN  /\ c.step # "idle" => c.id # None /\ pages[s].on = c.id /\ c.op # "none"
      /\ c.step = "saved" => c.op = "respond"
      /\ c.step = "let in" =>
           /\ pages[s].shown.status # "converted" /\ c.op \in Buttons(s, pages[s].shown)
           /\ Priced(c.kept) /\ NotBefore(quotes[c.id], c.kept) /\ ~c.kept.deleted
           /\ c.op \in Moves => MayMove(c.kept, c.op)
           /\ c.op = "respond" => MayRespond(c.kept) /\ c.price # None
           /\ c.op = "convert" => c.kept.project = None /\ c.kept.answered
           /\ c.op = "delete" => c.kept.project = None

IInv == /\ TypeOK
        /\ OneOfEach
        /\ FormsFilled
        /\ RowsPriced /\ ProjectsPriced
        /\ MailsMatch
        /\ PagesSound
        /\ \A s \in Desk : CallSound(s)

\* An up-to-date page offers only what the API accepts; except that it goes on offering
\* "the client agreed" on a priced request that was declined or opened again (a known
\* divergence).
Accepts(q, b) ==
  CASE b \in Moves -> MayMove(q, b)
    [] b = "respond" -> MayRespond(q)
    [] b = "convert" -> MayConvert(q)
    [] b = "delete" -> MayDelete(q)

OffersAreHonest ==
  \A s \in Desk : Fresh(s) =>
    LET q == quotes[pages[s].on]
    IN  \A b \in Offered(s) : Accepts(q, b) \/ (b = "accepted" /\ q.status \in {"declined", "reviewing"})
          \/ pages[s].on \in overtaken
=============================================================================
