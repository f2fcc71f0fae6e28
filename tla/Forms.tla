-------------------------------- MODULE Forms -------------------------------
(***************************************************************************)
(* The records the office keeps and the forms that edit them: accounts and *)
(* their language pairs, clients, letterheads and seals, invoices, and     *)
(* every user's own days and mail preferences.  A page shows a cached copy *)
(* of the record, a form takes its content from that copy, and what a save *)
(* sends replaces what the server has by then.                             *)
(*                                                                         *)
(* family is the form a behaviour is about; it has one record.  text is    *)
(* what the record says, as the set of the edits made to it: a record that *)
(* lost an edit says what it said before.  on is the switch that stops an  *)
(* account, a client or a template; art the template's artwork; used       *)
(* whether a project depends on it.                                        *)
(***************************************************************************)
EXTENDS Naturals, FiniteSets, QueryCache

CONSTANTS
  Desks,         \* browsers, each with one user at it
  Families,      \* the forms a behaviour may be about
  MaxEdits,      \* bound: changes ever made in a form
  MaxVisits,     \* bound: visits to a page
  MaxCalls       \* bound: saves, switches and deletions ever sent

ASSUME FormsBounds ==
  /\ Families \subseteq {"user", "pairs", "client", "template", "invoice", "day", "preferences"}
  /\ MaxEdits \in Nat /\ MaxCalls \in Nat /\ MaxVisits \in Nat
ASSUME NobodyAssumption == "nobody" \notin Desks

VARIABLES
  family,        \* the form this behaviour is about
  row,           \* the record on the server
  disk,          \* artworks on the disk
  page,          \* the page each desk is on
  cache,         \* its cached queries
  form,          \* the form it has open
  call,          \* its request
  edits,         \* changes made so far, each an edit or a number not used
  arts,          \* artworks uploaded so far
  calls,         \* requests sent so far
  visits,        \* visits paid so far
  saved,         \* the edits each desk has been told are saved, and nobody removed since
  unseen,        \* queries that no own save has renewed since
  stopper,       \* the desk that switched the record off, once it knows
  raced          \* a deletion was overtaken by a project

records == <<family, row, disk, page, cache, form, call, edits, arts, calls, visits, saved,
             unseen, stopper, raced>>

history == <<saved, unseen, stopper, raced>>

Edits == 1..MaxEdits
Keys  == {"list", "file", "own"}

-----------------------------------------------------------------------------
(* The pages: what can be done to a record on them besides opening its     *)
(* form, and the queries a save made there renews.                         *)

UsersPage       == [offers |-> {"switch", "delete"}, renews |-> {"list"}]
ClientsPage     == [offers |-> {}, renews |-> {"list"}]
ClientFile      == [offers |-> {}, renews |-> {"list", "file"}]
LetterheadsPage == [offers |-> {"switch", "delete"}, renews |-> {"list"}]
InvoicesPage    == [offers |-> {}, renews |-> {"list"}]
DailyWordsPage  == [offers |-> {}, renews |-> {"list"}]
SettingsPage    == [offers |-> {}, renews |-> {"list"}]

\* The pairs are opened from the menu of the users page, whose list does not hold them.
PairsMenu == [offers |-> {}, renews |-> {}]

PageOf(f, p) ==
  CASE f = "user"     -> UsersPage
    [] f = "pairs"    -> PairsMenu
    [] f = "client"   -> IF p = "file" THEN ClientFile ELSE ClientsPage
    [] f = "template" -> LetterheadsPage
    [] f = "invoice"  -> InvoicesPage
    [] f = "day"      -> DailyWordsPage
    [] OTHER          -> SettingsPage

Pages(f) == IF f = "client" THEN {"list", "file"} ELSE {"list"}

\* The queries that show the record.
Shown(f) == IF f = "pairs" THEN {"own"} ELSE Pages(f)

(* The forms: whether one is laid out on the page itself, whether it asks  *)
(* a query of its own, and what it holds besides the text.                 *)

UserForm        == [inline |-> FALSE, asks |-> FALSE, holds |-> {}]
PairsDialog     == [inline |-> FALSE, asks |-> TRUE,  holds |-> {}]
ClientForm      == [inline |-> FALSE, asks |-> FALSE, holds |-> {"switch"}]
TemplateForm    == [inline |-> FALSE, asks |-> FALSE, holds |-> {"switch", "file"}]
InvoiceDialog   == [inline |-> FALSE, asks |-> FALSE, holds |-> {}]
DayEditor       == [inline |-> TRUE,  asks |-> FALSE, holds |-> {}]
PreferencesCard == [inline |-> TRUE,  asks |-> FALSE, holds |-> {}]

Layout(f) ==
  CASE f = "user"     -> UserForm
    [] f = "pairs"    -> PairsDialog
    [] f = "client"   -> ClientForm
    [] f = "template" -> TemplateForm
    [] f = "invoice"  -> InvoiceDialog
    [] f = "day"      -> DayEditor
    [] OTHER          -> PreferencesCard

Inline   == Layout(family).inline
Asks     == Layout(family).asks
Holds(x) == x \in Layout(family).holds

-----------------------------------------------------------------------------
Copies == [text : SUBSET Edits, on : BOOLEAN, gone : BOOLEAN]

Record == [text : SUBSET Edits, on : BOOLEAN, art : Nat, used : BOOLEAN, gone : BOOLEAN]

New == [text |-> {}, on |-> TRUE, art |-> IF family = "template" THEN 1 ELSE 0,
        used |-> FALSE, gone |-> FALSE]

NoForm == [key |-> "none"]
NoCall == [at |-> "none", op |-> "none"]
Nobody == "nobody"

Data(d, k)  == cache[d][k].data
HasRow(d)   == page[d] # "away" /\ (Asks \/ \E r \in Data(d, page[d]) : ~r.gone)
RowOn(d)    == IF Asks THEN New ELSE CHOOSE r \in Data(d, page[d]) : TRUE

\* What the dialog's own query says: nothing until it has come.
Own(d) == UNION Data(d, "own")

\* The copy a form would be taken from is known to be behind the desk's own saves.
Behind(d, k) == call[d] # NoCall \/ cache[d][k].fetch # "idle" \/ k \in unseen[d]

\* Changes that are thrown away are left out: a changed form is saved, and nobody saves
\* one without a change.
Changed(f) == f # NoForm /\ (f.typed # {} \/ f.chosen \/ f.file)
Unsaved(d) == Changed(form[d]) /\ call[d].op # "form"

-----------------------------------------------------------------------------
(* Pages and their queries.                                                *)

Mount(d, k, young) == cache' = [cache EXCEPT ![d][k] = Mounted(@, young)]

\* useQuery() of a page; a cached answer is younger than 30 seconds, or not.  The
\* list the pairs dialog is opened from is left out.
Visit(d, p, young) ==
  /\ page[d] = "away"
  /\ p \in Pages(family)
  /\ visits < MaxVisits
  /\ visits' = visits + 1
  /\ page' = [page EXCEPT ![d] = p]
  /\ IF Asks THEN UNCHANGED cache ELSE Mount(d, p, young)
  /\ UNCHANGED <<family, row, disk, form, call, edits, arts, calls, history>>

\* A request goes on without its page.
Leave(d) ==
  /\ page[d] # "away"
  /\ ~Unsaved(d)
  /\ page' = [page EXCEPT ![d] = "away"]
  /\ form' = [form EXCEPT ![d] = NoForm]
  /\ call' = IF call[d] = NoCall THEN call ELSE [call EXCEPT ![d].left = TRUE]
  /\ UNCHANGED <<family, row, disk, cache, edits, arts, calls, visits, history>>

\* Mutant of Copy: the numbers of an artwork and its use come along.
WholeCopy(r) == r

\* What a list says of the record.
Copy(r) == [text |-> IF r.gone THEN {} ELSE r.text, on |-> r.on, gone |-> r.gone]

\* The server reads the record.
Read(d, k) ==
  /\ k # "own"
  /\ cache[d][k].fetch = "asked"
  /\ cache' = [cache EXCEPT ![d][k] = Answered(@, Copy(row))]
  /\ unseen' = [unseen EXCEPT ![d] = @ \ {k}]
  /\ UNCHANGED <<family, row, disk, page, form, call, edits, arts, calls, visits, saved,
                 stopper, raced>>

\* A form taken from r, the copy known to be behind or not.
FormOf(r, behind) ==
  [text |-> r.text, typed |-> {}, on |-> r.on, chosen |-> FALSE, file |-> FALSE,
   touched |-> FALSE, behind |-> behind]

\* A day that comes back with other content than its editor began with is mounted
\* anew (its key); the flips of the settings page lie over whatever comes back.
Relaid(d, r) ==
  IF form[d] = NoForm \/ (family = "day" /\ r.text # form[d].text \ form[d].typed)
  THEN FormOf(r, call[d].at \notin {"none", "settling"} \/ "list" \in unseen[d]) ELSE form[d]

\* The answer is shown.  With the month that comes back the save of a day is over:
\* its onSuccess returns the refetch.
Land(d, k) ==
  /\ cache[d][k].fetch = "answered"
  /\ cache' = [cache EXCEPT ![d][k] = Landed(@)]
  /\ form' = IF Inline /\ page[d] = k
             THEN [form EXCEPT ![d] = Relaid(d, CHOOSE r \in cache[d][k].reply : TRUE)]
             ELSE form
  /\ call' = IF call[d].at = "settling" THEN [call EXCEPT ![d] = NoCall] ELSE call
  /\ UNCHANGED <<family, row, disk, page, edits, arts, calls, visits, history>>

\* A translator's pairs are read and shown at once.
Fetch(d) ==
  /\ cache[d]["own"].fetch = "asked"
  /\ cache' = [cache EXCEPT ![d]["own"] = Landed(Answered(@, row.text))]
  /\ unseen' = [unseen EXCEPT ![d] = @ \ {"own"}]
  /\ UNCHANGED <<family, row, disk, page, form, call, edits, arts, calls, visits, saved,
                 stopper, raced>>

-----------------------------------------------------------------------------
(* The forms.                                                              *)

\* A dialog is opened on the row the page shows; that of the pairs asks for them.  A page
\* with its form on it lays it out as soon as its query has data.
OpenForm(d, young) ==
  /\ form[d] = NoForm
  /\ HasRow(d)
  /\ form' = [form EXCEPT ![d] = FormOf(RowOn(d), Behind(d, page[d]))]
  /\ IF Asks THEN Mount(d, "own", young) ELSE UNCHANGED cache
  /\ UNCHANGED <<family, row, disk, page, call, edits, arts, calls, visits, history>>

CloseForm(d) ==
  /\ ~Inline
  /\ form[d] # NoForm
  /\ ~Changed(form[d])
  /\ form' = [form EXCEPT ![d] = NoForm]
  /\ UNCHANGED <<family, row, disk, page, cache, call, edits, arts, calls, visits, history>>

\* Nobody types into a dialog that is being saved.
Fillable(d) == form[d] # NoForm /\ call[d].op # "form"

\* The fields of an account, a client or a template, and a translator's pairs.
Fields(d, e) ==
  /\ family \in {"user", "pairs", "client", "template"}
  /\ Fillable(d)
  /\ e = edits + 1

\* An invoice lists the client's projects, all on offer, those it has among them.
BilledProjects(d, e) ==
  /\ family = "invoice"
  /\ Fillable(d)
  /\ e \notin form[d].text

\* Mutant of DayInputs: the inputs of a day stay open while it is saved.
DayInputsThroughout(d, e) ==
  /\ family = "day"
  /\ form[d] # NoForm
  /\ e = edits + 1

\* A day's inputs are disabled while a save is pending.
DayInputs(d, e) ==
  /\ family = "day"
  /\ form[d] # NoForm
  /\ call[d] = NoCall
  /\ e = edits + 1

\* The switches of the settings page are not.
MailSwitches(d, e) ==
  /\ family = "preferences"
  /\ form[d] # NoForm
  /\ e = edits + 1

\* A translator's pairs are the server's until the first local edit.
Before(d) == IF Asks /\ ~form[d].touched THEN Own(d) ELSE form[d].text

\* A form with one more edit in it.
WithEdit(d, e) ==
  [form[d] EXCEPT !.text = Before(d) \union {e}, !.typed = @ \union {e}, !.touched = TRUE,
                  !.behind = @ \/ (Asks /\ ~form[d].touched /\ Behind(d, "own"))]

TypeIn(d, e) ==
  /\ Fields(d, e) \/ BilledProjects(d, e) \/ DayInputs(d, e) \/ MailSwitches(d, e)
  /\ edits' = IF e > edits THEN e ELSE edits
  /\ form' = [form EXCEPT ![d] = WithEdit(d, e)]
  /\ UNCHANGED <<family, row, disk, page, cache, call, arts, calls, visits, history>>

\* The switch in the form of a client or a template.
SetOn(d) ==
  /\ Holds("switch")
  /\ Fillable(d)
  /\ ~form[d].chosen
  /\ edits < MaxEdits
  /\ edits' = edits + 1
  /\ form' = [form EXCEPT ![d].on = ~@, ![d].chosen = TRUE]
  /\ UNCHANGED <<family, row, disk, page, cache, call, arts, calls, visits, history>>

\* A template's file.
Attach(d) ==
  /\ Holds("file")
  /\ Fillable(d)
  /\ ~form[d].file
  /\ edits < MaxEdits
  /\ edits' = edits + 1
  /\ form' = [form EXCEPT ![d].file = TRUE]
  /\ UNCHANGED <<family, row, disk, page, cache, call, arts, calls, visits, history>>

-----------------------------------------------------------------------------
(* Saving.                                                                 *)

\* row: what the handler has loaded, and then what it answers with.
Request(d, op, f) ==
  [op |-> op, at |-> "loaded", text |-> f.text, typed |-> f.typed, on |-> f.on,
   chosen |-> f.chosen, file |-> f.file, behind |-> f.behind, page |-> page[d],
   left |-> FALSE, art |-> 0, row |-> row]

\* A request reaches its handler, which looks the record up: it is refused, with a
\* toast, when the record has been deleted.
Sends(d, r) ==
  /\ calls < MaxCalls
  /\ call[d] = NoCall
  /\ ~row.gone
  /\ calls' = calls + 1
  /\ call' = [call EXCEPT ![d] = r]
  /\ UNCHANGED <<family, row, disk, page, cache, form, edits, arts, visits, history>>

\* What the form sends: all it holds; of the preferences the flips alone.
Content(d) ==
  CASE family = "pairs"       -> Before(d)
    [] family = "preferences" -> form[d].typed
    [] OTHER                  -> form[d].text

Submit(d) ==
  /\ form[d] # NoForm
  /\ Changed(form[d])
  /\ Sends(d, Request(d, "form", [form[d] EXCEPT !.text = Content(d),
       !.behind = @ \/ (Asks /\ ~form[d].touched /\ Behind(d, "own"))]))

\* What a row's menu or card has, while no dialog covers it.
Offers(d, op) == HasRow(d) /\ form[d] = NoForm /\ op \in PageOf(family, page[d]).offers

\* The switch on an account's menu or a template's card.
Switch(d) ==
  /\ Offers(d, "switch")
  /\ Sends(d, Request(d, "switch", [FormOf(RowOn(d), FALSE) EXCEPT !.on = ~@, !.chosen = TRUE]))

\* Mutant of Deletable: destroy() leaves it to the foreign key.
DeletableAlways == TRUE

\* A template in use is not deleted.
Deletable == ~row.used

Remove(d) ==
  /\ Offers(d, "delete")
  /\ Deletable
  /\ Sends(d, Request(d, "delete", FormOf(RowOn(d), FALSE)))

-----------------------------------------------------------------------------
(* The API.                                                                *)

Uploads(c) == c.op = "form" /\ c.file
Unlinks(c) == c.op = "delete" /\ family = "template"

\* LetterheadController::update(): the new artwork is stored and the one that was
\* loaded deleted, both before the row is written.
Store(d) ==
  /\ call[d].at = "loaded" /\ Uploads(call[d])
  /\ arts' = arts + 1
  /\ disk' = (disk \union {arts + 1}) \ {call[d].row.art}
  /\ call' = [call EXCEPT ![d].at = "stored", ![d].art = arts + 1]
  /\ UNCHANGED <<family, row, page, cache, form, edits, calls, visits, history>>

\* destroy(): the artwork first, the row after it.
Unlink(d) ==
  /\ call[d].at = "loaded" /\ Unlinks(call[d])
  /\ disk' = disk \ {call[d].row.art}
  /\ call' = [call EXCEPT ![d].at = "stored"]
  /\ UNCHANGED <<family, row, page, cache, form, edits, arts, calls, visits, history>>

\* Eloquent writes the attributes that differ from those it loaded.
Set(sent, loaded, now) == IF sent = loaded THEN now ELSE sent

\* Mutant of Text: the preferences sent replace those stored.
TextReplaced(c) == IF family = "preferences" THEN c.text ELSE Set(c.text, c.row.text, row.text)

\* Pairs are deleted as the statement saw them, and those sent inserted; an invoice's
\* projects are released and those sent claimed, in one transaction.
Text(c) ==
  CASE family = "pairs"       -> (row.text \ c.row.text) \union c.text
    [] family = "invoice"     -> c.text
    [] family = "preferences" -> row.text \union c.text
    [] OTHER                  -> Set(c.text, c.row.text, row.text)

\* Mutant of FormRow: every form sends the switch it was opened with.
FormRowWithSwitch(c) ==
  [row EXCEPT !.text = Text(c), !.on = Set(c.on, c.row.on, @),
              !.art = IF c.file THEN c.art ELSE @]

FormRow(c) ==
  [row EXCEPT !.text = Text(c),
              !.on = IF Holds("switch") THEN Set(c.on, c.row.on, @) ELSE @,
              !.art = IF c.file THEN c.art ELSE @]

RowAfter(c) ==
  CASE c.op = "form"   -> FormRow(c)
    [] c.op = "switch" -> [row EXCEPT !.on = Set(c.on, c.row.on, @)]
    [] c.op = "delete" -> [row EXCEPT !.gone = TRUE]

\* The database refuses to insert a pair twice, to delete a template a project was
\* approved with, and finds no row of a template that is gone.
Fails(c) ==
  \/ family = "pairs" /\ c.text \intersect (row.text \ c.row.text) # {}
  \/ family = "template" /\ (row.gone \/ (c.op = "delete" /\ row.used))

Ready(c) ==
  /\ c # NoCall
  /\ c.at = IF Uploads(c) \/ Unlinks(c) THEN "stored" ELSE "loaded"

\* What the answer still needs of the request.  Only the preferences read the record in it.
Done(c, r) ==
  [c EXCEPT !.at = "done", !.text = {}, !.file = FALSE, !.art = 0, !.behind = FALSE,
            !.row = IF family = "preferences" THEN r ELSE New]

SaveRecord(d) ==
  /\ Ready(call[d])
  /\ IF Fails(call[d])
     THEN call' = [call EXCEPT ![d] = NoCall] /\ UNCHANGED <<row, saved, stopper>>
     ELSE /\ row' = RowAfter(call[d])
          /\ call' = [call EXCEPT ![d] = Done(@, row')]
          /\ saved' = [e \in Desks |-> saved[e] \intersect row'.text]
          /\ stopper' = IF row'.on THEN Nobody ELSE stopper
  /\ raced' = (raced \/ (call[d].op = "delete" /\ row.used /\ ~call[d].row.used))
  /\ UNCHANGED <<family, disk, page, cache, form, edits, arts, calls, visits, unseen>>

-----------------------------------------------------------------------------
(* The answer.                                                             *)

\* The queries a save from page p invalidates.
Renews(p) == PageOf(family, p).renews

\* What shows the record and is not among them.
Misses(p) == Shown(family) \ Renews(p)

\* Mutant of Refreshed: a save invalidates nothing.
RefreshedNever(d) == cache[d]

Refreshed(d) ==
  [k \in Keys |-> IF k \in Renews(call[d].page) THEN Invalidated(cache[d][k], page[d] = k)
                  ELSE cache[d][k]]

\* Queries with an older answer on its way that this one does not stop.
Overtaken(d) ==
  {k \in Renews(call[d].page) :
     IF family = "preferences" THEN cache[d][k].fetch = "answered"
     ELSE Forgotten(cache[d][k], page[d] = k)}

\* A saved dialog closes; the settings page drops its flips, those of the meantime too;
\* a day stays as it is and waits for its month.
FormAfter(d) ==
  IF call[d].op # "form" \/ call[d].left \/ family = "day" THEN form[d]
  ELSE IF family = "preferences" THEN FormOf(call[d].row, FALSE) ELSE NoForm

Settles(d) == family = "day" /\ ~call[d].left

Answer(d) ==
  /\ call[d].at = "done"
  /\ cache' = IF family = "preferences"
              THEN [cache EXCEPT ![d]["list"] = Patched(@, Copy(call[d].row))]
              ELSE [cache EXCEPT ![d] = Refreshed(d)]
  /\ form' = [form EXCEPT ![d] = FormAfter(d)]
  /\ call' = IF Settles(d) THEN [call EXCEPT ![d].at = "settling"] ELSE [call EXCEPT ![d] = NoCall]
  /\ saved' = [saved EXCEPT ![d] = @ \union (call[d].typed \intersect row.text)]
  /\ unseen' = [unseen EXCEPT ![d] = @ \union Misses(call[d].page) \union Overtaken(d)]
  /\ stopper' = IF call[d].chosen /\ ~call[d].on /\ ~row.on THEN d ELSE stopper
  /\ UNCHANGED <<family, row, disk, page, edits, arts, calls, visits, raced>>

-----------------------------------------------------------------------------
(* The rest of the office.                                                 *)

\* A project is approved with the template.
Use ==
  /\ family = "template"
  /\ ~row.used /\ ~row.gone /\ row.on
  /\ row' = [row EXCEPT !.used = TRUE]
  /\ UNCHANGED <<family, disk, page, cache, form, call, edits, arts, calls, visits, history>>

-----------------------------------------------------------------------------
FormsInit ==
  /\ family \in Families
  /\ row = New
  /\ disk = {row.art}
  /\ page = [d \in Desks |-> "away"]
  /\ cache = [d \in Desks |-> [k \in Keys |-> Absent]]
  /\ form = [d \in Desks |-> NoForm]
  /\ call = [d \in Desks |-> NoCall]
  /\ edits = 0
  /\ arts = 1
  /\ calls = 0
  /\ visits = 0
  /\ saved = [d \in Desks |-> {}]
  /\ unseen = [d \in Desks |-> {}]
  /\ stopper = Nobody
  /\ raced = FALSE

BrowserStep(d) ==
  \/ \E young \in BOOLEAN : OpenForm(d, young) \/ \E p \in Keys : Visit(d, p, young)
  \/ Leave(d) \/ CloseForm(d)
  \/ \E k \in Keys : Land(d, k)
  \/ \E e \in Edits : TypeIn(d, e)
  \/ SetOn(d) \/ Attach(d)
  \/ Submit(d) \/ Switch(d) \/ Remove(d)
  \/ Answer(d)

ServerStep(d) ==
  \/ \E k \in Keys : Read(d, k)
  \/ Fetch(d) \/ Store(d) \/ Unlink(d) \/ SaveRecord(d)

FormsNext == Use \/ \E d \in Desks : BrowserStep(d) \/ ServerStep(d)

FormsSpec == FormsInit /\ [][FormsNext]_records

-----------------------------------------------------------------------------
(* Type invariant.                                                         *)

Forms == [text : SUBSET Edits, typed : SUBSET Edits, on : BOOLEAN, chosen : BOOLEAN,
          file : BOOLEAN, touched : BOOLEAN, behind : BOOLEAN]

Calls == [op : {"form", "switch", "delete"}, at : {"loaded", "stored", "done", "settling"},
          text : SUBSET Edits, typed : SUBSET Edits, on : BOOLEAN, chosen : BOOLEAN,
          file : BOOLEAN, behind : BOOLEAN, page : Keys, left : BOOLEAN, art : Nat,
          row : Record]

FormsTypeOK ==
  /\ family \in Families
  /\ row \in Record
  /\ disk \subseteq 0..arts
  /\ page \in [Desks -> Keys \union {"away"}]
  /\ \A d \in Desks :
       /\ \A k \in Keys \ {"own"} : cache[d][k] \in Entry(Copies)
       /\ cache[d]["own"] \in Entry(SUBSET Edits)
  /\ form \in [Desks -> Forms \union {NoForm}]
  /\ call \in [Desks -> Calls \union {NoCall}]
  /\ edits \in 0..MaxEdits
  /\ arts \in Nat \ {0}
  /\ calls \in 0..MaxCalls
  /\ visits \in 0..MaxVisits
  /\ stopper \in Desks \union {Nobody}
  /\ saved \in [Desks -> SUBSET (1..edits)]
  /\ unseen \in [Desks -> SUBSET Keys]
  /\ raced \in BOOLEAN

(* Safety.                                                                 *)

\* The save of desk d that this step commits.
Commits(d) == Ready(call[d]) /\ call'[d].at = "done"

\* A form undoes nothing of what its own user was told to have saved: the copy the next
\* form is taken from has been renewed, unless the form was opened before it was back, or
\* on a copy that the save does not renew.  And what was stopped starts again only where
\* somebody chose it: never by a form of the account's data, which does not hold the
\* switch, nor by the next form of the user who stopped it.
FormsUndoNothing ==
  [][\A d \in Desks : Commits(d) =>
       /\ call[d].op = "form" /\ ~call[d].behind =>
            saved[d] \intersect row.text \subseteq row'.text
       /\ ~row.on /\ row'.on =>
            call[d].chosen \/ (family # "user" /\ (call[d].behind \/ stopper # d))]_records

\* At rest a page shows what its own user has saved.
OwnSavesShown ==
  \A d \in Desks : \A k \in Shown(family) \ unseen[d] :
    /\ page[d] = k /\ call[d] = NoCall
    /\ cache[d][k].fetch = "idle" /\ ~cache[d][k].invalid /\ ~row.gone
    => \A r \in Data(d, k) : saved[d] \intersect row.text \subseteq r.text

\* A template that is not being replaced or deleted has its artwork on the disk, for
\* the next merge, however two windows replace it - but for one that a project took
\* while its deletion was under way.
ArtworkOnDisk ==
  ~row.gone /\ ~raced /\ (\A d \in Desks : call[d].at # "stored") => row.art \in disk

\* Every edit desk d knows of: in its form, in its request, or told to be saved.
Known(d) ==
  (IF form[d] = NoForm THEN {} ELSE form[d].text)
  \union (IF call[d] = NoCall THEN {} ELSE call[d].typed) \union saved[d]

\* "Local state so typing never fights the query cache": what a translator has typed
\* into a day is not thrown away by a month that comes back, unless it brings an edit of
\* another window, or the editor had been laid out before its month was back.
TypingSurvives ==
  [][\A d \in Desks : family = "day" /\ form[d] # NoForm /\ form'[d] # NoForm =>
       \/ form[d].typed \subseteq form'[d].text
       \/ form[d].behind
       \/ form'[d].text \ Known(d) # {}]_records
=============================================================================
