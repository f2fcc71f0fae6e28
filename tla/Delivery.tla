------------------------------ MODULE Delivery ------------------------------
(***************************************************************************)
(* Handing a translation over, from the translator's tab to the PM's       *)
(* approval: the draft preview, the delivery dialog and its uploads with   *)
(* the panel that shows them, corrections before the review, and the       *)
(* approval dialog.  A seal's position means something on one document     *)
(* only, so a position is modelled by the file it was measured on.         *)
(***************************************************************************)
EXTENDS Naturals, FiniteSets, Sequences, FiniteSetsExt, SequencesExt

CONSTANTS
  Docs,        \* files on the translator's computer
  Seals,       \* active stamp templates
  Nothing,     \* no file; a seal left where its template puts it
  MaxPicks,    \* bound: files chosen for handing over
  MaxSends,    \* bound: uploads
  MaxRounds,   \* bound: deliveries, the first and those after a revision
  MaxEdits     \* bound: seals the PM has moved

ASSUME DocsAssumption ==
  IsFiniteSet(Docs) /\ Docs # {} /\ Seals # {} /\ Nothing \notin Docs
ASSUME BoundsAssumption == {MaxPicks, MaxSends, MaxRounds, MaxEdits} \subseteq Nat

VARIABLES
  status,      \* API: the project's status
  rows,        \* API: its deliverables
  round,       \* API: the newest version among them
  made,        \* API: rows created so far, the last id
  card,        \* what the portal page last loaded of the project
  draft,       \* DraftPreviewDialog
  renders,     \* previews being rendered
  staging,     \* files chosen and not handed over, and DeliverDialog on them
  sending,     \* the upload the page waits for
  orphans,     \* uploads that reached the API and whose caller gave up
  panel,       \* TransferProvider's row of the upload; rows do not touch each other
  sends,       \* uploads so far
  pm,          \* ApproveDialog
  landed,      \* history: choices of files the API has accepted
  haste        \* history: what the translator did that the properties excuse

portal == <<card, draft, renders, staging, sending, panel, sends>>
api    == <<status, rows, round, made>>
vars   == <<status, rows, round, made, card, draft, renders, staging, sending, orphans, panel,
            sends, pm, landed, haste>>

-----------------------------------------------------------------------------
(* Positions and files.                                                    *)

Places    == Docs \union {Nothing}
Placings  == [Seals -> Places]
Untouched == [s \in Seals |-> Nothing]

Row(id, f, r, p) == [id |-> id, file |-> f, round |-> r, placed |-> p, given |-> p]

\* The files of the newest round: what the merge will take.
Newest == {x \in rows : x.round = round}
Ids(xs) == {x.id : x \in xs}
\* The rows that an upload of files fs makes, in order.
Made(fs, ps, r) == {Row(made + i, fs[i], r, ps[i]) : i \in DOMAIN fs}

\* Which card the page shows: the current assignment's, one awaiting review, neither.
CardOf(st) ==
  CASE st \in {"claimed", "revision"} -> "deliver"
    [] st = "delivered"               -> "amend"
    [] OTHER                          -> "none"

Shown == [kind |-> CardOf(status), files |-> Ids(Newest)]

-----------------------------------------------------------------------------
(* The portal page's cards.                                                *)

NoRender == [file |-> Nothing, placed |-> Untouched]

\* The lone seal is preselected.
Preselected == IF Cardinality(Seals) = 1 THEN Seals ELSE {}

ClosedDraft ==
  [open |-> FALSE, file |-> Nothing, chosen |-> Preselected, placed |-> Untouched,
   render |-> NoRender, busy |-> FALSE]

\* pick counts the stagings: deliverRound and DeliveryCard's round, which key the dialog.
NoStaging(k) ==
  [files |-> <<>>, placed |-> <<>>, replaces |-> 0, busy |-> FALSE, pick |-> k]

\* Mutant of Unstaged: the confirmed files stay in the dialog.
UnstagedNot == [staging EXCEPT !.busy = FALSE]

\* The files are let go of.  The next ones get a dialog of their own, keyed by the
\* staging, so what this one held of positions is as good as gone.
Unstaged == NoStaging(staging.pick)

NotSending == [kind |-> "none", files |-> <<>>, placed |-> <<>>, replaces |-> 0, pick |-> 0,
               stage |-> "idle"]

\* The page's queries answer.  A card that goes takes its dialogs and choices with it.
Refresh ==
  /\ card' = Shown
  /\ IF Shown.kind = card.kind
     THEN UNCHANGED <<draft, renders, staging>>
     ELSE /\ draft' = ClosedDraft
          /\ renders' = {}
          /\ staging' = NoStaging(staging.pick)
  /\ UNCHANGED <<api, sending, orphans, panel, sends, pm, landed, haste>>

\* stage(): the files and the positions that come with them, in a dialog of their own.
Stage(fs, ps, replaces) ==
  /\ staging.pick < MaxPicks
  /\ staging' = [files |-> fs, placed |-> ps, replaces |-> replaces, busy |-> FALSE,
                 pick |-> staging.pick + 1]

\* What a picker gives: some of the files, each once, in one order.
Selections == {SetToSeq(fs) : fs \in SUBSET Docs \ {{}}}
Plain(fs) == [i \in DOMAIN fs |-> Untouched]

Quiet == ~draft.open /\ staging.files = <<>>

\* Files are picked for delivery, or to join a delivery that awaits review; one too large
\* is refused by the page and nothing happens.
PickFiles(fs) ==
  /\ Quiet
  /\ card.kind \in {"deliver", "amend"}
  /\ Stage(fs, Plain(fs), 0)
  /\ UNCHANGED <<api, card, draft, renders, sending, orphans, panel, sends, pm, landed, haste>>

\* A file is picked to take the place of one delivered.
PickReplacement(f, id) ==
  /\ Quiet
  /\ card.kind = "amend" /\ id \in card.files
  /\ Stage(<<f>>, Plain(<<f>>), id)
  /\ UNCHANGED <<api, card, draft, renders, sending, orphans, panel, sends, pm, landed, haste>>

-----------------------------------------------------------------------------
(* The draft preview.                                                      *)

\* chosenPlacements(): an unchosen seal is not on this draft.
ChosenPlacements(d) == [s \in Seals |-> IF s \in d.chosen THEN d.placed[s] ELSE Nothing]

\* Mutant of Discarded: the render stays.
DiscardedNot(d) == d

\* discardPreview()
Discarded(d) == [d EXCEPT !.render = NoRender]

\* What the draft may become when the translator changes an input.
Input(d) ==
  /\ card.kind = "deliver" /\ draft.open
  /\ draft' = Discarded(d)
  /\ haste' = IF renders = {} THEN haste \ {"typed"} ELSE haste \union {"typed"}
  /\ UNCHANGED <<api, card, renders, staging, sending, orphans, panel, sends, pm, landed>>

OpenDraft ==
  /\ Quiet /\ card.kind = "deliver"
  /\ sends = 0                          \* bound: see DraftsOver
  /\ draft' = [draft EXCEPT !.open = TRUE]
  /\ UNCHANGED <<api, card, renders, staging, sending, orphans, panel, sends, pm, landed, haste>>

\* Mutant of Chosen: the positions on the old document are kept.
ChosenKeeping(f) == [draft EXCEPT !.file = f]

\* chooseFile(): positions were measured on the old document.
Chosen(f) == [draft EXCEPT !.file = f, !.placed = Untouched]

ChooseFile(f) == Input(Chosen(f))

ToggleStamp(s) ==
  Input([draft EXCEPT !.chosen = IF s \in @ THEN @ \ {s} ELSE @ \union {s}])

\* The seal is dragged on the page of the file, or put back to its template's place.
DragOnDraft(s, back) ==
  /\ draft.file # Nothing /\ s \in draft.chosen /\ ~draft.busy
  /\ Input([draft EXCEPT !.placed[s] = IF back THEN Nothing ELSE draft.file])

\* handlePreview(): what is rendered is what the form held.
Preview ==
  /\ card.kind = "deliver" /\ draft.open
  /\ draft.file # Nothing /\ ~draft.busy
  /\ draft' = [draft EXCEPT !.busy = TRUE]
  /\ renders' = renders \union {[file |-> draft.file, placed |-> ChosenPlacements(draft)]}
  /\ UNCHANGED <<api, card, staging, sending, orphans, panel, sends, pm, landed, haste>>

\* The PDF arrives and is shown, whatever the form holds by then.
PreviewAnswered(x) ==
  /\ renders' = renders \ {x}
  /\ draft' = [draft EXCEPT !.render = x, !.busy = FALSE]
  /\ UNCHANGED <<api, card, staging, sending, orphans, panel, sends, pm, landed, haste>>

PreviewFailed(x) ==
  /\ renders' = renders \ {x}
  /\ draft' = [draft EXCEPT !.busy = FALSE]
  /\ UNCHANGED <<api, card, staging, sending, orphans, panel, sends, pm, landed, haste>>

\* reset() and onClose(); the dialog stays mounted.
CloseDraft ==
  /\ draft.open
  /\ draft' = ClosedDraft
  /\ haste' = IF renders = {} THEN haste \ {"typed"} ELSE haste \union {"typed"}
  /\ UNCHANGED <<api, card, renders, staging, sending, orphans, panel, sends, pm, landed>>

\* Continue to delivery: this file and its positions are staged.
ContinueToDelivery ==
  /\ draft.open /\ draft.render # NoRender /\ draft.file # Nothing
  /\ Stage(<<draft.file>>, <<ChosenPlacements(draft)>>, 0)
  /\ draft' = ClosedDraft
  /\ haste' = IF renders = {} THEN haste \ {"typed"} ELSE haste \union {"typed"}
  /\ UNCHANGED <<api, card, renders, sending, orphans, panel, sends, pm, landed>>

-----------------------------------------------------------------------------
(* The delivery dialog and its upload.                                     *)

DialogOpen == staging.files # <<>>

\* savePosition(): by the file's place in the list.
DragInDialog(i, s, back) ==
  /\ DialogOpen /\ ~staging.busy
  /\ staging' = [staging EXCEPT !.placed[i][s] = IF back THEN Nothing ELSE staging.files[i]]
  /\ UNCHANGED <<api, card, draft, renders, sending, orphans, panel, sends, pm, landed, haste>>

\* Closed before it is confirmed.
CancelDialog ==
  /\ DialogOpen /\ ~staging.busy
  /\ staging' = Unstaged
  /\ UNCHANGED <<api, card, draft, renders, sending, orphans, panel, sends, pm, landed, haste>>

\* Bound: the draft preview is used before the first upload and is over by then.
DraftsOver == renders = {} /\ draft = ClosedDraft

\* Confirmed: one upload carries the files and their positions, and gets a row.
Confirm ==
  /\ DialogOpen /\ ~staging.busy
  /\ DraftsOver
  /\ sending = NotSending /\ panel = "none"
  /\ sends < MaxSends /\ sends' = sends + 1
  /\ staging' = [staging EXCEPT !.busy = TRUE]
  /\ panel' = "active"
  /\ sending' = [kind |-> card.kind, files |-> staging.files, placed |-> staging.placed,
                 replaces |-> staging.replaces, pick |-> staging.pick, stage |-> "sent"]
  /\ haste' = haste \ {"typed"}
  /\ UNCHANGED <<api, card, draft, renders, orphans, pm, landed>>

\* Mutant of Amendable: corrections are taken while the PM reviews.
AmendableInReview == status \in {"delivered", "in_review"}

\* lockAmendableDelivery(): not once the PM has opened the review.
Amendable == status = "delivered"

\* deliver() and amendDelivery() under the project's lock.
Accepts(u) ==
  \/ u.kind = "deliver" /\ status \in {"claimed", "revision"} /\ round < MaxRounds
  \/ u.kind = "amend" /\ Amendable /\ u.replaces \in Ids(Newest) \union {0}

Accept(u) ==
  /\ Accepts(u)
  /\ IF u.kind = "deliver"
     THEN /\ status' = "delivered"
          /\ round' = round + 1
          /\ rows' = rows \union Made(u.files, u.placed, round + 1)
     ELSE /\ rows' = {x \in rows : x.id # u.replaces} \union Made(u.files, u.placed, round)
          /\ UNCHANGED <<status, round>>
  /\ made' = made + Len(u.files)
  /\ landed' = IF "lost" \in haste THEN landed ELSE Append(landed, u.pick)

Handle ==
  /\ sending.stage = "sent"
  /\ \/ /\ Accept(sending)
        /\ sending' = [sending EXCEPT !.stage = "accepted"]
     \/ /\ ~Accepts(sending)
        /\ sending' = [sending EXCEPT !.stage = "refused"]
        /\ UNCHANGED <<api, landed>>
  /\ UNCHANGED <<card, draft, renders, staging, orphans, panel, sends, pm, haste>>

\* A request whose caller gave up is carried out all the same, or never arrived whole.
HandleOrphan(u) ==
  /\ orphans' = orphans \ {u}
  /\ Accept(u) \/ UNCHANGED <<api, landed>>
  /\ UNCHANGED <<portal, pm, haste>>

\* Mutant of Settle: the panel is not told.
SettleUnseen(how) ==
  /\ sending' = NotSending
  /\ UNCHANGED <<panel, sends>>

\* The row of the upload comes to an end; done and cancelled ones go by themselves.
Settle(how) ==
  /\ panel' = how
  /\ sending' = NotSending
  /\ UNCHANGED sends

\* Is the dialog the upload came from still there?
Mine == staging.pick = sending.pick /\ DialogOpen

Answered ==
  /\ sending.stage = "accepted"
  /\ Settle("done")
  /\ staging' = IF Mine THEN Unstaged ELSE staging
  /\ UNCHANGED <<api, card, draft, renders, orphans, pm, landed, haste>>

\* The request whose fate its caller does not wait to learn.
Undecided == IF sending.stage = "sent" THEN {sending} ELSE {}

\* Refused, or the answer is lost.  A delivery's files stay for another try; a
\* correction's are let go of, for its card is loaded again.
Failed ==
  /\ sending.stage \in {"sent", "accepted", "refused"}
  /\ Settle("error")
  /\ staging' = CASE ~Mine                            -> staging
                   [] Mine /\ sending.kind = "amend"   -> Unstaged
                   [] OTHER                            -> [staging EXCEPT !.busy = FALSE]
  /\ orphans' = orphans \union Undecided
  /\ haste' = IF sending.stage = "refused" THEN haste ELSE haste \union {"lost"}
  /\ landed' = IF sending.stage = "refused" THEN landed ELSE <<>>
  /\ UNCHANGED <<api, card, draft, renders, pm>>

\* Mutant of Released: nothing clears the flag of an upload that was cancelled.
ReleasedNot == staging

\* The finally of submit() and submitDelivery().
Released == IF Mine THEN [staging EXCEPT !.busy = FALSE] ELSE staging

\* The translator cancels the upload in the panel, in the dark about what it did.
Abort ==
  /\ sending.stage \in {"sent", "accepted", "refused"}
  /\ Settle("cancelled")
  /\ staging' = Released
  /\ orphans' = orphans \union Undecided
  /\ haste' = haste \union {"lost"}
  /\ landed' = <<>>
  /\ UNCHANGED <<api, card, draft, renders, pm>>

\* remove(): a file is taken out of a delivery, never the last one.
RemoveDelivered(id) ==
  /\ Quiet /\ card.kind = "amend" /\ id \in card.files /\ Cardinality(card.files) > 1
  /\ Amendable /\ id \in Ids(Newest) /\ Cardinality(Newest) > 1
  /\ rows' = {x \in rows : x.id # id}
  /\ UNCHANGED <<status, round, made, portal, orphans, pm, landed, haste>>

-----------------------------------------------------------------------------
(* The panel.                                                              *)

\* Mutant of Lingers: nobody sets the timer of a cancelled row.
LingersDone == {"done"}

\* scheduleDismiss() is called for these; an error stays until it is read.
Lingers == {"done", "cancelled"}

\* dismiss() by hand and clearFinished(), or the row's timer.
Dismiss ==
  /\ panel \notin {"none", "active"}
  /\ panel' = "none"
  /\ UNCHANGED <<api, card, draft, renders, staging, sending, orphans, sends, pm, landed, haste>>

Timer == panel \in Lingers /\ Dismiss

-----------------------------------------------------------------------------
(* The PM.                                                                 *)

\* cached: what the dialog's query holds of the newest round, {} before it answered;
\* current: it was loaded since the review was opened; edits: only what the PM touched.
ClosedDialog(c, f) == [open |-> FALSE, cached |-> c, current |-> f, edits |-> {}]

OpenReview ==
  /\ status = "delivered"
  /\ status' = "in_review"
  /\ pm' = ClosedDialog(pm.cached, FALSE)
  /\ UNCHANGED <<rows, round, made, portal, orphans, landed, haste>>

RequestRevision ==
  /\ status = "in_review" /\ ~pm.open
  /\ round < MaxRounds
  /\ status' = "revision"
  /\ UNCHANGED <<rows, round, made, portal, orphans, pm, landed, haste>>

OpenApprove ==
  /\ status = "in_review" /\ ~pm.open
  /\ pm' = [pm EXCEPT !.open = TRUE, !.edits = {}]
  /\ UNCHANGED <<api, portal, orphans, landed, haste>>

\* The query answers; an answer younger than its staleTime is not asked for again.
LoadApprove ==
  /\ pm.open /\ ~pm.current
  /\ pm' = [pm EXCEPT !.cached = Newest, !.current = TRUE]
  /\ UNCHANGED <<api, portal, orphans, landed, haste>>

CloseApprove ==
  /\ pm.open
  /\ pm' = ClosedDialog(pm.cached, pm.current)
  /\ UNCHANGED <<api, portal, orphans, landed, haste>>

Edited(x, s) == {e \in pm.edits : e.id = x.id /\ e.seal = s}

\* One seal of one file listed is moved, or put back to its template's place.
MoveSeal(x, s, back) ==
  /\ pm.open
  /\ Cardinality(pm.edits \ Edited(x, s)) < MaxEdits
  /\ pm' = [pm EXCEPT !.edits =
              (@ \ Edited(x, s))
              \union {[id |-> x.id, seal |-> s, at |-> IF back THEN Nothing ELSE x.file]}]
  /\ UNCHANGED <<api, portal, orphans, landed, haste>>

\* Mutant of Applied: what the PM left alone goes back to the template.
AppliedOver(x) ==
  [s \in Seals |-> IF Edited(x, s) # {} THEN (CHOOSE e \in Edited(x, s) : TRUE).at
                   ELSE Nothing]

\* applyPlacements(): what was moved is moved, what was put back is taken off the row.
Applied(x) ==
  [s \in Seals |-> IF Edited(x, s) # {} THEN (CHOOSE e \in Edited(x, s) : TRUE).at
                   ELSE x.placed[s]]

Approve ==
  /\ pm.open
  /\ status = "in_review"
  /\ status' = "approved"
  /\ rows' = {[x EXCEPT !.placed = Applied(x)] : x \in rows}
  /\ pm' = [pm EXCEPT !.open = FALSE]
  /\ UNCHANGED <<round, made, portal, orphans, landed, haste>>

-----------------------------------------------------------------------------
Init ==
  /\ status = "claimed" /\ rows = {} /\ round = 0 /\ made = 0
  /\ card = Shown
  /\ draft = ClosedDraft /\ renders = {}
  /\ staging = NoStaging(0)
  /\ sending = NotSending /\ orphans = {}
  /\ panel = "none" /\ sends = 0
  /\ pm = ClosedDialog({}, FALSE)
  /\ landed = <<>> /\ haste = {}

DraftStep ==
  \/ OpenDraft \/ CloseDraft \/ Preview \/ ContinueToDelivery
  \/ \E f \in Docs : ChooseFile(f)
  \/ \E s \in Seals : ToggleStamp(s)
  \/ \E s \in Seals, back \in BOOLEAN : DragOnDraft(s, back)

DialogStep ==
  \/ \E fs \in Selections : PickFiles(fs)
  \/ \E f \in Docs, id \in card.files : PickReplacement(f, id)
  \/ \E i \in DOMAIN staging.files, s \in Seals, back \in BOOLEAN : DragInDialog(i, s, back)
  \/ CancelDialog \/ Confirm
  \/ \E id \in card.files : RemoveDelivered(id)

Network ==
  \/ Handle \/ Answered \/ Failed
  \/ \E x \in renders : PreviewAnswered(x) \/ PreviewFailed(x)

PanelStep ==
  Abort \/ Dismiss

OfficeStep ==
  \/ OpenReview \/ RequestRevision \/ OpenApprove \/ LoadApprove \/ CloseApprove \/ Approve
  \/ \E x \in pm.cached, s \in Seals, back \in BOOLEAN : MoveSeal(x, s, back)

Next ==
  \/ DraftStep \/ DialogStep \/ Network \/ PanelStep \/ Timer \/ OfficeStep
  \/ Refresh
  \/ \E u \in orphans : HandleOrphan(u)

Spec == Init /\ [][Next]_vars

\* Every request ends, in an answer or an error, and timers fire.
FairSpec == Spec /\ WF_vars(Network) /\ WF_vars(Timer)

-----------------------------------------------------------------------------
(* Properties.                                                             *)

PlacedRow == [id : Nat, file : Docs, round : Nat, placed : Placings, given : Placings]
Rendering == [file : Places, placed : Placings]
Drafts    == [open : BOOLEAN, file : Places, chosen : SUBSET Seals, placed : Placings,
              render : Rendering, busy : BOOLEAN]
Stagings  == [files : Seq(Docs), placed : Seq(Placings), replaces : Nat, busy : BOOLEAN,
              pick : 0..MaxPicks]
Uploads   == [kind : {"deliver", "amend", "none"}, files : Seq(Docs), placed : Seq(Placings),
              replaces : Nat, pick : 0..MaxPicks,
              stage : {"idle", "sent", "accepted", "refused"}]
\* As many positions as files.
Paired(u) == Len(u.placed) = Len(u.files)
Edits     == [id : Nat, seal : Seals, at : Places]
Dialogs   == [open : BOOLEAN, cached : SUBSET PlacedRow, current : BOOLEAN, edits : SUBSET Edits]

\* Every variable holds what the code keeps there: a position for every file, a row of
\* the panel for every upload the page waits for, and no id the API has not given out.
TypeOK ==
  /\ status \in {"claimed", "delivered", "in_review", "revision", "approved"}
  /\ rows \subseteq PlacedRow /\ round \in 0..MaxRounds /\ made \in Nat
  /\ card \in [kind : {"deliver", "amend", "none"}, files : SUBSET (1..made)]
  /\ draft \in Drafts /\ renders \subseteq Rendering
  /\ staging \in Stagings /\ sending \in Uploads /\ orphans \subseteq Uploads
  /\ Paired(staging) /\ Paired(sending) /\ \A u \in orphans : Paired(u)
  /\ panel \in {"none", "active", "done", "error", "cancelled"} /\ sends \in 0..MaxSends
  /\ panel = "active" <=> sending # NotSending
  /\ pm \in Dialogs
  /\ landed \in Seq(0..MaxPicks) /\ haste \subseteq {"typed", "lost"}

\* A seal's position is used on the document it was measured on, from the draft through
\* the dialog, the upload and the corrections to the row the merge reads
\* (draft-preview-dialog.tsx:116, portal/page.tsx:380, awaiting-review.tsx:77).  And the
\* draft shown is of the file, the seals and the positions in the form, unless an input
\* was changed while a render was under way (draft-preview-dialog.tsx:97).
PlacedOnItsOwn ==
  /\ \A x \in rows : \A s \in Seals : x.placed[s] \in {Nothing, x.file}
  /\ DialogOpen => \A i \in DOMAIN staging.files : \A s \in Seals :
                     staging.placed[i][s] \in {Nothing, staging.files[i]}
  /\ draft.render # NoRender /\ "typed" \notin haste =>
       draft.render = [file |-> draft.file, placed |-> ChosenPlacements(draft)]

\* What was chosen once is delivered or added once, as long as no upload was cancelled
\* and no answer lost (portal/page.tsx:437, awaiting-review.tsx:123).
HandedOverOnce == "lost" \notin haste => IsInjective(landed)

\* At approval a seal sits where the PM put it, and where the translator had put it if
\* the PM did not touch it (approve-dialog.tsx:148, ReviewController::applyPlacements).
LastWord ==
  \A x \in Newest, s \in Seals :
    IF Edited(x, s) = {} THEN x.placed[s] = x.given[s]
    ELSE \A e \in Edited(x, s) : x.placed[s] = e.at

\* What is approved is what the dialog listed once its list was loaded in this review: no
\* late correction gets in between (PortalService::lockAmendableDelivery); and every seal
\* of it is where it was seen.
ApprovedAsShown ==
  status = "approved" =>
    /\ LastWord
    /\ pm.current => Ids(pm.cached) = Ids(Newest)

(* Why they hold: the inductive invariant.                                 *)

\* The API gives every id once, and what the PM was shown of a row is still its file.
IdsApart ==
  /\ \A x \in rows : x.id \in 1..made /\ \A y \in rows : x.id = y.id => x = y
  /\ \A y \in pm.cached : y.id \in 1..made /\ \A x \in rows : x.id = y.id => x.file = y.file

\* What is on its way, or in a form, has each position on the document it is for.
WellPlaced(u) ==
  \A i \in DOMAIN u.files : \A s \in Seals : u.placed[i][s] \in {Nothing, u.files[i]}

UnderWayPlaced ==
  /\ \A s \in Seals : draft.placed[s] \in {Nothing, draft.file}
  /\ WellPlaced(staging) /\ WellPlaced(sending) /\ \A u \in orphans : WellPlaced(u)

\* What the PM moved is a seal of a row that was listed, on the row's own file.
EditsPlaced ==
  \A e \in pm.edits : /\ e.id \in 1..made
                      /\ \A x \in rows : x.id = e.id => e.at \in {Nothing, x.file}

\* The form as a render shows it; nothing else is being rendered unless it was changed.
FormOf(d) == [file |-> d.file, placed |-> ChosenPlacements(d)]
RendersOfForm == "typed" \notin haste => renders \subseteq {FormOf(draft)}

\* A dialog waits for its own upload; what landed is not in a dialog that can be
\* confirmed, and nobody has given up on an upload.
OneUploadEach ==
  /\ sending.pick <= staging.pick
  /\ sending.stage = "idle" <=> sending = NotSending
  /\ sending # NotSending /\ Mine => staging.busy
  /\ "lost" \notin haste =>
       /\ orphans = {}
       /\ \A i \in DOMAIN landed :
            /\ landed[i] <= staging.pick
            /\ sending.stage = "sent" => landed[i] # sending.pick
            /\ DialogOpen /\ landed[i] = staging.pick =>
                 sending.stage = "accepted" /\ sending.pick = landed[i]

\* The PM decides on a review that stands still: the dialog is open only in it, a list
\* loaded in it is that of the rows, one position per seal, nothing moved before.
ReviewStands ==
  /\ pm.open => status = "in_review"
  /\ pm.current /\ status \in {"in_review", "approved"} => Ids(pm.cached) = Ids(Newest)
  /\ \A e, g \in pm.edits : e.id = g.id /\ e.seal = g.seal => e = g
  /\ status # "approved" => \A x \in rows : x.placed = x.given

IInv == /\ TypeOK /\ IdsApart /\ UnderWayPlaced /\ EditsPlaced /\ RendersOfForm
        /\ OneUploadEach /\ ReviewStands
        /\ PlacedOnItsOwn /\ HandedOverOnce /\ ApprovedAsShown

-----------------------------------------------------------------------------
\* Nothing hangs: a transfer that is done or cancelled leaves the panel without anybody's
\* help (transfers.tsx:85), and a confirmed dialog closes or can be confirmed again
\* (portal/page.tsx:443, awaiting-review.tsx:132).
NothingHangs ==
  /\ panel \in {"done", "cancelled"} ~> panel = "none"
  /\ staging.busy ~> ~staging.busy

(* What the comments say and the code does not do.                         *)

\* "A stale draft is worse than none — any input change discards the render"
\* (draft-preview-dialog.tsx:96).
NoStaleDraft ==
  draft.render # NoRender =>
    draft.render = [file |-> draft.file, placed |-> ChosenPlacements(draft)]

\* "The newest round's deliverables — exactly the files the merge will letterhead"
\* (approve-dialog.tsx:102).
ListIsTheNewestRound ==
  pm.open /\ pm.cached # {} => Ids(pm.cached) = Ids(Newest)
=============================================================================
