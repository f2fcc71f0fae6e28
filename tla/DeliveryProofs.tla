--------------------------- MODULE DeliveryProofs ---------------------------
(***************************************************************************)
(* Theorems about Placement, for all positions and sheets, and about       *)
(* Delivery, for any documents, seals, uploads, rounds and edits.          *)
(***************************************************************************)
EXTENDS Delivery, Placement, FiniteSetTheorems, SequenceTheorems, TLAPS

-----------------------------------------------------------------------------
(* Placement.                                                              *)

\* However a seal is dragged, some of it stays on a sheet that is no smaller than what
\* has to stay: it cannot be lost off the surface (stamp-positioner.tsx:74).
THEOREM NeverLost ==
  ASSUME NEW v \in Int, NEW seal \in Nat, NEW sheet \in Nat, sheet >= Least(KeepOnPage, seal)
  PROVE  /\ Clamp(v, seal, sheet) + seal >= Least(KeepOnPage, seal)
         /\ sheet - Clamp(v, seal, sheet) >= Least(KeepOnPage, seal)
<1>1. CASE KeepOnPage < seal
  BY <1>1 DEF Clamp, Least, Greatest, KeepOnPage
<1>2. CASE ~(KeepOnPage < seal)
  BY <1>2 DEF Clamp, Least, Greatest, KeepOnPage
<1>3. QED
  BY <1>1, <1>2

\* A drag that asks for a place inside the sheet gets it: clamping does not move a seal
\* that is wholly on the page.
THEOREM InsideIsFree ==
  ASSUME NEW v \in Nat, NEW seal \in Nat, NEW sheet \in Nat, v + seal <= sheet
  PROVE  Clamp(v, seal, sheet) = v
BY DEF Clamp, Least, Greatest, KeepOnPage

\* A seal is drawn where it was dropped, at its template's size and on the pages chosen:
\* what was in hand is what the merge resolves (stamp-positioner.tsx:27 "what the
\* translator lines up by eye is what comes out of the merge").
THEOREM DrawnWhereDropped ==
  ASSUME NEW t \in Templates, NEW p \in Positions, NEW size \in Sheets, NEW sheet \in Sheets
  PROVE  /\ ResolveRect(Normalize(p, t), size, sheet) = InHand(t, p, size)
         /\ \A n \in Nat : \A page \in 1..n :
              AppliesToPage(Normalize(p, t).pages, page, n) = SealOnPage(p.pages, page, n)
<1>1. ResolveRect(Normalize(p, t), size, sheet) = InHand(t, p, size)
  BY DEF ResolveRect, InHand, Normalize
<1>2. p.pages \in PageChoices
  BY DEF Positions
<1>3. ASSUME NEW n \in Nat, NEW page \in 1..n
      PROVE  AppliesToPage(Normalize(p, t).pages, page, n) = SealOnPage(p.pages, page, n)
  BY <1>2 DEF AppliesToPage, SealOnPage, PageChoices, Normalize
<1>4. QED
  BY <1>1, <1>3

\* A seal at rest is shown among the others where the merge will put it, from whichever
\* corner or edge it is measured (placement.ts:118, "change them together").
THEOREM AtRestAgree ==
  ASSUME NEW t \in Templates, NEW size \in Sheets, NEW sheet \in Sheets
  PROVE  ResolveRect(t, size, sheet) = SealRect(t, size, sheet)
<1>1. /\ t.x \in Int /\ t.y \in Int /\ t.width \in Nat
      /\ t.h \in Horizontals /\ t.v \in Verticals
      /\ sheet.width \in Nat /\ sheet.height \in Nat /\ size.height \in Nat
  BY DEF Templates, Sheets
<1>2. ResolveRect(t, size, sheet).x = SealRect(t, size, sheet).x
  BY <1>1 DEF ResolveRect, SealRect, Horizontals
<1>3. ResolveRect(t, size, sheet).y = SealRect(t, size, sheet).y
  BY <1>1 DEF ResolveRect, SealRect, Verticals
<1>4. QED
  BY <1>2, <1>3 DEF ResolveRect, SealRect

-----------------------------------------------------------------------------
(* The parts of the inductive invariant, by what they are about.           *)

\* The API's rows and the PM's dialog on them.
RowsPlaced == \A x \in rows : \A s \in Seals : x.placed[s] \in {Nothing, x.file}

RowsSound ==
  /\ status \in {"claimed", "delivered", "in_review", "revision", "approved"}
  /\ rows \subseteq PlacedRow /\ round \in 0..MaxRounds /\ made \in Nat /\ pm \in Dialogs
  /\ IdsApart /\ EditsPlaced /\ ReviewStands /\ RowsPlaced /\ ApprovedAsShown

\* The draft preview.
DraftPlaced == \A s \in Seals : draft.placed[s] \in {Nothing, draft.file}
RenderShown == draft.render # NoRender /\ "typed" \notin haste => draft.render = FormOf(draft)

DraftSound ==
  /\ draft \in Drafts /\ renders \subseteq Rendering
  /\ DraftPlaced /\ RendersOfForm /\ RenderShown

\* The delivery dialog, its upload and the panel.
UploadsTyped ==
  /\ staging \in Stagings /\ sending \in Uploads /\ orphans \subseteq Uploads
  /\ Paired(staging) /\ Paired(sending) /\ \A u \in orphans : Paired(u)
  /\ panel \in {"none", "active", "done", "error", "cancelled"} /\ sends \in 0..MaxSends
  /\ panel = "active" <=> sending # NotSending
  /\ landed \in Seq(0..MaxPicks)
  /\ WellPlaced(staging) /\ WellPlaced(sending) /\ \A u \in orphans : WellPlaced(u)

UploadsSound == UploadsTyped /\ OneUploadEach /\ HandedOverOnce

\* The portal page's card, and what is noted of the translator.
CardSound ==
  /\ card \in [kind : {"deliver", "amend", "none"}, files : SUBSET (1..made)]
  /\ haste \subseteq {"typed", "lost"}

LEMMA Parts ==
  /\ IInv <=> RowsSound /\ DraftSound /\ UploadsSound /\ CardSound
  /\ IInv' <=> RowsSound' /\ DraftSound' /\ UploadsSound' /\ CardSound'
BY DEF IInv, RowsSound, DraftSound, UploadsSound, UploadsTyped, CardSound, TypeOK, UnderWayPlaced,
       RowsPlaced, DraftPlaced, RenderShown, PlacedOnItsOwn, FormOf, WellPlaced, DialogOpen

\* What a step leaves alone stays sound.
LEMMA RowsFrame ==
  ASSUME RowsSound, UNCHANGED <<status, rows, round, made, pm>>
  PROVE  RowsSound'
<1>1. Ids(Newest)' = Ids(Newest) /\ Ids(pm.cached)' = Ids(pm.cached)
  BY DEF Ids, Newest
<1>2. IdsApart' /\ EditsPlaced' /\ RowsPlaced'
  BY DEF RowsSound, IdsApart, EditsPlaced, RowsPlaced
<1>3. ReviewStands'
  BY <1>1 DEF RowsSound, ReviewStands
<1>4. LastWord' <=> LastWord
  BY DEF LastWord, Edited, Newest
<1>5. ApprovedAsShown'
  BY <1>1, <1>4 DEF RowsSound, ApprovedAsShown
<1> QED BY <1>2, <1>3, <1>5 DEF RowsSound

LEMMA DraftFrame ==
  ASSUME DraftSound, UNCHANGED <<draft, renders>>, "typed" \in haste <=> "typed" \in haste'
  PROVE  DraftSound'
BY DEF DraftSound, DraftPlaced, RendersOfForm, RenderShown, FormOf, ChosenPlacements, NoRender

LEMMA UploadsFrame ==
  ASSUME UploadsSound, UNCHANGED <<staging, sending, orphans, panel, sends, landed>>,
         "lost" \in haste <=> "lost" \in haste'
  PROVE  UploadsSound'
BY DEF UploadsSound, UploadsTyped, OneUploadEach, HandedOverOnce, Paired, WellPlaced, Mine,
       DialogOpen, NotSending

LEMMA CardFrame ==
  ASSUME CardSound, made \in Nat, made' \in Nat, made' >= made, UNCHANGED card,
         haste' \subseteq {"typed", "lost"}
  PROVE  CardSound'
BY DEF CardSound

-----------------------------------------------------------------------------
(* The draft preview.                                                      *)

LEMMA Fresh ==
  /\ Untouched \in Placings /\ NoRender \in Rendering /\ ClosedDraft \in Drafts
  /\ ClosedDraft.render = NoRender
  /\ \A s \in Seals : ClosedDraft.placed[s] = Nothing
BY DEF Untouched, Placings, Places, NoRender, Rendering, ClosedDraft, Drafts, Preselected

LEMMA FormTyped ==
  ASSUME NEW d \in Drafts
  PROVE  ChosenPlacements(d) \in Placings /\ FormOf(d) \in Rendering
BY DEF Drafts, ChosenPlacements, Placings, Places, FormOf, Rendering

\* Whatever changes the form while a render is under way is noted.
LEMMA FormChanged ==
  ASSUME DraftSound, draft' \in Drafts, draft'.render = NoRender, UNCHANGED renders,
         \A s \in Seals : draft'.placed[s] \in {Nothing, draft'.file},
         haste' = IF renders = {} THEN haste \ {"typed"} ELSE haste \union {"typed"}
  PROVE  DraftSound'
<1>1. "typed" \notin haste' => renders' = {}
  OBVIOUS
<1>2. DraftPlaced'
  BY DEF DraftPlaced
<1>3. RendersOfForm' /\ RenderShown'
  BY <1>1 DEF RendersOfForm, RenderShown, NoRender, Untouched
<1> QED BY <1>2, <1>3 DEF DraftSound

LEMMA InputInv ==
  ASSUME DraftSound, NEW d \in Drafts, \A s \in Seals : d.placed[s] \in {Nothing, d.file},
         Input(d)
  PROVE  DraftSound'
<1>1. draft' = [d EXCEPT !.render = NoRender]
  BY DEF Input, Discarded
<1>2. /\ draft' \in Drafts /\ draft'.render = NoRender
      /\ draft'.placed = d.placed /\ draft'.file = d.file
  BY <1>1, Fresh DEF Drafts
<1> QED BY <1>2, FormChanged DEF Input

\* Every step on the draft alone.
LEMMA DraftStepInv ==
  ASSUME DraftSound,
         \/ OpenDraft \/ CloseDraft \/ Preview
         \/ \E f \in Docs : ChooseFile(f)
         \/ \E s \in Seals : ToggleStamp(s)
         \/ \E s \in Seals, back \in BOOLEAN : DragOnDraft(s, back)
         \/ \E x \in renders : PreviewAnswered(x) \/ PreviewFailed(x)
  PROVE  DraftSound'
<1> USE DEF DraftSound
<1>1. CASE OpenDraft
  <2>1. /\ draft' \in Drafts /\ UNCHANGED <<renders, haste>>
        /\ draft'.file = draft.file /\ draft'.placed = draft.placed
        /\ draft'.chosen = draft.chosen /\ draft'.render = draft.render
    BY <1>1 DEF OpenDraft, Drafts
  <2> QED BY <2>1 DEF DraftPlaced, RendersOfForm, RenderShown, FormOf, ChosenPlacements, NoRender,
                      Untouched
<1>2. CASE CloseDraft
  BY <1>2, Fresh, FormChanged DEF CloseDraft
<1>3. CASE Preview
  <2>1. /\ draft' \in Drafts /\ UNCHANGED haste
        /\ draft'.file = draft.file /\ draft'.placed = draft.placed
        /\ draft'.chosen = draft.chosen /\ draft'.render = draft.render
        /\ renders' = renders \union {FormOf(draft)}
    BY <1>3 DEF Preview, Drafts, FormOf
  <2>2. FormOf(draft)' = FormOf(draft)
    BY <2>1 DEF FormOf, ChosenPlacements
  <2> QED BY <2>1, <2>2, FormTyped DEF DraftPlaced, RendersOfForm, RenderShown, NoRender, Untouched
<1>4. ASSUME NEW f \in Docs, ChooseFile(f) PROVE DraftSound'
  <2>1. /\ Chosen(f) \in Drafts
        /\ \A s \in Seals : Chosen(f).placed[s] = Nothing
    BY Fresh DEF Chosen, Drafts, Untouched, Places
  <2> QED BY <1>4, <2>1, InputInv DEF ChooseFile
<1>5. ASSUME NEW s \in Seals, ToggleStamp(s) PROVE DraftSound'
  <2> DEFINE d == [draft EXCEPT !.chosen = IF s \in @ THEN @ \ {s} ELSE @ \union {s}]
  <2>1. d \in Drafts /\ d.placed = draft.placed /\ d.file = draft.file
    BY DEF Drafts
  <2> QED BY <1>5, <2>1, InputInv DEF ToggleStamp, DraftPlaced
<1>6. ASSUME NEW s \in Seals, NEW back \in BOOLEAN, DragOnDraft(s, back) PROVE DraftSound'
  <2> DEFINE d == [draft EXCEPT !.placed[s] = IF back THEN Nothing ELSE draft.file]
  <2>1. /\ d \in Drafts /\ d.file = draft.file
        /\ d.placed = [draft.placed EXCEPT ![s] = IF back THEN Nothing ELSE draft.file]
    BY DEF Drafts, Placings, Places
  <2>2. \A q \in Seals : d.placed[q] \in {Nothing, d.file}
    BY <2>1 DEF DraftPlaced, Drafts, Placings
  <2> QED BY <1>6, <2>1, <2>2, InputInv DEF DragOnDraft
<1>7. ASSUME NEW x \in renders, PreviewAnswered(x) \/ PreviewFailed(x) PROVE DraftSound'
  <2>1. /\ draft' \in Drafts /\ renders' \subseteq renders /\ UNCHANGED haste
        /\ draft'.file = draft.file /\ draft'.placed = draft.placed
        /\ draft'.chosen = draft.chosen /\ draft'.render \in {x, draft.render}
    BY <1>7 DEF PreviewAnswered, PreviewFailed, Drafts
  <2>2. FormOf(draft)' = FormOf(draft) /\ NoRender' = NoRender
    BY <2>1 DEF FormOf, ChosenPlacements, NoRender, Untouched
  <2>3. RenderShown'
    BY <2>1, <2>2 DEF RenderShown, RendersOfForm
  <2> QED BY <2>1, <2>2, <2>3 DEF DraftPlaced, RendersOfForm
<1> QED BY <1>1, <1>2, <1>3, <1>4, <1>5, <1>6, <1>7

\* Continue to delivery closes the draft; a card that goes takes it along.
LEMMA DraftClosedInv ==
  ASSUME DraftSound, ContinueToDelivery \/ Refresh
  PROVE  DraftSound'
<1>1. CASE ContinueToDelivery
  BY <1>1, Fresh, FormChanged DEF ContinueToDelivery, DraftSound
<1>2. CASE Refresh /\ draft' = ClosedDraft /\ renders' = {}
  BY <1>2, Fresh DEF DraftSound, DraftPlaced, RendersOfForm, RenderShown, NoRender, Untouched
<1>3. CASE Refresh /\ UNCHANGED <<draft, renders>>
  BY <1>3, DraftFrame DEF Refresh
<1> QED BY <1>1, <1>2, <1>3 DEF Refresh

-----------------------------------------------------------------------------
(* The delivery dialog and its upload.                                     *)

\* A selection lists some of the documents, each once.
LEMMA SelectionsAreLists ==
  ASSUME NEW fs \in Selections
  PROVE  fs \in Seq(Docs)
<1>1. PICK ds \in SUBSET Docs : fs = SetToSeq(ds)
  BY DEF Selections
<1>2. IsFiniteSet(ds)
  BY <1>1, DocsAssumption, FS_Subset
<1>3. /\ Cardinality(ds) \in Nat
      /\ \E f \in [1..Cardinality(ds) -> ds] : IsInjective(f)
  BY <1>2, FS_CardinalityType DEF ExistsBijection, Bijection, Injection
<1>4. fs \in [1..Cardinality(ds) -> ds]
  BY <1>1, <1>3 DEF SetToSeq
<1> QED BY <1>1, <1>3, <1>4, SeqDef

\* The staging changes while the upload does not: new files get a number of their own,
\* and with the old number there is the dialog that was there or none.
LEMMA StagedInv ==
  ASSUME UploadsSound, staging' \in Stagings, Paired(staging)', WellPlaced(staging)',
         UNCHANGED <<sending, orphans, panel, sends, landed>>,
         "lost" \in haste <=> "lost" \in haste',
         \/ staging'.pick > staging.pick
         \/ staging'.pick = staging.pick /\ staging'.files = <<>>
         \/ staging'.pick = staging.pick /\ DialogOpen /\ staging'.busy = staging.busy
  PROVE  UploadsSound'
<1> USE DEF UploadsSound
<1>1. /\ staging.pick \in Nat /\ staging'.pick \in Nat /\ sending.pick \in Nat
      /\ \A i \in DOMAIN landed : landed[i] \in Nat
  <2>1. 0..MaxPicks \subseteq Nat /\ staging \in Stagings /\ sending \in Uploads
    BY BoundsAssumption DEF UploadsTyped
  <2>2. \A i \in 1..Len(landed) : landed[i] \in 0..MaxPicks
    BY ElementOfSeq DEF UploadsTyped
  <2>3. DOMAIN landed = 1..Len(landed)
    BY LenProperties DEF UploadsTyped
  <2> QED BY <2>1, <2>2, <2>3 DEF Stagings, Uploads
<1>2. UploadsTyped'
  BY DEF UploadsTyped, Paired, WellPlaced, NotSending
<1>3. OneUploadEach'
  BY <1>1 DEF OneUploadEach, Mine, DialogOpen, NotSending
<1> QED BY <1>2, <1>3 DEF HandedOverOnce

\* Each choice of files, drag and cancellation.
LEMMA StagingInv ==
  ASSUME UploadsSound, card.files \subseteq Nat,
         \/ \E fs \in Selections : PickFiles(fs)
         \/ \E f \in Docs, id \in card.files : PickReplacement(f, id)
         \/ \E i \in DOMAIN staging.files, s \in Seals, back \in BOOLEAN : DragInDialog(i, s, back)
         \/ CancelDialog \/ Refresh
  PROVE  UploadsSound'
<1> USE DEF UploadsSound
<1>1. staging \in Stagings /\ Paired(staging) /\ WellPlaced(staging) /\ MaxPicks \in Nat
  BY BoundsAssumption DEF UploadsTyped
<1>2. \A k \in 0..MaxPicks : /\ NoStaging(k) \in Stagings /\ Paired(NoStaging(k))
                             /\ WellPlaced(NoStaging(k))
                             /\ NoStaging(k).pick = k /\ NoStaging(k).files = <<>>
  BY DEF NoStaging, Stagings, Paired, WellPlaced
<1>3. ASSUME NEW fs \in Seq(Docs), NEW k \in Nat, Stage(fs, Plain(fs), k)
      PROVE  /\ staging' \in Stagings /\ Paired(staging)' /\ WellPlaced(staging)'
             /\ staging'.pick > staging.pick
  <2>1. Plain(fs) \in Seq(Placings) /\ Len(Plain(fs)) = Len(fs)
    BY Fresh DEF Plain
  <2>2. \A i \in DOMAIN fs : \A s \in Seals : Plain(fs)[i][s] = Nothing
    BY DEF Plain, Untouched
  <2> QED BY <1>1, <1>3, <2>1, <2>2 DEF Stage, Stagings, Paired, WellPlaced
<1>4. ASSUME NEW fs \in Selections, PickFiles(fs) PROVE UploadsSound'
  BY <1>3, <1>4, SelectionsAreLists, StagedInv DEF PickFiles
<1>5. ASSUME NEW f \in Docs, NEW id \in card.files, PickReplacement(f, id) PROVE UploadsSound'
  <2>1. <<f>> \in Seq(Docs) /\ id \in Nat
    OBVIOUS
  <2> QED BY <1>3, <1>5, <2>1, StagedInv DEF PickReplacement
<1>6. ASSUME NEW i \in DOMAIN staging.files, NEW s \in Seals, NEW back \in BOOLEAN,
             DragInDialog(i, s, back)
      PROVE  UploadsSound'
  <2> DEFINE at == IF back THEN Nothing ELSE staging.files[i]
             ps == [staging.placed EXCEPT ![i] = [@ EXCEPT ![s] = at]]
  <2>1. staging' = [staging EXCEPT !.placed = ps]
    BY <1>1, <1>6 DEF DragInDialog, Stagings
  <2>2. at \in Places /\ i \in DOMAIN staging.placed
    BY <1>1 DEF Places, Stagings, Paired
  <2>3. ps \in Seq(Placings) /\ Len(ps) = Len(staging.placed)
    <3>1. [staging.placed[i] EXCEPT ![s] = at] \in Placings
      BY <1>1, <2>2 DEF Placings, Stagings
    <3> QED BY <1>1, <2>2, <3>1 DEF Stagings
  <2>4. \A j \in DOMAIN staging.files : \A q \in Seals :
          ps[j][q] \in {Nothing, staging.files[j]}
    BY <1>1, <2>2 DEF WellPlaced, Stagings, Placings, Paired
  <2> HIDE DEF ps
  <2>5. /\ staging' \in Stagings /\ Paired(staging)' /\ WellPlaced(staging)'
        /\ staging'.pick = staging.pick /\ staging'.busy = staging.busy
    BY <1>1, <2>1, <2>3, <2>4 DEF Stagings, Paired, WellPlaced
  <2> QED BY <1>6, <2>5, StagedInv DEF DragInDialog
<1>7. CASE CancelDialog
  BY <1>1, <1>2, <1>7, StagedInv DEF CancelDialog, Unstaged, Stagings
<1>8. CASE Refresh /\ staging' = NoStaging(staging.pick)
  BY <1>1, <1>2, <1>8, StagedInv DEF Refresh, Stagings
<1>9. CASE Refresh /\ UNCHANGED staging
  BY <1>9, UploadsFrame DEF Refresh
<1> QED BY <1>4, <1>5, <1>6, <1>7, <1>8, <1>9 DEF Refresh

\* A draft that was shown is staged as it is.
LEMMA ContinueInv ==
  ASSUME UploadsSound, DraftSound, ContinueToDelivery
  PROVE  UploadsSound'
<1>1. staging \in Stagings /\ MaxPicks \in Nat /\ draft \in Drafts
  BY BoundsAssumption DEF UploadsSound, UploadsTyped, DraftSound
<1>2. draft.file \in Docs /\ ChosenPlacements(draft) \in Placings
  BY <1>1, FormTyped DEF ContinueToDelivery, Drafts, Places
<1>3. \A s \in Seals : ChosenPlacements(draft)[s] \in {Nothing, draft.file}
  BY DEF ChosenPlacements, DraftSound, DraftPlaced
<1>4. /\ staging' \in Stagings /\ Paired(staging)' /\ WellPlaced(staging)'
      /\ staging'.pick > staging.pick
  BY <1>1, <1>2, <1>3 DEF ContinueToDelivery, Stage, Stagings, Paired, WellPlaced
<1>5. UNCHANGED <<sending, orphans, panel, sends, landed>> /\ ("lost" \in haste <=> "lost" \in haste')
  BY DEF ContinueToDelivery
<1> QED BY <1>4, <1>5, StagedInv

-----------------------------------------------------------------------------
(* The upload, from its confirmation to its end.                           *)

\* An upload is sent as the dialog shows it, and nothing of that choice has landed.
LEMMA ConfirmInv ==
  ASSUME UploadsSound, card.kind \in {"deliver", "amend", "none"}, Confirm
  PROVE  UploadsSound'
<1>1. sends' \in 0..MaxSends
  BY BoundsAssumption DEF Confirm, UploadsSound, UploadsTyped
<1>2. /\ staging' \in Stagings /\ Paired(staging)' /\ WellPlaced(staging)'
      /\ staging'.pick = staging.pick /\ staging'.busy = TRUE /\ staging'.files = staging.files
  BY DEF Confirm, UploadsSound, UploadsTyped, Stagings, Paired, WellPlaced
<1>3. /\ sending' \in Uploads /\ Paired(sending)' /\ WellPlaced(sending)'
      /\ sending'.pick = staging.pick /\ sending'.stage = "sent" /\ sending' # NotSending
  BY DEF Confirm, UploadsSound, UploadsTyped, Stagings, Uploads, Paired, WellPlaced, NotSending
<1>4. NotSending' = NotSending /\ UNCHANGED <<orphans, landed>> /\ panel' = "active"
  BY DEF Confirm, NotSending
<1>5. UploadsTyped'
  BY <1>1, <1>2, <1>3, <1>4 DEF UploadsSound, UploadsTyped, Paired, WellPlaced
<1>6. "lost" \notin haste => \A i \in DOMAIN landed : landed[i] # staging.pick
  BY DEF Confirm, UploadsSound, OneUploadEach, NotSending
<1>7. "lost" \in haste <=> "lost" \in haste'
  BY DEF Confirm
<1>8. OneUploadEach'
  <2>1. sending'.pick <= staging'.pick
    BY <1>2, <1>3, BoundsAssumption DEF UploadsSound, UploadsTyped, Stagings
  <2> QED BY <1>2, <1>3, <1>4, <1>6, <1>7, <2>1 DEF UploadsSound, OneUploadEach
<1>9. HandedOverOnce'
  BY <1>4, <1>7 DEF UploadsSound, HandedOverOnce
<1> QED BY <1>5, <1>8, <1>9 DEF UploadsSound

\* The API answers the upload the page waits for.
LEMMA HandleInv ==
  ASSUME UploadsSound, Handle
  PROVE  UploadsSound'
<1> USE DEF UploadsSound
<1>1. /\ sending \in Uploads /\ sending.pick \in 0..MaxPicks /\ sending.stage = "sent"
      /\ staging.pick \in Nat /\ sending.pick \in Nat /\ sending.pick <= staging.pick
  BY BoundsAssumption DEF Handle, UploadsTyped, OneUploadEach, Uploads, Stagings
<1>2. /\ sending' \in Uploads /\ sending'.stage \in {"accepted", "refused"}
      /\ sending'.files = sending.files /\ sending'.placed = sending.placed
      /\ sending'.pick = sending.pick
      /\ sending # NotSending /\ sending' # NotSending
  BY <1>1 DEF Handle, Uploads, NotSending
<1>3. UNCHANGED <<staging, orphans, panel, sends, haste>> /\ NotSending' = NotSending
  BY DEF Handle, NotSending
<1>4. landed \in Seq(0..MaxPicks) /\ landed' \in Seq(0..MaxPicks)
  <2>1. landed \in Seq(0..MaxPicks) /\ landed' \in {landed, Append(landed, sending.pick)}
    BY DEF Handle, Accept, UploadsTyped
  <2> QED BY <1>1, <2>1, AppendProperties, ZenonT(40)
<1>5. UploadsTyped'
  BY <1>2, <1>3, <1>4 DEF UploadsTyped, Paired, WellPlaced
<1>6. CASE "lost" \in haste
  BY <1>1, <1>2, <1>3, <1>5, <1>6 DEF OneUploadEach, HandedOverOnce, Mine, DialogOpen
<1>7. CASE "lost" \notin haste /\ landed' = landed /\ sending'.stage = "refused"
  BY <1>1, <1>2, <1>3, <1>5, <1>7 DEF OneUploadEach, HandedOverOnce, Mine, DialogOpen
<1>8. CASE "lost" \notin haste /\ landed' = Append(landed, sending.pick)
           /\ sending'.stage = "accepted"
  <2>1. /\ DOMAIN landed' = 1..(Len(landed) + 1) /\ DOMAIN landed = 1..Len(landed)
        /\ Len(landed) \in Nat /\ landed'[Len(landed) + 1] = sending.pick
        /\ \A i \in 1..Len(landed) : landed'[i] = landed[i]
    BY <1>1, <1>4, <1>8, AppendProperties, LenProperties
  <2>2. \A i \in 1..Len(landed) :
          /\ landed[i] <= staging.pick /\ landed[i] # sending.pick
          /\ ~(DialogOpen /\ landed[i] = staging.pick)
    BY <1>1, <1>8, <2>1 DEF OneUploadEach
  <2>3. \A i \in DOMAIN landed' : i = Len(landed) + 1 \/ i \in 1..Len(landed)
    BY <2>1
  <2>4. IsInjective(landed')
    BY <1>8, <2>1, <2>2, <2>3 DEF HandedOverOnce, IsInjective
  <2>5. \A i \in DOMAIN landed' :
          /\ landed'[i] <= staging.pick
          /\ DialogOpen /\ landed'[i] = staging.pick => sending.pick = landed'[i]
    BY <1>1, <2>1, <2>2, <2>3
  <2>6. OneUploadEach'
    BY <1>1, <1>2, <1>3, <1>8, <2>5 DEF OneUploadEach, Mine, DialogOpen
  <2> QED BY <1>5, <2>4, <2>6 DEF HandedOverOnce
<1>9. CASE Accept(sending) /\ sending' = [sending EXCEPT !.stage = "accepted"]
  <2>1. sending'.stage = "accepted"
    BY <1>1, <1>9 DEF Uploads
  <2>2. "lost" \notin haste => landed' = Append(landed, sending.pick)
    BY <1>9 DEF Accept
  <2> QED BY <1>6, <1>8, <2>1, <2>2
<1>10. CASE landed' = landed /\ sending' = [sending EXCEPT !.stage = "refused"]
  <2>1. sending'.stage = "refused"
    BY <1>1, <1>10 DEF Uploads
  <2> QED BY <1>6, <1>7, <1>10, <2>1
<1> QED BY <1>9, <1>10 DEF Handle

\* Once a caller has given up, what the API accepts is no longer counted.
LEMMA OrphanInv ==
  ASSUME UploadsSound, NEW u \in orphans, HandleOrphan(u)
  PROVE  UploadsSound'
<1>1. "lost" \in haste
  BY DEF UploadsSound, OneUploadEach
<1>2. /\ orphans' \subseteq orphans
      /\ UNCHANGED <<staging, sending, panel, sends, landed, haste>>
  BY <1>1 DEF HandleOrphan, Accept, portal
<1>3. UploadsTyped'
  BY <1>2 DEF UploadsSound, UploadsTyped, Paired, WellPlaced, NotSending
<1> QED BY <1>1, <1>2, <1>3 DEF UploadsSound, OneUploadEach, HandedOverOnce, Mine, DialogOpen,
                                NotSending

\* An upload ends; the dialog it came from closes or can be confirmed again.
LEMMA EndedInv ==
  ASSUME UploadsSound, Answered \/ Failed \/ Abort
  PROVE  UploadsSound'
<1> USE DEF UploadsSound
<1>1. /\ staging \in Stagings /\ sending \in Uploads /\ 0 \in 0..MaxPicks /\ 0..MaxPicks \subseteq Nat
      /\ staging.pick \in 0..MaxPicks /\ sending.stage # "idle"
  BY BoundsAssumption DEF UploadsTyped, Stagings, Answered, Failed, Abort
<1>2. /\ NotSending \in Uploads /\ Paired(NotSending) /\ WellPlaced(NotSending)
      /\ NotSending.stage = "idle" /\ NotSending.pick = 0 /\ NotSending' = NotSending
  BY <1>1 DEF NotSending, Uploads, Paired, WellPlaced
<1>3. /\ staging' \in Stagings /\ Paired(staging)' /\ WellPlaced(staging)'
      /\ staging'.pick = staging.pick /\ staging'.files \in {<<>>, staging.files}
      /\ ~Mine => staging' = staging
  <2>1. staging' \in {staging, Unstaged, [staging EXCEPT !.busy = FALSE]} /\ (~Mine => staging' = staging)
    <3>1. CASE Answered
      BY <3>1 DEF Answered
    <3>2. CASE Failed
      <4>1. CASE ~Mine
        BY <3>2, <4>1 DEF Failed
      <4>2. CASE Mine /\ sending.kind = "amend"
        BY <3>2, <4>2 DEF Failed
      <4>3. CASE Mine /\ sending.kind # "amend"
        BY <3>2, <4>3 DEF Failed
      <4> QED BY <4>1, <4>2, <4>3
    <3>3. CASE Abort
      BY <3>3 DEF Abort, Released
    <3> QED BY <3>1, <3>2, <3>3
  <2>2. CASE staging' = staging
    BY <2>2 DEF UploadsTyped, Paired, WellPlaced
  <2>3. CASE staging' = Unstaged
    BY <1>1, <2>1, <2>3 DEF Unstaged, NoStaging, Stagings, Paired, WellPlaced
  <2>4. CASE staging' = [staging EXCEPT !.busy = FALSE]
    BY <1>1, <2>1, <2>4 DEF UploadsTyped, Stagings, Paired, WellPlaced
  <2> QED BY <2>1, <2>2, <2>3, <2>4
<1>4. sending' = NotSending /\ panel' \in {"done", "error", "cancelled"} /\ UNCHANGED sends
  BY DEF Answered, Failed, Abort, Settle
<1>5. Undecided \subseteq {sending}
  BY DEF Undecided
<1>6. landed' \in Seq(0..MaxPicks) /\ orphans' \subseteq orphans \union {sending}
  <2>1. landed \in Seq(0..MaxPicks) /\ <<>> \in Seq(0..MaxPicks)
    BY DEF UploadsTyped
  <2>2. landed' \in {landed, <<>>} /\ orphans' \in {orphans, orphans \union Undecided}
    BY DEF Answered, Failed, Abort
  <2> QED BY <1>5, <2>1, <2>2
<1>7. UploadsTyped'
  BY <1>2, <1>3, <1>4, <1>6 DEF UploadsTyped, Paired, WellPlaced
<1>8. CASE "lost" \in haste'
  BY <1>1, <1>2, <1>3, <1>4, <1>7, <1>8 DEF OneUploadEach, HandedOverOnce, Stagings
<1>9. CASE "lost" \notin haste'
  <2>1. /\ sending.stage \in {"accepted", "refused"} /\ "lost" \notin haste /\ landed' = landed
        /\ sending.stage = "accepted" /\ Mine => staging'.files = <<>>
    BY <1>9 DEF Answered, Failed, Abort, Unstaged, NoStaging
  <2>2. orphans' = {}
    BY <2>1 DEF Answered, Failed, Abort, Undecided, OneUploadEach
  <2>3. \A i \in DOMAIN landed : /\ landed[i] <= staging.pick
                                 /\ ~(DialogOpen' /\ landed[i] = staging.pick)
    BY <1>3, <2>1 DEF OneUploadEach, DialogOpen, Mine
  <2> QED BY <1>1, <1>2, <1>3, <1>4, <1>7, <2>1, <2>2, <2>3 DEF OneUploadEach, HandedOverOnce
<1> QED BY <1>8, <1>9

\* The panel's row goes, by hand or by itself.
LEMMA DismissInv ==
  ASSUME UploadsSound, Dismiss
  PROVE  UploadsSound'
BY DEF Dismiss, UploadsSound, UploadsTyped, OneUploadEach, HandedOverOnce, Paired, WellPlaced, Mine,
       DialogOpen, NotSending

-----------------------------------------------------------------------------
(* The API's rows.                                                         *)

\* A delivery or a correction before the review: rows come with ids of their own and with
\* positions the translator gave, or go, and nobody is approving them.
LEMMA RowsChangeInv ==
  ASSUME RowsSound, status \in {"claimed", "revision", "delivered"}, status' = "delivered",
         UNCHANGED pm, round' \in 0..MaxRounds, made' \in Nat, made' >= made,
         NEW new \in SUBSET PlacedRow, rows' \subseteq rows \union new,
         \A x \in new : /\ x.id \in (made + 1)..made' /\ x.placed = x.given
                       /\ \A s \in Seals : x.placed[s] \in {Nothing, x.file},
         \A x, y \in new : x.id = y.id => x = y
  PROVE  RowsSound'
<1> USE DEF RowsSound
<1>1. rows' \subseteq PlacedRow
  OBVIOUS
<1>2. \A x \in rows \union pm.cached : x.id \in 1..made
  BY DEF IdsApart
<1>3. \A x \in new : x.id \in 1..made' /\ x.id \notin 1..made
  OBVIOUS
<1>4. IdsApart'
  <2>1. \A x, y \in rows' : x.id = y.id => x = y
    BY <1>2, <1>3 DEF IdsApart
  <2>2. \A y \in pm.cached : \A x \in rows' : x.id = y.id => x.file = y.file
    BY <1>2, <1>3 DEF IdsApart
  <2>3. \A x \in rows' \union pm.cached : x.id \in 1..made'
    BY <1>2, <1>3
  <2> QED BY <2>1, <2>2, <2>3 DEF IdsApart
<1>5. EditsPlaced'
  BY <1>3 DEF EditsPlaced
<1>6. RowsPlaced'
  BY DEF RowsPlaced
<1>7. ReviewStands'
  BY DEF ReviewStands
<1>8. ApprovedAsShown'
  BY DEF ApprovedAsShown
<1> QED BY <1>1, <1>4, <1>5, <1>6, <1>7, <1>8

\* What an upload makes.
LEMMA MadeRows ==
  ASSUME NEW u \in Uploads, Paired(u), WellPlaced(u), made \in Nat, NEW r \in Nat
  PROVE  /\ Made(u.files, u.placed, r) \in SUBSET PlacedRow
         /\ \A x \in Made(u.files, u.placed, r) :
              /\ x.id \in (made + 1)..(made + Len(u.files)) /\ x.placed = x.given
              /\ \A s \in Seals : x.placed[s] \in {Nothing, x.file}
         /\ \A x, y \in Made(u.files, u.placed, r) : x.id = y.id => x = y
         /\ Len(u.files) \in Nat
<1>1. /\ u.files \in Seq(Docs) /\ u.placed \in Seq(Placings) /\ Len(u.placed) = Len(u.files)
      /\ Len(u.files) \in Nat
  BY DEF Uploads, Paired
<1>2. DOMAIN u.files = 1..Len(u.files)
  BY <1>1
<1>3. ASSUME NEW i \in 1..Len(u.files)
      PROVE  LET x == Row(made + i, u.files[i], r, u.placed[i])
             IN  /\ x \in PlacedRow
                 /\ x.id = made + i /\ x.id \in (made + 1)..(made + Len(u.files))
                 /\ x.placed = x.given
                 /\ \A s \in Seals : x.placed[s] \in {Nothing, x.file}
  <2>1. u.files[i] \in Docs /\ u.placed[i] \in Placings
    BY <1>1, ElementOfSeq
  <2>2. \A s \in Seals : u.placed[i][s] \in {Nothing, u.files[i]}
    BY <1>2 DEF WellPlaced
  <2> QED BY <1>1, <2>1, <2>2 DEF Row, PlacedRow
<1>4. \A x \in Made(u.files, u.placed, r) :
        \E i \in 1..Len(u.files) : x = Row(made + i, u.files[i], r, u.placed[i])
  BY <1>2 DEF Made
<1>5. ASSUME NEW x \in Made(u.files, u.placed, r), NEW y \in Made(u.files, u.placed, r), x.id = y.id
      PROVE  x = y
  <2>1. PICK i \in 1..Len(u.files) : x = Row(made + i, u.files[i], r, u.placed[i])
    BY <1>4
  <2>2. PICK j \in 1..Len(u.files) : y = Row(made + j, u.files[j], r, u.placed[j])
    BY <1>4
  <2>3. made + i = made + j
    BY <1>3, <1>5, <2>1, <2>2
  <2>4. i = j
    BY <2>3
  <2> QED BY <2>1, <2>2, <2>4
<1> QED BY <1>1, <1>3, <1>4, <1>5

\* The API takes an upload, its caller's or one whose caller gave up.
LEMMA AcceptInv ==
  ASSUME RowsSound, NEW u \in Uploads, Paired(u), WellPlaced(u), Accept(u), UNCHANGED pm
  PROVE  RowsSound' /\ made' \in Nat /\ made' >= made
<1>1. made \in Nat /\ round \in 0..MaxRounds /\ round \in Nat /\ MaxRounds \in Nat
  BY BoundsAssumption DEF RowsSound
<1>2. made' = made + Len(u.files) /\ Len(u.files) \in Nat
  BY DEF Accept, Uploads
<1>3. made' \in Nat /\ made' >= made
  BY <1>1, <1>2
<1>4. CASE u.kind = "deliver"
  <2>1. /\ status \in {"claimed", "revision"} /\ status' = "delivered" /\ round' = round + 1
        /\ rows' = rows \union Made(u.files, u.placed, round + 1) /\ round < MaxRounds
    BY <1>4 DEF Accept, Accepts
  <2>2. round + 1 \in Nat /\ round' \in 0..MaxRounds
    BY <1>1, <2>1
  <2> DEFINE new == Made(u.files, u.placed, round + 1)
  <2>3. /\ new \in SUBSET PlacedRow
        /\ \A x \in new : /\ x.id \in (made + 1)..made' /\ x.placed = x.given
                         /\ \A s \in Seals : x.placed[s] \in {Nothing, x.file}
        /\ \A x, y \in new : x.id = y.id => x = y
    BY <1>1, <1>2, <2>2, MadeRows
  <2> HIDE DEF new
  <2>4. rows' \subseteq rows \union new
    BY <2>1 DEF new
  <2>5. RowsSound'
    <3>1. status \in {"claimed", "revision", "delivered"} /\ round' \in 0..MaxRounds
      BY <2>1, <2>2
    <3> QED BY ONLY RowsSound, UNCHANGED pm, <1>3, <2>1, <2>3, <2>4, <3>1, RowsChangeInv
  <2> QED BY <1>3, <2>5
<1>5. CASE u.kind # "deliver"
  <2>1. /\ status = "delivered" /\ status' = "delivered" /\ round' = round
        /\ rows' \subseteq rows \union Made(u.files, u.placed, round)
    BY <1>5 DEF Accept, Accepts, Amendable
  <2> DEFINE new == Made(u.files, u.placed, round)
  <2>2. /\ new \in SUBSET PlacedRow
        /\ \A x \in new : /\ x.id \in (made + 1)..made' /\ x.placed = x.given
                         /\ \A s \in Seals : x.placed[s] \in {Nothing, x.file}
        /\ \A x, y \in new : x.id = y.id => x = y
    BY <1>1, <1>2, MadeRows
  <2> HIDE DEF new
  <2>3. rows' \subseteq rows \union new
    BY <2>1 DEF new
  <2>4. RowsSound'
    <3>1. status \in {"claimed", "revision", "delivered"} /\ round' \in 0..MaxRounds
      BY <1>1, <2>1
    <3> QED BY ONLY RowsSound, UNCHANGED pm, <1>3, <2>1, <2>2, <2>3, <3>1, RowsChangeInv
  <2> QED BY <1>3, <2>4
<1> QED BY <1>4, <1>5

\* A file is taken out of a delivery that awaits its review.
LEMMA RemoveInv ==
  ASSUME RowsSound, NEW id, RemoveDelivered(id)
  PROVE  RowsSound'
<1>1. /\ status = "delivered" /\ UNCHANGED <<status, round, made, pm>> /\ rows' \subseteq rows \union {}
  BY DEF RemoveDelivered, Amendable
<1>2. made' \in Nat /\ made' >= made /\ round' \in 0..MaxRounds
  BY <1>1 DEF RowsSound
<1>3. /\ {} \in SUBSET PlacedRow
      /\ \A x \in {} : /\ x.id \in (made + 1)..made' /\ x.placed = x.given
                      /\ \A s \in Seals : x.placed[s] \in {Nothing, x.file}
      /\ \A x, y \in {} : x.id = y.id => x = y
  OBVIOUS
<1> QED BY <1>1, <1>2, <1>3, RowsChangeInv

-----------------------------------------------------------------------------
(* The PM's review.                                                        *)

LEMMA ReviewOpensInv ==
  ASSUME RowsSound, OpenReview \/ RequestRevision
  PROVE  RowsSound'
<1>1. /\ status' \in {"in_review", "revision"} /\ UNCHANGED <<rows, round, made>>
      /\ status # "approved"
  BY DEF OpenReview, RequestRevision
<1>2. ~pm.open
  BY DEF OpenReview, RequestRevision, RowsSound, ReviewStands
<1>3. /\ pm' \in Dialogs /\ pm'.cached = pm.cached /\ pm'.edits \subseteq pm.edits /\ ~pm'.open
      /\ status' = "in_review" => ~pm'.current
  <2>1. CASE OpenReview
    BY <2>1 DEF OpenReview, ClosedDialog, RowsSound, Dialogs
  <2>2. CASE RequestRevision
    BY <1>2, <2>2 DEF RequestRevision, RowsSound
  <2> QED BY <2>1, <2>2
<1>4. IdsApart' /\ EditsPlaced' /\ RowsPlaced'
  BY <1>1, <1>3 DEF RowsSound, IdsApart, EditsPlaced, RowsPlaced
<1>5. ReviewStands' /\ ApprovedAsShown'
  BY <1>1, <1>3 DEF RowsSound, ReviewStands, ApprovedAsShown
<1> QED BY <1>1, <1>3, <1>4, <1>5 DEF RowsSound

\* The dialog on the files of a review changes, and they do not.
LEMMA DialogChangeInv ==
  ASSUME RowsSound, status = "in_review", UNCHANGED <<status, rows, round, made>>, pm' \in Dialogs,
         \A y \in pm'.cached : y \in pm.cached \/ y \in rows,
         pm'.current => Ids(pm'.cached) = Ids(Newest),
         \A e, g \in pm'.edits : e.id = g.id /\ e.seal = g.seal => e = g,
         \A e \in pm'.edits : /\ e.id \in 1..made
                             /\ \A x \in rows : x.id = e.id => e.at \in {Nothing, x.file}
  PROVE  RowsSound'
<1> USE DEF RowsSound
<1>1. IdsApart' /\ EditsPlaced' /\ RowsPlaced'
  BY DEF IdsApart, EditsPlaced, RowsPlaced
<1>2. Ids(Newest)' = Ids(Newest) /\ Ids(pm.cached)' = Ids(pm'.cached)
  BY DEF Ids, Newest
<1>3. ReviewStands'
  BY <1>2 DEF ReviewStands
<1>4. ApprovedAsShown'
  BY DEF ApprovedAsShown
<1> QED BY <1>1, <1>3, <1>4

LEMMA DialogInv ==
  ASSUME RowsSound,
         \/ OpenApprove \/ LoadApprove \/ CloseApprove
         \/ \E x \in pm.cached, s \in Seals, back \in BOOLEAN : MoveSeal(x, s, back)
  PROVE  RowsSound'
<1> USE DEF RowsSound
<1>1. /\ status = "in_review" /\ UNCHANGED <<status, rows, round, made>>
      /\ pm \in Dialogs
  BY DEF OpenApprove, LoadApprove, CloseApprove, MoveSeal, ReviewStands, api
<1>2. /\ pm.current => Ids(pm.cached) = Ids(Newest)
      /\ \A e, g \in pm.edits : e.id = g.id /\ e.seal = g.seal => e = g
      /\ \A e \in pm.edits : /\ e.id \in 1..made
                            /\ \A x \in rows : x.id = e.id => e.at \in {Nothing, x.file}
  BY <1>1 DEF ReviewStands, EditsPlaced
<1>3. CASE OpenApprove
  <2>1. pm' \in Dialogs /\ pm'.cached = pm.cached /\ pm'.current = pm.current /\ pm'.edits = {}
    BY <1>1, <1>3 DEF OpenApprove, Dialogs
  <2> QED BY <1>1, <1>2, <2>1, DialogChangeInv
<1>4. CASE CloseApprove
  <2>1. pm' \in Dialogs /\ pm'.cached = pm.cached /\ pm'.current = pm.current /\ pm'.edits = {}
    BY <1>1, <1>4 DEF CloseApprove, ClosedDialog, Dialogs
  <2> QED BY <1>1, <1>2, <2>1, DialogChangeInv
<1>5. CASE LoadApprove
  <2>1. Newest \subseteq rows
    BY DEF Newest
  <2>2. pm' \in Dialogs /\ pm'.cached = Newest /\ pm'.edits = pm.edits
    BY <1>1, <1>5, <2>1 DEF LoadApprove, Dialogs
  <2> QED BY <1>1, <1>2, <2>1, <2>2, DialogChangeInv
<1>6. ASSUME NEW x \in pm.cached, NEW s \in Seals, NEW back \in BOOLEAN, MoveSeal(x, s, back)
      PROVE  RowsSound'
  <2> DEFINE e == [id |-> x.id, seal |-> s, at |-> IF back THEN Nothing ELSE x.file]
  <2>1. x \in PlacedRow /\ x.id \in 1..made /\ \A y \in rows : y.id = x.id => y.file = x.file
    BY <1>1 DEF Dialogs, IdsApart
  <2>2. e \in Edits /\ e.id = x.id /\ e.seal = s /\ e.at \in {Nothing, x.file}
    BY <2>1 DEF Edits, Places, PlacedRow
  <2> HIDE DEF e
  <2>3. pm' = [pm EXCEPT !.edits = (pm.edits \ Edited(x, s)) \union {e}]
    BY <1>6 DEF MoveSeal, e
  <2>4. /\ pm' \in Dialogs /\ pm'.cached = pm.cached /\ pm'.current = pm.current
        /\ pm'.edits = (pm.edits \ Edited(x, s)) \union {e}
    BY <1>1, <2>2, <2>3 DEF Dialogs
  <2>5. \A g \in pm'.edits : g = e \/ (g \in pm.edits /\ ~(g.id = e.id /\ g.seal = e.seal))
    <3>1. \A g \in pm'.edits : g = e \/ (g \in pm.edits /\ g \notin Edited(x, s))
      BY <2>4
    <3> QED BY <2>2, <3>1 DEF Edited
  <2>6. \A g, h \in pm'.edits : g.id = h.id /\ g.seal = h.seal => g = h
    BY <1>2, <2>5
  <2>7. \A g \in pm'.edits : /\ g.id \in 1..made
                            /\ \A y \in rows : y.id = g.id => g.at \in {Nothing, y.file}
    BY <1>2, <2>1, <2>2, <2>5
  <2> QED BY <1>1, <1>2, <2>4, <2>6, <2>7, DialogChangeInv
<1> QED BY <1>3, <1>4, <1>5, <1>6

\* What the PM moved is where the PM put it, and nothing else has moved.
LEMMA AppliedIsEdited ==
  ASSUME RowsSound, NEW x \in rows
  PROVE  /\ Applied(x) \in Placings
         /\ \A s \in Seals :
              /\ Edited(x, s) = {} => Applied(x)[s] = x.placed[s]
              /\ \A e \in Edited(x, s) : Applied(x)[s] = e.at
              /\ Applied(x)[s] \in {Nothing, x.file}
<1>1. /\ \A e, g \in pm.edits : e.id = g.id /\ e.seal = g.seal => e = g
      /\ x \in PlacedRow
      /\ \A e \in pm.edits : e.id = x.id => e.at \in {Nothing, x.file}
      /\ \A s \in Seals : x.placed[s] \in {Nothing, x.file}
  BY DEF RowsSound, ReviewStands, EditsPlaced, RowsPlaced
<1>2. ASSUME NEW s \in Seals
      PROVE  /\ Edited(x, s) = {} => Applied(x)[s] = x.placed[s]
             /\ \A e \in Edited(x, s) : Applied(x)[s] = e.at
             /\ Applied(x)[s] \in {Nothing, x.file}
  <2>1. CASE Edited(x, s) = {}
    BY <1>1, <2>1 DEF Applied
  <2>2. CASE Edited(x, s) # {}
    <3>1. PICK e \in Edited(x, s) : TRUE
      BY <2>2
    <3>2. \A g \in Edited(x, s) : g = e
      BY <1>1, <3>1 DEF Edited
    <3>3. (CHOOSE g \in Edited(x, s) : TRUE) = e
      BY <3>1, <3>2
    <3>4. Applied(x)[s] = e.at
      BY <2>2, <3>3 DEF Applied
    <3> QED BY <1>1, <2>2, <3>1, <3>2, <3>4 DEF Edited
  <2> QED BY <2>1, <2>2
<1>3. Applied(x) \in Placings
  <2>1. Applied(x) = [s \in Seals |-> Applied(x)[s]]
    BY DEF Applied
  <2>2. \A s \in Seals : Applied(x)[s] \in Places
    BY <1>1, <1>2 DEF PlacedRow, Places
  <2> QED BY <2>1, <2>2 DEF Placings
<1> QED BY <1>2, <1>3

LEMMA ApproveInv ==
  ASSUME RowsSound, Approve
  PROVE  RowsSound'
<1> USE DEF RowsSound
<1>1. /\ status = "in_review" /\ status' = "approved" /\ UNCHANGED <<round, made>>
      /\ pm' \in Dialogs /\ ~pm'.open /\ pm'.cached = pm.cached /\ pm'.current = pm.current
      /\ pm'.edits = pm.edits
  BY DEF Approve, Dialogs
<1> DEFINE Sealed(x) == [x EXCEPT !.placed = Applied(x)]
<1>2. rows' = {Sealed(x) : x \in rows}
  BY DEF Approve
<1>3. \A x \in rows : /\ Sealed(x) \in PlacedRow
                      /\ Sealed(x).id = x.id /\ Sealed(x).file = x.file
                      /\ Sealed(x).round = x.round /\ Sealed(x).given = x.given
                      /\ Sealed(x).placed = Applied(x) /\ x.placed = x.given
  BY <1>1, AppliedIsEdited DEF PlacedRow, ReviewStands
<1> HIDE DEF Sealed
<1>4. IdsApart' /\ EditsPlaced'
  BY <1>1, <1>2, <1>3 DEF IdsApart, EditsPlaced
<1>5. RowsPlaced'
  BY <1>2, <1>3, AppliedIsEdited DEF RowsPlaced
<1>6. Ids(Newest)' = Ids(Newest) /\ Ids(pm.cached)' = Ids(pm.cached)
  <2>1. Newest' = {Sealed(x) : x \in Newest}
    BY <1>1, <1>2, <1>3 DEF Newest
  <2> QED BY <1>1, <1>3, <2>1 DEF Ids, Newest
<1>7. ReviewStands'
  BY <1>1, <1>6 DEF ReviewStands
<1>8. LastWord'
  <2>1. SUFFICES ASSUME NEW y \in rows', NEW s \in Seals
                 PROVE  IF Edited(y, s)' = {} THEN y.placed[s] = y.given[s]
                        ELSE \A e \in Edited(y, s)' : y.placed[s] = e.at
    BY DEF LastWord, Newest, Edited
  <2>2. PICK x \in rows : y = Sealed(x)
    BY <1>2
  <2>3. Edited(y, s)' = Edited(x, s)
    BY <1>1, <1>3, <2>2 DEF Edited
  <2> QED BY <1>3, <2>2, <2>3, AppliedIsEdited
<1>9. ApprovedAsShown'
  BY <1>6, <1>7, <1>8, <1>1 DEF ApprovedAsShown, ReviewStands
<1> QED BY <1>1, <1>2, <1>3, <1>4, <1>5, <1>7, <1>9

-----------------------------------------------------------------------------
(* All of it.                                                              *)

\* The page loads its card again: what it shows are ids the API has given.
LEMMA RefreshCard ==
  ASSUME RowsSound, CardSound, Refresh
  PROVE  CardSound'
<1>1. Ids(Newest) \subseteq 1..made
  BY DEF RowsSound, IdsApart, Ids, Newest
<1>2. CardOf(status) \in {"deliver", "amend", "none"}
  BY DEF CardOf
<1> QED BY <1>1, <1>2 DEF Refresh, Shown, CardSound, api

\* Each step leaves alone, or keeps sound, what the API holds.
LEMMA RowsStep ==
  ASSUME RowsSound, UploadsSound, Next
  PROVE  RowsSound' /\ made' \in Nat /\ made' >= made
<1>1. made \in Nat
  BY DEF RowsSound
<1>2. CASE UNCHANGED <<status, rows, round, made, pm>>
  BY <1>1, <1>2, RowsFrame
<1>3. CASE Handle
  <2>1. sending \in Uploads /\ Paired(sending) /\ WellPlaced(sending) /\ UNCHANGED pm
    BY <1>3 DEF Handle, UploadsSound, UploadsTyped
  <2>2. CASE Accept(sending)
    BY <2>1, <2>2, AcceptInv
  <2>3. CASE UNCHANGED api
    BY <1>2, <2>1, <2>3 DEF api
  <2> QED BY <1>3, <2>2, <2>3 DEF Handle
<1>4. ASSUME NEW u \in orphans, HandleOrphan(u) PROVE RowsSound' /\ made' \in Nat /\ made' >= made
  <2>1. u \in Uploads /\ Paired(u) /\ WellPlaced(u) /\ UNCHANGED pm
    BY <1>4 DEF HandleOrphan, UploadsSound, UploadsTyped
  <2>2. CASE Accept(u)
    BY <2>1, <2>2, AcceptInv
  <2>3. CASE UNCHANGED api
    BY <1>2, <2>1, <2>3 DEF api
  <2> QED BY <1>4, <2>2, <2>3 DEF HandleOrphan
<1>5. ASSUME NEW id \in card.files, RemoveDelivered(id)
      PROVE  RowsSound' /\ made' \in Nat /\ made' >= made
  BY <1>1, <1>5, RemoveInv DEF RemoveDelivered
<1>6. CASE OfficeStep
  <2>1. UNCHANGED made
    BY <1>6 DEF OfficeStep, OpenReview, RequestRevision, OpenApprove, LoadApprove, CloseApprove,
                Approve, MoveSeal, api
  <2> QED BY <1>1, <1>6, <2>1, ReviewOpensInv, DialogInv, ApproveInv DEF OfficeStep
<1>7. CASE DraftStep
  BY <1>2, <1>7 DEF DraftStep, OpenDraft, CloseDraft, Preview, ContinueToDelivery, ChooseFile,
                    ToggleStamp, DragOnDraft, Input, api
<1>8. CASE DialogStep
  BY <1>2, <1>5, <1>8 DEF DialogStep, PickFiles, PickReplacement, DragInDialog, CancelDialog, Confirm,
                          api
<1>9. CASE Network
  BY <1>2, <1>3, <1>9 DEF Network, Answered, Failed, PreviewAnswered, PreviewFailed, api
<1>10. CASE PanelStep \/ Timer \/ Refresh
  BY <1>2, <1>10 DEF PanelStep, Timer, Abort, Dismiss, Refresh, api
<1> QED BY <1>4, <1>6, <1>7, <1>8, <1>9, <1>10 DEF Next

\* Only the steps on the draft touch it, or note that it was touched.
LEMMA DraftKept ==
  ASSUME DraftSound, Next
  PROVE  DraftSound'
<1>1. CASE UNCHANGED <<draft, renders>> /\ ("typed" \in haste <=> "typed" \in haste')
  BY <1>1, DraftFrame
<1>2. CASE Confirm
  <2>1. renders = {} /\ draft = ClosedDraft /\ UNCHANGED <<draft, renders>>
    BY <1>2 DEF Confirm, DraftsOver
  <2> QED BY <2>1, Fresh DEF DraftSound, DraftPlaced, RendersOfForm, RenderShown, NoRender,
                             Untouched, FormOf
<1>3. CASE DraftStep
  BY <1>3, DraftStepInv, DraftClosedInv DEF DraftStep
<1>4. CASE DialogStep
  BY <1>1, <1>2, <1>4 DEF DialogStep, PickFiles, PickReplacement, DragInDialog, CancelDialog,
                          RemoveDelivered, portal
<1>5. CASE Network
  <2>1. CASE Handle \/ Answered
    BY <1>1, <2>1 DEF Handle, Answered
  <2>2. CASE Failed
    BY <1>1, <2>2 DEF Failed
  <2> QED BY <1>5, <2>1, <2>2, DraftStepInv DEF Network
<1>6. CASE PanelStep \/ Timer
  BY <1>1, <1>6 DEF PanelStep, Timer, Abort, Dismiss
<1>7. CASE OfficeStep
  BY <1>1, <1>7 DEF OfficeStep, OpenReview, RequestRevision, OpenApprove, LoadApprove, CloseApprove,
                    Approve, MoveSeal, portal
<1>8. ASSUME NEW u \in orphans, HandleOrphan(u) PROVE DraftSound'
  BY <1>1, <1>8 DEF HandleOrphan, portal
<1> QED BY <1>3, <1>4, <1>5, <1>6, <1>7, <1>8, DraftClosedInv DEF Next

LEMMA UploadsKept ==
  ASSUME UploadsSound, DraftSound, CardSound, Next
  PROVE  UploadsSound'
<1>1. CASE UNCHANGED <<staging, sending, orphans, panel, sends, landed>>
           /\ ("lost" \in haste <=> "lost" \in haste')
  BY <1>1, UploadsFrame
<1>2. card.kind \in {"deliver", "amend", "none"} /\ card.files \subseteq Nat
  BY DEF CardSound
<1>3. CASE DraftStep
  BY <1>1, <1>3, ContinueInv DEF DraftStep, OpenDraft, CloseDraft, Preview, ChooseFile, ToggleStamp,
                                 DragOnDraft, Input
<1>4. CASE DialogStep
  BY <1>1, <1>2, <1>4, StagingInv, ConfirmInv DEF DialogStep, RemoveDelivered, portal
<1>5. CASE Network
  BY <1>1, <1>5, HandleInv, EndedInv DEF Network, PreviewAnswered, PreviewFailed
<1>6. CASE PanelStep \/ Timer
  BY <1>6, EndedInv, DismissInv DEF PanelStep, Timer
<1>7. CASE OfficeStep
  BY <1>1, <1>7 DEF OfficeStep, OpenReview, RequestRevision, OpenApprove, LoadApprove, CloseApprove,
                    Approve, MoveSeal, portal
<1> QED BY <1>2, <1>3, <1>4, <1>5, <1>6, <1>7, StagingInv, OrphanInv DEF Next

LEMMA CardKept ==
  ASSUME RowsSound, CardSound, Next, made' \in Nat, made' >= made
  PROVE  CardSound'
<1>1. made \in Nat
  BY DEF RowsSound
<1>2. haste' \subseteq {"typed", "lost"}
  BY DEF CardSound, Next, DraftStep, DialogStep, Network, PanelStep, Timer, OfficeStep, OpenDraft,
         CloseDraft, Preview, ContinueToDelivery, ChooseFile, ToggleStamp, DragOnDraft, Input,
         PickFiles, PickReplacement, DragInDialog, CancelDialog, Confirm, RemoveDelivered, Handle,
         Answered, Failed, PreviewAnswered, PreviewFailed, Abort, Dismiss, OpenReview,
         RequestRevision, OpenApprove, LoadApprove, CloseApprove, Approve, MoveSeal, Refresh,
         HandleOrphan
<1>3. CASE UNCHANGED card
  BY <1>1, <1>2, <1>3, CardFrame
<1>4. Refresh \/ UNCHANGED card
  BY DEF Next, DraftStep, DialogStep, Network, PanelStep, Timer, OfficeStep, OpenDraft,
         CloseDraft, Preview, ContinueToDelivery, ChooseFile, ToggleStamp, DragOnDraft, Input,
         PickFiles, PickReplacement, DragInDialog, CancelDialog, Confirm, RemoveDelivered, Handle,
         Answered, Failed, PreviewAnswered, PreviewFailed, Abort, Dismiss, OpenReview,
         RequestRevision, OpenApprove, LoadApprove, CloseApprove, Approve, MoveSeal,
         HandleOrphan, portal
<1> QED BY <1>3, <1>4, RefreshCard

LEMMA DeliveryInit == Init => IInv
<1> SUFFICES ASSUME Init PROVE IInv
  OBVIOUS
<1>1. {0, MaxPicks, MaxSends, MaxRounds} \subseteq Nat
  BY BoundsAssumption
<1>2. RowsSound
  BY <1>1 DEF Init, RowsSound, IdsApart, EditsPlaced, ReviewStands, RowsPlaced, ApprovedAsShown,
              ClosedDialog, Dialogs
<1>3. DraftSound
  BY Fresh DEF Init, DraftSound, DraftPlaced, RendersOfForm, RenderShown
<1>4. UploadsSound
  BY <1>1 DEF Init, UploadsSound, UploadsTyped, OneUploadEach, HandedOverOnce, IsInjective, Stagings,
              Uploads, NoStaging, NotSending, Paired, WellPlaced
<1>5. CardSound
  BY DEF Init, CardSound, Shown, CardOf, Ids, Newest
<1> QED BY <1>2, <1>3, <1>4, <1>5, Parts

LEMMA DeliveryStep == IInv /\ [Next]_vars => IInv'
<1>1. ASSUME IInv, Next PROVE IInv'
  <2>1. RowsSound /\ DraftSound /\ UploadsSound /\ CardSound
    BY <1>1, Parts
  <2>2. RowsSound' /\ made' \in Nat /\ made' >= made
    BY <1>1, <2>1, RowsStep
  <2>3. DraftSound' /\ UploadsSound' /\ CardSound'
    BY <1>1, <2>1, <2>2, DraftKept, UploadsKept, CardKept
  <2> QED BY <2>2, <2>3, Parts
<1>2. ASSUME IInv, UNCHANGED vars PROVE IInv'
  <2>1. RowsSound /\ DraftSound /\ UploadsSound /\ CardSound
    BY <1>2, Parts
  <2>2. RowsSound'
    BY <1>2, <2>1, RowsFrame DEF vars
  <2>3. DraftSound' /\ UploadsSound' /\ CardSound'
    BY <1>2, <2>1, DraftFrame, UploadsFrame DEF vars, CardSound
  <2> QED BY <2>2, <2>3, Parts
<1> QED BY <1>1, <1>2

\* The parts of IInv hold in every reachable state.
THEOREM DeliveryInvariance == Spec => []IInv
BY DeliveryInit, DeliveryStep, PTL DEF Spec

\* Every variable holds what the code keeps there (page.tsx, draft-preview-dialog.tsx,
\* transfers.tsx, PortalService).
THEOREM DeliveryTypeCorrect == Spec => []TypeOK
<1>1. IInv => TypeOK
  BY DEF IInv
<1> QED BY <1>1, DeliveryInvariance, PTL

\* A position measured on one document is used on no other, and a draft is shown of the
\* form it was rendered from (draft-preview-dialog.tsx:116, portal/page.tsx:380).
THEOREM SealsOnTheirOwn == Spec => []PlacedOnItsOwn
<1>1. IInv => PlacedOnItsOwn
  BY DEF IInv
<1> QED BY <1>1, DeliveryInvariance, PTL

\* No choice of files lands twice, unless an upload was cancelled or its answer lost
\* (portal/page.tsx:437, awaiting-review.tsx:123).
THEOREM OneHandover == Spec => []HandedOverOnce
<1>1. IInv => HandedOverOnce
  BY DEF IInv
<1> QED BY <1>1, DeliveryInvariance, PTL

\* What is approved is what the PM was shown, each seal where it was left
\* (approve-dialog.tsx:148, ReviewController::applyPlacements).
THEOREM ApprovedIsShown == Spec => []ApprovedAsShown
<1>1. IInv => ApprovedAsShown
  BY DEF IInv
<1> QED BY <1>1, DeliveryInvariance, PTL
=============================================================================
