----------------------------- MODULE Placement -----------------------------
(***************************************************************************)
(* Where a seal goes on a page: what the browser shows while it is dragged *)
(* and among the other seals, and what the merge draws.  Lengths are whole *)
(* hundredths of a millimetre, which is what both sides round to; where a  *)
(* centre is halved the doubled coordinate is used.  A template of no      *)
(* width is fitted into the page by both sides alike (containedWidth), and *)
(* is left out: the office's seals all have one.                           *)
(***************************************************************************)
EXTENDS Integers

Horizontals == {"left", "center", "right"}
Verticals   == {"top", "middle", "bottom"}
PageChoices == {"all", "first", "last"}

\* A template's placement, normalised; a position as the browser sends it.
Templates == [v : Verticals, h : Horizontals, x : Int, y : Int, pages : PageChoices, width : Nat]
Positions == [x : Int, y : Int, pages : PageChoices]
Sheets    == [width : Nat, height : Nat]

-----------------------------------------------------------------------------
(* The browser.                                                            *)

Least(a, b)    == IF a < b THEN a ELSE b
Greatest(a, b) == IF a > b THEN a ELSE b

\* KEEP_ON_PAGE_MM
KeepOnPage == 1000

\* clamp() on one axis: at least KeepOnPage of the seal, or all of a smaller one, stays.
Clamp(v, seal, sheet) ==
  LET keep == Least(KeepOnPage, seal)
  IN Least(Greatest(v, keep - seal), sheet - keep)

\* The position a drag or an arrow key leaves, from where the seal was and by how much.
Moved(p, dx, dy, size, sheet) ==
  [p EXCEPT !.x = Clamp(p.x + dx, size.width, sheet.width),
            !.y = Clamp(p.y + dy, size.height, sheet.height)]

\* What the positioner draws of the seal in hand, corners doubled: offsets are its left
\* and top, at the template's width.
InHand(t, p, size) ==
  [x |-> 2 * p.x, y |-> 2 * p.y, width |-> t.width, height |-> size.height]

\* sealRectMm() of a seal at rest, corners doubled.
SealRect(t, size, sheet) ==
  [x |-> CASE t.h = "left"  -> 2 * t.x
           [] t.h = "right" -> 2 * (sheet.width - t.width - t.x)
           [] OTHER         -> (sheet.width - t.width) + 2 * t.x,
   y |-> CASE t.v = "top"    -> 2 * t.y
           [] t.v = "bottom" -> 2 * (sheet.height - size.height - t.y)
           [] OTHER          -> (sheet.height - size.height) + 2 * t.y,
   width |-> t.width, height |-> size.height]

\* sealOnPage()
SealOnPage(pages, page, count) ==
  \/ pages = "all"
  \/ pages = "first" /\ page = 1
  \/ pages = "last" /\ page = count

-----------------------------------------------------------------------------
(* The merge.                                                              *)

\* normalize(): what the position says over what the template says, key by key.
Normalize(p, t) ==
  [v |-> "top", h |-> "left", x |-> p.x, y |-> p.y, pages |-> p.pages, width |-> t.width]

\* resolveRect(), corners doubled.
ResolveRect(t, size, sheet) ==
  LET right  == sheet.width - t.width
      bottom == sheet.height - size.height
  IN [x |-> CASE t.h = "left"  -> 2 * t.x
              [] t.h = "right" -> 2 * right - 2 * t.x
              [] OTHER         -> right + 2 * t.x,
      y |-> CASE t.v = "top"    -> 2 * t.y
              [] t.v = "bottom" -> 2 * bottom - 2 * t.y
              [] OTHER          -> bottom + 2 * t.y,
      width |-> t.width, height |-> size.height]

\* appliesToPage()
AppliesToPage(pages, page, count) ==
  CASE pages = "first" -> page = 1
    [] pages = "last"  -> page = count
    [] OTHER           -> TRUE

=============================================================================
