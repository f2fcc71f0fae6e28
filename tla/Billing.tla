------------------------------- MODULE Billing ------------------------------
(***************************************************************************)
(* Invoices: InvoiceController::store and update, and the number           *)
(* generator, as PostgreSQL runs them at its default isolation level.      *)
(*                                                                         *)
(* Both are one transaction of several statements.  A statement looks for  *)
(* its rows in what was committed when it began, waits for each of them    *)
(* that another transaction has locked, and looks again at the row it      *)
(* gets: a row that has come to match in the meantime is not among them.   *)
(* Each window of the office runs one transaction at a time, and its       *)
(* changes are seen by the others when it commits.                         *)
(***************************************************************************)
EXTENDS Naturals, FiniteSets

CONSTANTS
  Projects,       \* finished projects of one client, billable as a status goes
  Windows,        \* browser windows issuing and correcting invoices
  Free,           \* the holder of a project row nobody has locked
  MaxInvoices,    \* bound: invoice ids ever drawn from the sequence
  Crashes         \* whether a transaction may die after it has stored its PDF

ASSUME FreeAssumption == Free \notin Windows
ASSUME BillingBounds ==
  MaxInvoices \in Nat /\ Crashes \in BOOLEAN

VARIABLES
  billedOn,       \* projects.invoice_id, 0 if the project is not billed
  items,          \* invoices.line_items: the projects on each invoice
  number,         \* invoices.number, 0 for an invoice that is not issued
  last,           \* invoice_counters.last_number
  ids,            \* ids drawn from the sequence, which no rollback gives back
  pdf,            \* the projects on the PDF stored for each invoice
  lock,           \* the window that has locked each project row
  txn,            \* the transaction of each window
  mixed           \* history: invoices last corrected by a transaction that was overtaken

vars == <<billedOn, items, number, last, ids, pdf, lock, txn, mixed>>

Invoices == 1..MaxInvoices

\* at: the statement it is at; invoice: 0 until a new one is created; set: the
\* projects asked for; todo: rows its statement has still to get; got: rows locked
\* and matching; released, claimed: its writes to projects; number: the one it drew;
\* overtaken: history, whether another correction of its invoice has committed since
\* its release statement looked for its rows.
Idle == [at |-> "idle", invoice |-> 0, set |-> {}, todo |-> {}, got |-> {},
         released |-> {}, claimed |-> {}, number |-> 0, overtaken |-> FALSE]

Issued(i) == number[i] # 0

\* A project row as window w sees it: its own writes, or what is committed.
Seen(w, p) ==
  IF p \in txn[w].claimed THEN txn[w].invoice
  ELSE IF p \in txn[w].released THEN 0 ELSE billedOn[p]

\* What a new invoice may bill, and what a correction of an invoice may.
Billable(w, p) == Seen(w, p) = 0 \/ (txn[w].invoice # 0 /\ Seen(w, p) = txn[w].invoice)

Goes(w, next) == txn' = [txn EXCEPT ![w] = next] /\ UNCHANGED mixed

-----------------------------------------------------------------------------
(* The projects asked for.                                                 *)

StartStore(w, S) ==
  /\ txn[w] = Idle
  /\ Goes(w, [Idle EXCEPT !.at = "select", !.set = S])
  /\ UNCHANGED <<billedOn, items, number, last, ids, pdf, lock>>

\* Nothing keeps another window away from the invoice.
StartUpdate(w, i, S) ==
  /\ txn[w] = Idle
  /\ Issued(i)
  /\ Goes(w, [Idle EXCEPT !.at = "select", !.set = S, !.invoice = i])
  /\ UNCHANGED <<billedOn, items, number, last, ids, pdf, lock>>

\* SELECT ... FOR UPDATE: the rows it will get, if they still match then.
Select(w) ==
  /\ txn[w].at = "select"
  /\ Goes(w, [txn[w] EXCEPT !.at = "lock", !.todo = {p \in txn[w].set : Billable(w, p)}])
  /\ UNCHANGED <<billedOn, items, number, last, ids, pdf, lock>>

\* Mutant of LockProject: the rows are read and not locked.
ReadProject(w, p) ==
  /\ txn[w].at = "lock"
  /\ p \in txn[w].todo
  /\ lock[p] = Free
  /\ Goes(w, [txn[w] EXCEPT !.todo = @ \ {p}, !.got = @ \union {p}])
  /\ UNCHANGED <<billedOn, items, number, last, ids, pdf, lock>>

LockProject(w, p) ==
  /\ txn[w].at = "lock"
  /\ p \in txn[w].todo
  /\ lock[p] = Free
  /\ IF Billable(w, p)
     THEN /\ lock' = [lock EXCEPT ![p] = w]
          /\ Goes(w, [txn[w] EXCEPT !.todo = @ \ {p}, !.got = @ \union {p}])
     ELSE /\ Goes(w, [txn[w] EXCEPT !.todo = @ \ {p}])
          /\ UNCHANGED lock
  /\ UNCHANGED <<billedOn, items, number, last, ids, pdf>>

\* The rows asked for, all of them there: the transaction may go on.
Selected(w) == txn[w].at = "lock" /\ txn[w].todo = {} /\ txn[w].got = txn[w].set

-----------------------------------------------------------------------------
(* store(): a new invoice, with the next number of the year.               *)

\* Mutant of Create: the next number is read and not locked.
CreateUnlocked(w) ==
  /\ Selected(w) /\ txn[w].invoice = 0
  /\ ids < MaxInvoices
  /\ ids' = ids + 1
  /\ Goes(w, [txn[w] EXCEPT !.at = "claim", !.invoice = ids + 1, !.number = last + 1])
  /\ UNCHANGED <<billedOn, items, number, last, pdf, lock>>

\* Mutant of Create: the generator is asked twice and its first number dropped.
CreateSkipping(w) ==
  /\ Selected(w) /\ txn[w].invoice = 0
  /\ \A v \in Windows : txn[v].number = 0
  /\ ids < MaxInvoices
  /\ ids' = ids + 1
  /\ Goes(w, [txn[w] EXCEPT !.at = "claim", !.invoice = ids + 1, !.number = last + 2])
  /\ UNCHANGED <<billedOn, items, number, last, pdf, lock>>

\* The counter's row is locked by the upsert until the transaction ends.
Create(w) ==
  /\ Selected(w) /\ txn[w].invoice = 0
  /\ \A v \in Windows : txn[v].number = 0
  /\ ids < MaxInvoices
  /\ ids' = ids + 1
  /\ Goes(w, [txn[w] EXCEPT !.at = "claim", !.invoice = ids + 1, !.number = last + 1])
  /\ UNCHANGED <<billedOn, items, number, last, pdf, lock>>

-----------------------------------------------------------------------------
(* update(): release what the invoice bills, claim what it is to bill.     *)

\* Mutant of StartRelease: the new set is claimed and the old one never let go.
ClaimOnly(w) ==
  /\ Selected(w) /\ txn[w].invoice # 0
  /\ Goes(w, [txn[w] EXCEPT !.at = "release", !.todo = {}])
  /\ UNCHANGED <<billedOn, items, number, last, ids, pdf, lock>>

StartRelease(w) ==
  /\ Selected(w) /\ txn[w].invoice # 0
  /\ Goes(w, [txn[w] EXCEPT !.at = "release", !.overtaken = FALSE,
                            !.todo = {p \in Projects : Seen(w, p) = txn[w].invoice}])
  /\ UNCHANGED <<billedOn, items, number, last, ids, pdf, lock>>

Release(w, p) ==
  /\ txn[w].at = "release"
  /\ p \in txn[w].todo
  /\ lock[p] \in {Free, w}
  /\ IF Seen(w, p) = txn[w].invoice
     THEN /\ lock' = [lock EXCEPT ![p] = w]
          /\ Goes(w, [txn[w] EXCEPT !.todo = @ \ {p}, !.released = @ \union {p}])
     ELSE /\ Goes(w, [txn[w] EXCEPT !.todo = @ \ {p}])
          /\ UNCHANGED lock
  /\ UNCHANGED <<billedOn, items, number, last, ids, pdf>>

Released(w) ==
  /\ txn[w].at = "release" /\ txn[w].todo = {}
  /\ Goes(w, [txn[w] EXCEPT !.at = "claim"])
  /\ UNCHANGED <<billedOn, items, number, last, ids, pdf, lock>>

\* The selected rows are locked already: they are claimed at once.
Claim(w) ==
  /\ txn[w].at = "claim"
  /\ Goes(w, [txn[w] EXCEPT !.at = "row", !.claimed = txn[w].set])
  /\ UNCHANGED <<billedOn, items, number, last, ids, pdf, lock>>

\* The invoice's row is locked from here to the end.  Its line items are always written:
\* PostgreSQL's jsonb gives the keys back in an order of its own, so what was loaded
\* never equals what update() has put together.
WriteRow(w) ==
  /\ txn[w].at = "row"
  /\ \A v \in Windows \ {w} :
       txn[v].invoice = txn[w].invoice => txn[v].at \notin {"pdf", "commit"}
  /\ Goes(w, [txn[w] EXCEPT !.at = "pdf"])
  /\ UNCHANGED <<billedOn, items, number, last, ids, pdf, lock>>

-----------------------------------------------------------------------------
(* The document and the end of the transaction.                            *)

\* The PDF is rendered from the row as this transaction sees it.
PutPdf(w) ==
  /\ txn[w].at = "pdf"
  /\ pdf' = [pdf EXCEPT ![txn[w].invoice] = txn[w].set]
  /\ Goes(w, [txn[w] EXCEPT !.at = "commit"])
  /\ UNCHANGED <<billedOn, items, number, last, ids, lock>>

Unlocked(w) == [p \in Projects |-> IF lock[p] = w THEN Free ELSE lock[p]]

Commit(w) ==
  /\ txn[w].at = "commit"
  /\ billedOn' = [p \in Projects |-> Seen(w, p)]
  /\ items' = [items EXCEPT ![txn[w].invoice] = txn[w].set]
  /\ IF txn[w].number = 0
     THEN UNCHANGED <<number, last>>
     ELSE /\ number' = [number EXCEPT ![txn[w].invoice] = txn[w].number]
          /\ last' = txn[w].number
  /\ lock' = Unlocked(w)
  /\ txn' = [v \in Windows |->
               IF v = w THEN Idle
               ELSE IF txn[v].invoice = txn[w].invoice THEN [txn[v] EXCEPT !.overtaken = TRUE]
               ELSE txn[v]]
  /\ mixed' = IF txn[w].overtaken THEN mixed \union {txn[w].invoice}
                                  ELSE mixed \ {txn[w].invoice}
  /\ UNCHANGED <<ids, pdf>>

\* Refused, chosen by the deadlock detector, failed by Gotenberg, or died: all of it
\* is undone but the id and the file.
Rollback(w) ==
  /\ txn[w] # Idle
  /\ txn[w].at = "commit" => Crashes
  /\ lock' = Unlocked(w)
  /\ Goes(w, Idle)
  /\ UNCHANGED <<billedOn, items, number, last, ids, pdf>>

-----------------------------------------------------------------------------
Init ==
  /\ billedOn = [p \in Projects |-> 0]
  /\ items = [i \in Invoices |-> {}]
  /\ number = [i \in Invoices |-> 0]
  /\ last = 0
  /\ ids = 0
  /\ pdf = [i \in Invoices |-> {}]
  /\ lock = [p \in Projects |-> Free]
  /\ txn = [w \in Windows |-> Idle]
  /\ mixed = {}

Next ==
  \E w \in Windows :
    \/ \E S \in SUBSET Projects \ {{}} :
         StartStore(w, S) \/ \E i \in Invoices : StartUpdate(w, i, S)
    \/ Select(w)
    \/ \E p \in Projects : LockProject(w, p) \/ Release(w, p)
    \/ Create(w) \/ StartRelease(w) \/ Released(w) \/ Claim(w) \/ WriteRow(w)
    \/ PutPdf(w) \/ Commit(w) \/ Rollback(w)

Spec == Init /\ [][Next]_vars

-----------------------------------------------------------------------------
(* Type invariant.                                                         *)

TxnRow == [at : {"idle", "select", "lock", "release", "claim", "row", "pdf", "commit"},
           invoice : Invoices \union {0}, set : SUBSET Projects, todo : SUBSET Projects,
           got : SUBSET Projects, released : SUBSET Projects, claimed : SUBSET Projects,
           number : Invoices \union {0}, overtaken : BOOLEAN]

TypeOK ==
  /\ billedOn \in [Projects -> Invoices \union {0}]
  /\ items \in [Invoices -> SUBSET Projects]
  /\ number \in [Invoices -> Invoices \union {0}]
  /\ last \in Invoices \union {0}
  /\ ids \in Invoices \union {0}
  /\ pdf \in [Invoices -> SUBSET Projects]
  /\ lock \in [Projects -> Windows \union {Free}]
  /\ txn \in [Windows -> TxnRow]
  /\ mixed \subseteq Invoices

(* Safety.                                                                 *)

\* "Two windows cannot bill the same project at once": no project is printed on two
\* invoices, however issuing and correcting them interleave.
BilledOnce ==
  \A i, j \in Invoices : Issued(i) /\ Issued(j) /\ i # j => items[i] \cap items[j] = {}

Marked(i) == {p \in Projects : billedOn[p] = i}

\* What an invoice lists is marked as billed on it, however corrections overlap: a project
\* that is not would be billed again.  And what is marked is listed, or it would never be
\* billed; unless the last correction was overtaken by another of the same invoice, which
\* claimed it after that one had looked for what to release.  The next one mends it.
BillsMatch ==
  \A i \in Invoices : Issued(i) =>
    /\ items[i] \subseteq Marked(i)
    /\ i \notin mixed => items[i] = Marked(i)

\* The sequence is the office's audit trail: no number twice, and no gap.
NumbersRunOn ==
  /\ \A i, j \in Invoices : Issued(i) /\ number[i] = number[j] => i = j
  /\ {number[i] : i \in Invoices} \ {0} = 1..last

(* Why they hold: the inductive invariant.                                 *)

Later == {"release", "claim", "row", "pdf", "commit"}
Claimed == {"row", "pdf", "commit"}

\* A window's invoice is issued already, or new, nobody else's and with the number that
\* comes next, which one window at a time may draw.
InvoicesApart ==
  /\ \A i \in Invoices : Issued(i) => i <= ids
  /\ last <= ids
  /\ \A w \in Windows : txn[w].invoice # 0 =>
       /\ txn[w].invoice <= ids
       /\ Issued(txn[w].invoice) <=> txn[w].number = 0
  /\ \A w \in Windows : txn[w].number # 0 =>
       /\ txn[w].invoice # 0
       /\ txn[w].number = last + 1 /\ last < ids
       /\ \A v \in Windows \ {w} : txn[v].number = 0 /\ txn[v].invoice # txn[w].invoice

\* The rows a window has selected or released are locked by it, and what was committed
\* of them is still what it saw.
RowsHeld(w) ==
  /\ \A p \in txn[w].got : lock[p] = w /\ billedOn[p] \in {0, txn[w].invoice}
  /\ \A p \in txn[w].released :
       lock[p] = w /\ txn[w].invoice # 0 /\ billedOn[p] = txn[w].invoice
  /\ txn[w].at \in Later => txn[w].invoice # 0 /\ txn[w].got = txn[w].set
  /\ txn[w].claimed = IF txn[w].at \in Claimed THEN txn[w].set ELSE {}
  /\ txn[w].at \notin Later => txn[w].released = {} /\ txn[w].number = 0

\* Whatever its invoice bills is among the rows it releases, if it was not overtaken.
ReleasesAll(w) ==
  txn[w].at \in Later /\ ~txn[w].overtaken => \A p \in Projects :
    billedOn[p] = txn[w].invoice =>
      p \in txn[w].released \/ (txn[w].at = "release" /\ p \in txn[w].todo)

MarksIssued == \A p \in Projects : billedOn[p] # 0 => Issued(billedOn[p])

IInv == /\ TypeOK
        /\ InvoicesApart
        /\ \A w \in Windows : RowsHeld(w) /\ ReleasesAll(w)
        /\ MarksIssued
        /\ BillsMatch
        /\ NumbersRunOn

-----------------------------------------------------------------------------
(* What the comments say and the code does not do.                         *)

\* "Projects dropped from the invoice are released back to billable in the same transaction
\* that claims the added ones": nothing is billed on an invoice that does not list it.
DroppedIsReleased == \A i \in Invoices : Issued(i) => items[i] = Marked(i)

\* "The download can never disagree with the row", once nobody is at work on it.
PdfMatchesRow ==
  \A i \in Invoices :
    Issued(i) /\ (\A w \in Windows : txn[w].invoice # i) => pdf[i] = items[i]

\* "A failed issue burns its number": the counter keeps what a failed issue drew.
FailedIssueBurns ==
  [][\A w \in Windows :
       txn[w].number # 0 /\ txn[w]' = Idle => last' >= txn[w].number]_vars
=============================================================================
