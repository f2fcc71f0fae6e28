---------------------------- MODULE OfficeProofs ----------------------------
(***************************************************************************)
(* Proofs about the records of the office.                                 *)
(*                                                                         *)
(* Billing: for any number of projects, windows and invoices, corrections  *)
(* of one invoice that overlap, and transactions that fail at any          *)
(* statement.                                                              *)
(*                                                                         *)
(* Forms: for any number of windows, edits, visits and saves, and each of  *)
(* the seven forms, without a condition.                                   *)
(***************************************************************************)
EXTENDS Billing, Forms, TLAPS

-----------------------------------------------------------------------------
(* Invoices.                                                               *)

Local(w) == RowsHeld(w) /\ ReleasesAll(w)

\* What the other windows rely on: the rows they have locked stay theirs and stay as they
\* are, and nothing gets billed on the invoice of one that is not told it was overtaken.
LEMMA OthersKeep ==
  ASSUME IInv, NEW w \in Windows,
         \A v \in Windows \ {w} : txn'[v] \in {txn[v], [txn[v] EXCEPT !.overtaken = TRUE]},
         \A p \in Projects : lock[p] \notin {Free, w} =>
                               lock'[p] = lock[p] /\ billedOn'[p] = billedOn[p],
         \A p \in Projects : billedOn'[p] \in {billedOn[p], 0, txn[w].invoice},
         \A v \in Windows \ {w} : txn[v].invoice # 0 =>
           \/ txn[v].invoice # txn[w].invoice \/ txn'[v].overtaken
           \/ \A p \in Projects : billedOn'[p] \in {billedOn[p], 0}
  PROVE  \A v \in Windows \ {w} : Local(v)'
<1> SUFFICES ASSUME NEW v \in Windows \ {w}
             PROVE  Local(v)'
  OBVIOUS
<1>1. txn[v] \in TxnRow
  BY DEF IInv, TypeOK
<1>2. /\ txn'[v].at = txn[v].at /\ txn'[v].invoice = txn[v].invoice /\ txn'[v].set = txn[v].set
      /\ txn'[v].todo = txn[v].todo /\ txn'[v].got = txn[v].got
      /\ txn'[v].released = txn[v].released /\ txn'[v].claimed = txn[v].claimed
      /\ txn'[v].number = txn[v].number
      /\ txn'[v].overtaken = FALSE => txn[v].overtaken = FALSE
  BY <1>1 DEF TxnRow
<1>3. txn'[v].overtaken \in BOOLEAN /\ txn[v].overtaken \in BOOLEAN
  BY <1>1 DEF TxnRow
<1>4. \A p \in Projects : lock[p] = v => lock'[p] = v /\ billedOn'[p] = billedOn[p]
  BY FreeAssumption
<1>5. txn[v].got \subseteq Projects /\ txn[v].released \subseteq Projects /\ RowsHeld(v)
  BY <1>1 DEF TxnRow, IInv
<1>6. RowsHeld(v)'
  BY <1>2, <1>4, <1>5 DEF RowsHeld
<1>7. ReleasesAll(v)'
  BY <1>2, <1>3, <1>5 DEF IInv, RowsHeld, ReleasesAll
<1> QED BY <1>6, <1>7 DEF Local

\* A statement of a transaction that goes on: nothing is committed, and its invoice and
\* its number are what they were.
LEMMA Statement ==
  ASSUME IInv, NEW w \in Windows, NEW next \in TxnRow, Goes(w, next),
         next.invoice = txn[w].invoice, next.number = txn[w].number,
         UNCHANGED <<billedOn, items, number, last, ids>>,
         pdf' \in [Invoices -> SUBSET Projects],
         lock' \in [Projects -> Windows \union {Free}],
         \A p \in Projects : lock[p] \notin {Free, w} => lock'[p] = lock[p],
         Local(w)'
  PROVE  IInv'
<1>1. txn' \in [Windows -> TxnRow]
  BY DEF Goes, IInv, TypeOK
<1>2. TypeOK'
  BY <1>1 DEF Goes, IInv, TypeOK
<1>3. \A v \in Windows : txn'[v].invoice = txn[v].invoice /\ txn'[v].number = txn[v].number
  BY DEF Goes, IInv, TypeOK
<1>4. InvoicesApart'
  BY <1>3 DEF IInv, InvoicesApart, Issued
<1>5. \A v \in Windows \ {w} : Local(v)'
  <2>1. \A v \in Windows \ {w} : txn'[v] = txn[v]
    BY DEF Goes, IInv, TypeOK
  <2> QED BY <2>1, OthersKeep
<1>6. MarksIssued' /\ BillsMatch' /\ NumbersRunOn'
  BY DEF Goes, IInv, MarksIssued, BillsMatch, Marked, NumbersRunOn, Issued
<1> QED BY <1>2, <1>4, <1>5, <1>6 DEF IInv, Local

LEMMA Initially == Init => IInv
<1> SUFFICES ASSUME Init PROVE IInv
  OBVIOUS
<1> USE DEF Init
<1>1. Idle \in TxnRow
  BY DEF Idle, TxnRow
<1>2. TypeOK
  BY <1>1, BillingBounds DEF TypeOK, Invoices
<1>3. InvoicesApart
  BY DEF InvoicesApart, Issued, Idle
<1>4. \A w \in Windows : RowsHeld(w) /\ ReleasesAll(w)
  BY DEF RowsHeld, ReleasesAll, Later, Claimed, Idle
<1>5. MarksIssued /\ BillsMatch
  BY DEF MarksIssued, BillsMatch, Issued
<1>6. NumbersRunOn
  <2>1. {number[i] : i \in Invoices} \ {0} = {}
    OBVIOUS
  <2>2. 1..last = {}
    OBVIOUS
  <2> QED BY <2>1, <2>2 DEF NumbersRunOn, Issued
<1> QED BY <1>2, <1>3, <1>4, <1>5, <1>6 DEF IInv

\* The statements of a transaction, each by Statement.
LEMMA StatementsKeep ==
  ASSUME IInv, NEW w \in Windows,
         \/ Select(w) \/ StartRelease(w) \/ Released(w) \/ Claim(w) \/ WriteRow(w)
         \/ PutPdf(w) \/ \E p \in Projects : LockProject(w, p) \/ Release(w, p)
  PROVE  IInv'
<1> USE DEF Later, Claimed
<1>1. txn[w] \in TxnRow /\ Local(w)
  BY DEF IInv, TypeOK, Local
<1>2. ASSUME NEW next \in TxnRow, Goes(w, next)
      PROVE  txn'[w] = next
  BY <1>2 DEF Goes, IInv, TypeOK
<1>3. CASE Select(w)
  <2> DEFINE next == [txn[w] EXCEPT !.at = "lock", !.todo = {p \in txn[w].set : Billable(w, p)}]
  <2>1. next \in TxnRow
    BY <1>1 DEF TxnRow
  <2>2. Goes(w, next) /\ UNCHANGED <<billedOn, items, number, last, ids, pdf, lock>>
    BY <1>3 DEF Select
  <2>3. txn'[w] = next
    BY <1>2, <2>1, <2>2
  <2>4. Local(w)'
    BY <1>1, <1>3, <2>2, <2>3 DEF Local, RowsHeld, ReleasesAll, Select, TxnRow
  <2>5. next.invoice = txn[w].invoice /\ next.number = txn[w].number
    BY <1>1 DEF TxnRow
  <2> HIDE DEF next
  <2> QED BY <2>1, <2>2, <2>4, <2>5, Statement DEF IInv, TypeOK
<1>4. ASSUME NEW p \in Projects, LockProject(w, p) PROVE IInv'
  <2>1. CASE Billable(w, p)
    <3> DEFINE next == [txn[w] EXCEPT !.todo = @ \ {p}, !.got = @ \union {p}]
    <3>1. next \in TxnRow
      BY <1>1 DEF TxnRow
    <3>2. /\ Goes(w, next) /\ UNCHANGED <<billedOn, items, number, last, ids, pdf>>
          /\ lock' = [lock EXCEPT ![p] = w] /\ lock[p] = Free
          /\ txn[w].at = "lock" /\ p \in txn[w].todo
      BY <1>4, <2>1 DEF LockProject
    <3>3. txn'[w] = next
      BY <1>2, <3>1, <3>2
    <3>4. \A q \in Projects : lock'[q] = IF q = p THEN w ELSE lock[q]
      BY <3>2 DEF IInv, TypeOK
    <3>5. billedOn[p] \in {0, txn[w].invoice}
      BY <1>1, <2>1, <3>2 DEF Billable, Seen, Local, RowsHeld
    <3>6. RowsHeld(w)'
      BY <1>1, <3>2, <3>3, <3>4, <3>5, SMTT(30) DEF Local, RowsHeld, TxnRow
    <3>7. ReleasesAll(w)'
      BY <1>1, <3>2, <3>3 DEF Local, ReleasesAll, TxnRow
    <3>8. next.invoice = txn[w].invoice /\ next.number = txn[w].number
      BY <1>1 DEF TxnRow
    <3>9. /\ lock' \in [Projects -> Windows \union {Free}]
          /\ \A q \in Projects : lock[q] \notin {Free, w} => lock'[q] = lock[q]
          /\ pdf' \in [Invoices -> SUBSET Projects]
      BY <3>2, <3>4 DEF IInv, TypeOK
    <3> HIDE DEF next
    <3> QED BY <3>1, <3>2, <3>6, <3>7, <3>8, <3>9, Statement DEF Local
  <2>2. CASE ~Billable(w, p)
    <3> DEFINE next == [txn[w] EXCEPT !.todo = @ \ {p}]
    <3>1. next \in TxnRow
      BY <1>1 DEF TxnRow
    <3>2. /\ Goes(w, next) /\ UNCHANGED <<billedOn, items, number, last, ids, pdf, lock>>
          /\ txn[w].at = "lock"
      BY <1>4, <2>2 DEF LockProject
    <3>3. txn'[w] = next
      BY <1>2, <3>1, <3>2
    <3>4. Local(w)'
      BY <1>1, <3>2, <3>3 DEF Local, RowsHeld, ReleasesAll, TxnRow
    <3>5. next.invoice = txn[w].invoice /\ next.number = txn[w].number
      BY <1>1 DEF TxnRow
    <3> HIDE DEF next
    <3> QED BY <3>1, <3>2, <3>4, <3>5, Statement DEF IInv, TypeOK
  <2> QED BY <2>1, <2>2
<1>5. CASE StartRelease(w)
  <2> DEFINE next == [txn[w] EXCEPT !.at = "release", !.overtaken = FALSE,
                        !.todo = {p \in Projects : Seen(w, p) = txn[w].invoice}]
  <2>1. next \in TxnRow
    BY <1>1 DEF TxnRow
  <2>2. /\ Goes(w, next) /\ UNCHANGED <<billedOn, items, number, last, ids, pdf, lock>>
        /\ txn[w].at = "lock" /\ txn[w].got = txn[w].set /\ txn[w].invoice # 0
    BY <1>5 DEF StartRelease, Selected
  <2>3. txn'[w] = next
    BY <1>2, <2>1, <2>2
  <2>4. \A p \in Projects : Seen(w, p) = billedOn[p]
    BY <1>1, <2>2 DEF Seen, Local, RowsHeld
  <2>5. Local(w)'
    BY <1>1, <2>2, <2>3, <2>4 DEF Local, RowsHeld, ReleasesAll, TxnRow
  <2>6. next.invoice = txn[w].invoice /\ next.number = txn[w].number
    BY <1>1 DEF TxnRow
  <2> HIDE DEF next
  <2> QED BY <2>1, <2>2, <2>5, <2>6, Statement DEF IInv, TypeOK
<1>6. ASSUME NEW p \in Projects, Release(w, p) PROVE IInv'
  <2>1. txn[w].at = "release" /\ p \in txn[w].todo
    BY <1>6 DEF Release
  <2>2. Seen(w, p) = txn[w].invoice <=> p \notin txn[w].released /\ billedOn[p] = txn[w].invoice
    BY <1>1, <2>1 DEF Seen, Local, RowsHeld
  <2>3. CASE Seen(w, p) = txn[w].invoice
    <3> DEFINE next == [txn[w] EXCEPT !.todo = @ \ {p}, !.released = @ \union {p}]
    <3>1. next \in TxnRow
      BY <1>1 DEF TxnRow
    <3>2. /\ Goes(w, next) /\ UNCHANGED <<billedOn, items, number, last, ids, pdf>>
          /\ lock' = [lock EXCEPT ![p] = w] /\ lock[p] \in {Free, w}
      BY <1>6, <2>3 DEF Release
    <3>3. txn'[w] = next
      BY <1>2, <3>1, <3>2
    <3>4. \A q \in Projects : lock'[q] = IF q = p THEN w ELSE lock[q]
      BY <3>2 DEF IInv, TypeOK
    <3>5. RowsHeld(w)'
      <4>1. txn'[w].released = txn[w].released \union {p} /\ txn'[w].at = "release"
            /\ txn'[w].invoice = txn[w].invoice /\ txn'[w].got = txn[w].got
            /\ txn'[w].set = txn[w].set /\ txn'[w].claimed = txn[w].claimed
        BY <1>1, <2>1, <3>3 DEF TxnRow
      <4>2. \A q \in txn[w].got \union txn[w].released : q \in Projects
        BY <1>1 DEF TxnRow
      <4> QED BY <1>1, <2>1, <2>2, <2>3, <3>2, <3>4, <4>1, <4>2 DEF Local, RowsHeld
    <3>6. ReleasesAll(w)'
      BY <1>1, <2>1, <3>2, <3>3 DEF Local, ReleasesAll, TxnRow
    <3>7. next.invoice = txn[w].invoice /\ next.number = txn[w].number
      BY <1>1 DEF TxnRow
    <3>8. /\ lock' \in [Projects -> Windows \union {Free}]
          /\ \A q \in Projects : lock[q] \notin {Free, w} => lock'[q] = lock[q]
          /\ pdf' \in [Invoices -> SUBSET Projects]
      BY <3>2, <3>4 DEF IInv, TypeOK
    <3> HIDE DEF next
    <3> QED BY <3>1, <3>2, <3>5, <3>6, <3>7, <3>8, Statement DEF Local
  <2>4. CASE Seen(w, p) # txn[w].invoice
    <3> DEFINE next == [txn[w] EXCEPT !.todo = @ \ {p}]
    <3>1. next \in TxnRow
      BY <1>1 DEF TxnRow
    <3>2. Goes(w, next) /\ UNCHANGED <<billedOn, items, number, last, ids, pdf, lock>>
      BY <1>6, <2>4 DEF Release
    <3>3. txn'[w] = next
      BY <1>2, <3>1, <3>2
    <3>4. Local(w)'
      <4>1. RowsHeld(w)'
        BY <1>1, <2>1, <3>2, <3>3 DEF Local, RowsHeld, TxnRow
      <4>2. ReleasesAll(w)'
        BY <1>1, <2>1, <2>2, <2>4, <3>2, <3>3 DEF Local, ReleasesAll, TxnRow
      <4> QED BY <4>1, <4>2 DEF Local
    <3>5. next.invoice = txn[w].invoice /\ next.number = txn[w].number
      BY <1>1 DEF TxnRow
    <3> HIDE DEF next
    <3> QED BY <3>1, <3>2, <3>4, <3>5, Statement DEF IInv, TypeOK
  <2> QED BY <2>3, <2>4
<1>7. ASSUME NEW next \in TxnRow, Goes(w, next),
             UNCHANGED <<billedOn, items, number, last, ids, pdf, lock>>,
             next.invoice = txn[w].invoice, next.number = txn[w].number,
             RowsHeld(w)', ReleasesAll(w)'
      PROVE  IInv'
  BY <1>7, Statement DEF IInv, TypeOK, Local
<1>8. CASE Released(w)
  <2>1. [txn[w] EXCEPT !.at = "claim"] \in TxnRow
    BY <1>1 DEF TxnRow
  <2>2. txn'[w] = [txn[w] EXCEPT !.at = "claim"]
    BY <1>2, <1>8, <2>1 DEF Released
  <2>3. RowsHeld(w)' /\ ReleasesAll(w)'
    BY <1>1, <1>8, <2>2 DEF Released, Local, RowsHeld, ReleasesAll, TxnRow
  <2> QED BY <1>1, <1>7, <1>8, <2>1, <2>3 DEF Released, TxnRow
<1>9. CASE Claim(w)
  <2>1. [txn[w] EXCEPT !.at = "row", !.claimed = txn[w].set] \in TxnRow
    BY <1>1 DEF TxnRow
  <2>2. txn'[w] = [txn[w] EXCEPT !.at = "row", !.claimed = txn[w].set]
    BY <1>2, <1>9, <2>1 DEF Claim
  <2>3. RowsHeld(w)' /\ ReleasesAll(w)'
    BY <1>1, <1>9, <2>2 DEF Claim, Local, RowsHeld, ReleasesAll, TxnRow
  <2> QED BY <1>1, <1>7, <1>9, <2>1, <2>3 DEF Claim, TxnRow
<1>10. CASE WriteRow(w)
  <2>1. [txn[w] EXCEPT !.at = "pdf"] \in TxnRow
    BY <1>1 DEF TxnRow
  <2>2. txn'[w] = [txn[w] EXCEPT !.at = "pdf"]
    BY <1>2, <1>10, <2>1 DEF WriteRow
  <2>3. RowsHeld(w)' /\ ReleasesAll(w)'
    BY <1>1, <1>10, <2>2 DEF WriteRow, Local, RowsHeld, ReleasesAll, TxnRow
  <2> QED BY <1>1, <1>7, <1>10, <2>1, <2>3 DEF WriteRow, TxnRow
<1>11. CASE PutPdf(w)
  <2>1. [txn[w] EXCEPT !.at = "commit"] \in TxnRow
    BY <1>1 DEF TxnRow
  <2>2. txn'[w] = [txn[w] EXCEPT !.at = "commit"]
    BY <1>2, <1>11, <2>1 DEF PutPdf
  <2>3. Local(w)'
    BY <1>1, <1>11, <2>2 DEF PutPdf, Local, RowsHeld, ReleasesAll, TxnRow
  <2>4. pdf' \in [Invoices -> SUBSET Projects]
    BY <1>1, <1>11 DEF PutPdf, IInv, TypeOK, TxnRow
  <2>5. [txn[w] EXCEPT !.at = "commit"].invoice = txn[w].invoice
        /\ [txn[w] EXCEPT !.at = "commit"].number = txn[w].number
    BY <1>1 DEF TxnRow
  <2> QED BY <1>11, <2>1, <2>3, <2>4, <2>5, Statement DEF PutPdf, IInv, TypeOK
<1> QED BY <1>3, <1>4, <1>5, <1>6, <1>8, <1>9, <1>10, <1>11

\* A request that begins: with an invoice nobody is at work on, or with none.
LEMMA StartsKeep ==
  ASSUME IInv, NEW w \in Windows, NEW S \in SUBSET Projects,
         StartStore(w, S) \/ \E i \in Invoices : StartUpdate(w, i, S)
  PROVE  IInv'
<1> USE DEF Later, Claimed
<1>1. PICK i \in Invoices \union {0}, next \in TxnRow :
        /\ i # 0 => Issued(i)
        /\ next.at = "select" /\ next.invoice = i /\ next.number = 0 /\ next.got = {}
        /\ next.released = {} /\ next.claimed = {}
        /\ Goes(w, next)
        /\ UNCHANGED <<billedOn, items, number, last, ids, pdf, lock>>
  <2>1. CASE StartStore(w, S)
    <3> DEFINE next == [Idle EXCEPT !.at = "select", !.set = S]
    <3>1. /\ next.at = "select" /\ next.invoice = 0 /\ next.number = 0 /\ next.got = {}
          /\ next.released = {} /\ next.claimed = {} /\ next \in TxnRow
      BY DEF Idle, TxnRow
    <3>2. Goes(w, next) /\ UNCHANGED <<billedOn, items, number, last, ids, pdf, lock>>
      BY <2>1 DEF StartStore
    <3> HIDE DEF next
    <3> QED BY <3>1, <3>2
  <2>2. ASSUME NEW i \in Invoices, StartUpdate(w, i, S)
        PROVE  \E next \in TxnRow :
                 /\ Issued(i)
                 /\ next.at = "select" /\ next.invoice = i /\ next.number = 0 /\ next.got = {}
                 /\ next.released = {} /\ next.claimed = {}
                 /\ Goes(w, next)
                 /\ UNCHANGED <<billedOn, items, number, last, ids, pdf, lock>>
    <3> DEFINE next == [Idle EXCEPT !.at = "select", !.set = S, !.invoice = i]
    <3>1. /\ next.at = "select" /\ next.invoice = i /\ next.number = 0 /\ next.got = {}
          /\ next.released = {} /\ next.claimed = {} /\ next \in TxnRow
      BY DEF Idle, TxnRow
    <3>2. Goes(w, next) /\ UNCHANGED <<billedOn, items, number, last, ids, pdf, lock>> /\ Issued(i)
      BY <2>2 DEF StartUpdate
    <3> HIDE DEF next
    <3> QED BY <3>1, <3>2
  <2>3. \A i \in Invoices : i # 0
    BY DEF Invoices
  <2> QED BY <2>1, <2>2, <2>3
<1>2. next.at \notin Later
  BY <1>1
<1>3. Goes(w, next)
  BY <1>1
<1>4. txn' \in [Windows -> TxnRow] /\ txn'[w] = next /\ mixed' = mixed
      /\ \A v \in Windows \ {w} : txn'[v] = txn[v]
  BY <1>2, <1>3 DEF Goes, IInv, TypeOK
<1>5. TypeOK'
  BY <1>1, <1>4 DEF IInv, TypeOK
<1>6. InvoicesApart'
  <2>1. i # 0 => \A v \in Windows : txn[v].number # 0 => txn[v].invoice # i
    BY <1>1 DEF IInv, InvoicesApart
  <2> QED BY <1>1, <1>4, <2>1 DEF IInv, InvoicesApart, Issued
<1>7. \A v \in Windows \ {w} : Local(v)'
  BY <1>1, <1>4, OthersKeep
<1>8. Local(w)'
  BY <1>1, <1>2, <1>4 DEF Local, RowsHeld, ReleasesAll
<1>9. MarksIssued' /\ BillsMatch' /\ NumbersRunOn'
  BY <1>1, <1>4 DEF IInv, MarksIssued, BillsMatch, Marked, NumbersRunOn, Issued
<1> QED BY <1>5, <1>6, <1>7, <1>8, <1>9 DEF IInv, Local

\* A new invoice: its id was never drawn, and its number is the next.
LEMMA CreateKeeps ==
  ASSUME IInv, NEW w \in Windows, Create(w)
  PROVE  IInv'
<1> USE DEF Later, Claimed
<1> DEFINE next == [txn[w] EXCEPT !.at = "claim", !.invoice = ids + 1, !.number = last + 1]
<1>1. /\ txn[w] \in TxnRow /\ RowsHeld(w) /\ txn[w].at = "lock" /\ txn[w].invoice = 0
      /\ txn[w].got = txn[w].set /\ ids < MaxInvoices /\ ids \in Nat /\ last \in Nat
      /\ last <= ids
  BY DEF IInv, TypeOK, InvoicesApart, Create, Selected, Invoices
<1>2. ids + 1 \in Invoices /\ last + 1 \in Invoices
  BY <1>1, BillingBounds DEF Invoices
<1>3. next \in TxnRow
  BY <1>1, <1>2 DEF TxnRow
<1>4. /\ next.at = "claim" /\ next.invoice = ids + 1 /\ next.number = last + 1
      /\ next.got = txn[w].got /\ next.set = txn[w].set /\ next.released = txn[w].released
      /\ next.claimed = txn[w].claimed
  BY <1>1 DEF TxnRow
<1>5. /\ Goes(w, next) /\ ids' = ids + 1 /\ UNCHANGED <<billedOn, items, number, last, pdf, lock>>
      /\ \A v \in Windows : txn[v].number = 0
  BY DEF Create
<1> HIDE DEF next
<1>6. txn' \in [Windows -> TxnRow] /\ txn'[w] = next /\ mixed' = mixed
      /\ \A v \in Windows \ {w} : txn'[v] = txn[v]
  BY <1>3, <1>5 DEF Goes, IInv, TypeOK
<1>7. TypeOK'
  BY <1>2, <1>5, <1>6 DEF IInv, TypeOK
<1>8. \A i \in Invoices : Issued(i) => i # ids + 1
  BY <1>1 DEF IInv, InvoicesApart, Invoices
<1>9. \A v \in Windows : txn[v].invoice # ids + 1
  BY <1>1 DEF IInv, TypeOK, TxnRow, InvoicesApart, Invoices
<1>10. InvoicesApart'
  <2>1. \A i \in Invoices : Issued(i)' => i <= ids'
    BY <1>1, <1>5 DEF IInv, InvoicesApart, Issued, Invoices
  <2>2. last' <= ids'
    BY <1>1, <1>5
  <2>3. ASSUME NEW v \in Windows, txn'[v].invoice # 0
        PROVE  /\ txn'[v].invoice <= ids'
               /\ number'[txn'[v].invoice] # 0 <=> txn'[v].number = 0
    <3>1. CASE v = w
      BY <1>1, <1>2, <1>4, <1>5, <1>6, <1>8, <1>9, <3>1 DEF Issued
    <3>2. CASE v # w
      <4>1. txn[v].invoice \in Nat
        BY DEF IInv, TypeOK, TxnRow, Invoices
      <4> QED BY <1>1, <1>4, <1>5, <1>6, <1>9, <2>3, <3>2, <4>1 DEF IInv, InvoicesApart, Issued
    <3> QED BY <3>1, <3>2
  <2>4. ASSUME NEW v \in Windows, txn'[v].number # 0
        PROVE  /\ txn'[v].invoice # 0
               /\ txn'[v].number = last' + 1 /\ last' < ids'
               /\ \A u \in Windows \ {v} :
                    txn'[u].number = 0 /\ txn'[u].invoice # txn'[v].invoice
    <3>1. v = w
      BY <1>5, <1>6, <2>4
    <3> QED BY <1>1, <1>4, <1>5, <1>6, <1>9, <3>1
  <2> QED BY <2>1, <2>2, <2>3, <2>4 DEF InvoicesApart, Issued
<1>11. \A v \in Windows \ {w} : Local(v)'
  BY <1>5, <1>6, OthersKeep
<1>12. \A p \in Projects : billedOn[p] # ids + 1
  BY <1>1, <1>8 DEF IInv, MarksIssued, TypeOK
<1>13. Local(w)'
  <2>1. \A p \in txn[w].got : lock[p] = w /\ billedOn[p] = 0
    BY <1>1 DEF RowsHeld
  <2>2. RowsHeld(w)'
    <3>1. txn[w].at \notin Later /\ txn[w].at \notin Claimed
      BY <1>1
    <3>2. txn[w].released = {} /\ txn[w].claimed = {}
      BY <1>1, <3>1 DEF RowsHeld
    <3>3. txn'[w].at \in Later /\ txn'[w].at \notin Claimed
      BY <1>4, <1>6
    <3>4. /\ txn'[w].got = txn[w].got /\ txn'[w].set = txn[w].set
          /\ txn'[w].released = {} /\ txn'[w].claimed = {}
          /\ txn'[w].invoice = ids + 1 /\ ids + 1 # 0
      BY <1>1, <1>4, <1>6, <3>2
    <3>5. lock' = lock /\ billedOn' = billedOn
      BY <1>5
    <3> HIDE DEF Later, Claimed
    <3> QED BY <1>1, <2>1, <3>3, <3>4, <3>5 DEF RowsHeld
  <2>3. txn'[w].invoice = ids + 1 /\ billedOn' = billedOn
    BY <1>4, <1>5, <1>6
  <2>4. ReleasesAll(w)'
    BY <1>12, <2>3 DEF ReleasesAll
  <2> QED BY <2>2, <2>4 DEF Local
<1>14. MarksIssued' /\ BillsMatch' /\ NumbersRunOn'
  BY <1>5, <1>6 DEF IInv, MarksIssued, BillsMatch, Marked, NumbersRunOn, Issued
<1> QED BY <1>7, <1>10, <1>11, <1>13, <1>14 DEF IInv, Local

\* What remains of a transaction when it ends: its locks are gone, and so is its claim to
\* its invoice and its number.
LEMMA Ends ==
  ASSUME IInv, NEW w \in Windows, lock' = Unlocked(w), Idle \in TxnRow =>
           /\ txn' \in [Windows -> TxnRow] /\ txn'[w] = Idle
  PROVE  /\ lock' \in [Projects -> Windows \union {Free}]
         /\ \A p \in Projects : lock[p] \notin {Free, w} => lock'[p] = lock[p]
         /\ txn' \in [Windows -> TxnRow]
         /\ txn'[w].invoice = 0 /\ txn'[w].number = 0
         /\ Local(w)'
<1>1. Idle \in TxnRow
  BY DEF Idle, TxnRow
<1>2. /\ lock' \in [Projects -> Windows \union {Free}]
      /\ \A p \in Projects : lock[p] \notin {Free, w} => lock'[p] = lock[p]
  BY DEF Unlocked, IInv, TypeOK
<1>3. Local(w)'
  BY <1>1 DEF Local, RowsHeld, ReleasesAll, Later, Claimed, Idle
<1> QED BY <1>1, <1>2, <1>3 DEF Idle

LEMMA RollbackKeeps ==
  ASSUME IInv, NEW w \in Windows, Rollback(w)
  PROVE  IInv'
<1>1. lock' = Unlocked(w) /\ Goes(w, Idle) /\ UNCHANGED <<billedOn, items, number, last, ids, pdf>>
  BY DEF Rollback
<1>2. /\ Idle \in TxnRow => txn' \in [Windows -> TxnRow] /\ txn'[w] = Idle
      /\ \A v \in Windows \ {w} : txn'[v] = txn[v]
      /\ mixed' = mixed
  BY <1>1 DEF Goes, IInv, TypeOK
<1>3. TypeOK'
  BY <1>1, <1>2, Ends DEF IInv, TypeOK
<1>4. InvoicesApart'
  BY <1>1, <1>2, Ends DEF IInv, InvoicesApart, Issued
<1>5. \A v \in Windows : Local(v)'
  BY <1>1, <1>2, Ends, OthersKeep
<1>6. MarksIssued' /\ BillsMatch' /\ NumbersRunOn'
  BY <1>1, <1>2 DEF IInv, MarksIssued, BillsMatch, Marked, NumbersRunOn, Issued
<1> QED BY <1>3, <1>4, <1>5, <1>6 DEF IInv, Local

\* The invoice bills what was asked for and nothing else, in its line items and on the
\* projects; no other invoice changes; and a new one has the next number.
LEMMA CommitKeeps ==
  ASSUME IInv, NEW w \in Windows, Commit(w)
  PROVE  IInv'
<1> USE DEF Later, Claimed
<1> DEFINE i == txn[w].invoice  S == txn[w].set  n == txn[w].number
<1>1. /\ txn[w] \in TxnRow /\ RowsHeld(w) /\ ReleasesAll(w)
      /\ txn[w].at = "commit"
  BY DEF IInv, TypeOK, Commit
<1>2. i \in Invoices /\ i # 0 /\ S \in SUBSET Projects /\ n \in Invoices \union {0}
  BY <1>1 DEF RowsHeld, TxnRow
<1>3. /\ lock' = Unlocked(w) /\ UNCHANGED <<ids, pdf>>
      /\ billedOn' = [p \in Projects |-> Seen(w, p)]
      /\ txn' = [v \in Windows |->
                   IF v = w THEN Idle
                   ELSE IF txn[v].invoice = i THEN [txn[v] EXCEPT !.overtaken = TRUE]
                   ELSE txn[v]]
      /\ mixed' = IF txn[w].overtaken THEN mixed \union {i} ELSE mixed \ {i}
  BY DEF Commit
<1>3a. /\ Idle \in TxnRow => txn' \in [Windows -> TxnRow] /\ txn'[w] = Idle
       /\ \A v \in Windows \ {w} :
            /\ txn'[v] \in {txn[v], [txn[v] EXCEPT !.overtaken = TRUE]}
            /\ txn'[v].invoice = txn[v].invoice /\ txn'[v].number = txn[v].number
            /\ txn[v].invoice = i => txn'[v].overtaken
  <2>1. \A v \in Windows : [txn[v] EXCEPT !.overtaken = TRUE] \in TxnRow
    BY DEF IInv, TypeOK, TxnRow
  <2> QED BY <1>3, <2>1 DEF IInv, TypeOK, TxnRow
<1>4. \A p \in Projects : billedOn'[p] = IF p \in S THEN i
                            ELSE IF p \in txn[w].released THEN 0 ELSE billedOn[p]
  BY <1>1, <1>3 DEF Seen, RowsHeld
<1>5. /\ items' \in [Invoices -> SUBSET Projects] /\ items'[i] = S
      /\ \A j \in Invoices : j # i => items'[j] = items[j]
  BY <1>2 DEF Commit, IInv, TypeOK
<1>6. /\ i <= ids
      /\ Issued(i) <=> n = 0
      /\ n # 0 => /\ n = last + 1 /\ last < ids
                  /\ \A v \in Windows \ {w} : txn[v].number = 0 /\ txn[v].invoice # i
      /\ n = 0 => \A v \in Windows \ {w} : txn[v].number # 0 => txn[v].invoice # i
  BY <1>2 DEF IInv, InvoicesApart
<1>7. /\ number' \in [Invoices -> Invoices \union {0}]
      /\ number'[i] # 0
      /\ \A j \in Invoices : j # i => number'[j] = number[j]
      /\ n = 0 => number' = number /\ last' = last
      /\ n # 0 => number'[i] = n /\ last' = n
  BY <1>2, <1>6 DEF Commit, IInv, TypeOK, Issued
<1> HIDE DEF i, S, n
<1>8. \A p \in Projects : billedOn'[p] \in {billedOn[p], 0, i}
  BY <1>4
<1>9. \A v \in Windows : Local(v)'
  <2>1. \A p \in Projects : lock[p] \notin {Free, w} => billedOn'[p] = billedOn[p]
    BY <1>1, <1>4 DEF RowsHeld, S
  <2> QED BY <1>3, <1>3a, <1>8, <2>1, Ends, OthersKeep DEF i
<1>10. TypeOK'
  <2>1. billedOn' \in [Projects -> Invoices \union {0}]
    BY <1>2, <1>3, <1>8 DEF IInv, TypeOK
  <2>2. last' \in Invoices \union {0}
    BY <1>2, <1>7 DEF IInv, TypeOK
  <2>3. mixed' \subseteq Invoices
    BY <1>2, <1>3 DEF IInv, TypeOK
  <2> QED BY <1>3, <1>3a, <1>5, <1>7, <2>1, <2>2, <2>3, Ends DEF IInv, TypeOK
<1>11. InvoicesApart'
  <2>1. \A j \in Invoices : number'[j] # 0 => j <= ids'
    BY <1>3, <1>6, <1>7 DEF IInv, InvoicesApart, Issued
  <2>2. last' <= ids'
    BY <1>3, <1>6, <1>7 DEF IInv, InvoicesApart, TypeOK, Invoices
  <2>3. ASSUME NEW v \in Windows, txn'[v].invoice # 0
        PROVE  /\ txn'[v].invoice <= ids'
               /\ number'[txn'[v].invoice] # 0 <=> txn'[v].number = 0
    <3>1. v # w /\ txn'[v].invoice = txn[v].invoice /\ txn'[v].number = txn[v].number
      BY <1>3, <1>3a, <2>3, Ends
    <3>2. txn[v].invoice \in Invoices
      BY <2>3, <3>1 DEF IInv, TypeOK, TxnRow
    <3>3. txn[v].invoice <= ids /\ (number[txn[v].invoice] # 0 <=> txn[v].number = 0)
      BY <2>3, <3>1 DEF IInv, InvoicesApart, Issued
    <3>4. CASE txn[v].invoice = i
      BY <1>3, <1>6, <1>7, <3>1, <3>3, <3>4 DEF Issued
    <3>5. CASE txn[v].invoice # i
      BY <1>3, <1>7, <3>1, <3>2, <3>3, <3>5
    <3> QED BY <3>4, <3>5
  <2>4. ASSUME NEW v \in Windows, txn'[v].number # 0
        PROVE  /\ txn'[v].invoice # 0
               /\ txn'[v].number = last' + 1 /\ last' < ids'
               /\ \A u \in Windows \ {v} :
                    txn'[u].number = 0 /\ txn'[u].invoice # txn'[v].invoice
    <3>1. v # w /\ txn'[v].invoice = txn[v].invoice /\ txn'[v].number = txn[v].number /\ n = 0
      BY <1>3, <1>3a, <1>6, <2>4, Ends
    <3>2. \A u \in Windows \ {v} : /\ txn'[u].number \in {0, txn[u].number}
                                  /\ txn'[u].invoice \in {0, txn[u].invoice}
      BY <1>3, <1>3a, Ends
    <3> QED BY <1>3, <1>7, <2>4, <3>1, <3>2 DEF IInv, InvoicesApart
  <2> QED BY <2>1, <2>2, <2>3, <2>4 DEF InvoicesApart, Issued
<1>12. MarksIssued'
  BY <1>4, <1>7 DEF IInv, MarksIssued, Issued, TypeOK
<1>13. BillsMatch'
  <2>1. /\ \A p \in S : billedOn'[p] = i
        /\ ~txn[w].overtaken => \A p \in Projects : billedOn'[p] = i => p \in S
    BY <1>1, <1>2, <1>4 DEF ReleasesAll, i, S
  <2>2. ASSUME NEW j \in Invoices, j # i, number'[j] # 0
        PROVE  /\ items'[j] \subseteq Marked(j)'
               /\ j \notin mixed' => items'[j] = Marked(j)'
    <3>1. \A p \in S : billedOn[p] # j
      BY <1>1, <2>2 DEF RowsHeld, i, S, Invoices
    <3>2. \A p \in txn[w].released : billedOn[p] # j
      BY <1>1, <2>2 DEF RowsHeld, i
    <3>3. \A p \in Projects : billedOn'[p] = j <=> billedOn[p] = j
      BY <1>4, <2>2, <3>1, <3>2 DEF Invoices
    <3>4. Marked(j)' = Marked(j)
      BY <3>3 DEF Marked
    <3>5. items[j] \subseteq Marked(j) /\ (j \notin mixed => items[j] = Marked(j))
      BY <1>7, <2>2 DEF IInv, BillsMatch, Issued
    <3>6. j \notin mixed' => j \notin mixed
      BY <1>3, <2>2
    <3> QED BY <1>5, <2>2, <3>4, <3>5, <3>6
  <2>3. items'[i] \subseteq {p \in Projects : billedOn'[p] = i}
    BY <1>2, <1>5, <2>1
  <2>4. i \notin mixed' => items'[i] = {p \in Projects : billedOn'[p] = i}
    <3>1. i \notin mixed' => ~txn[w].overtaken
      BY <1>3
    <3> QED BY <1>5, <2>1, <2>3, <3>1
  <2> QED BY <2>2, <2>3, <2>4 DEF BillsMatch, Issued, Marked
<1>14. NumbersRunOn'
  <2>1. CASE n = 0
    BY <1>7, <2>1 DEF IInv, NumbersRunOn, Issued
  <2>2. CASE n # 0
    <3>1. last \in Nat /\ n = last + 1 /\ number'[i] = last + 1 /\ last' = last + 1
      BY <1>6, <1>7, <2>2 DEF IInv, TypeOK, Invoices
    <3>2. \A j \in Invoices : number[j] \in Nat /\ (number[j] # 0 => number[j] \in 1..last)
      BY DEF IInv, TypeOK, NumbersRunOn, Invoices
    <3>3. number[i] = 0
      BY <1>2, <1>6, <2>2 DEF Issued
    <3>4. \A j, k \in Invoices : number'[j] # 0 /\ number'[j] = number'[k] => j = k
      BY <1>7, <3>1, <3>2 DEF IInv, NumbersRunOn, Issued
    <3>5. ASSUME NEW m \in 1..(last + 1)
          PROVE  \E j \in Invoices : number'[j] = m
      <4>1. CASE m = last + 1
        BY <1>2, <3>1, <4>1
      <4>2. CASE m # last + 1
        <5>1. m \in 1..last
          BY <3>1, <4>2
        <5>2. PICK j \in Invoices : number[j] = m /\ m # 0
          BY <5>1 DEF IInv, NumbersRunOn
        <5> QED BY <1>7, <3>3, <5>2
      <4> QED BY <4>1, <4>2
    <3>6. \A j \in Invoices : number'[j] # 0 => number'[j] \in 1..(last + 1)
      BY <1>7, <3>1, <3>2
    <3>7. {number'[j] : j \in Invoices} \ {0} = 1..last'
      BY <3>1, <3>5, <3>6
    <3> QED BY <3>4, <3>7 DEF NumbersRunOn, Issued
  <2> QED BY <2>1, <2>2
<1> QED BY <1>9, <1>10, <1>11, <1>12, <1>13, <1>14 DEF IInv, Local

-----------------------------------------------------------------------------
LEMMA Inductive == IInv /\ [Next]_vars => IInv'
<1> SUFFICES ASSUME IInv, [Next]_vars PROVE IInv'
  OBVIOUS
<1>1. ASSUME NEW w \in Windows, NEW S \in SUBSET Projects \ {{}},
             StartStore(w, S) \/ \E i \in Invoices : StartUpdate(w, i, S)
      PROVE  IInv'
  BY <1>1, StartsKeep
<1>2. ASSUME NEW w \in Windows,
             \/ Select(w) \/ StartRelease(w) \/ Released(w) \/ Claim(w) \/ WriteRow(w)
             \/ PutPdf(w) \/ \E p \in Projects : LockProject(w, p) \/ Release(w, p)
      PROVE  IInv'
  BY <1>2, StatementsKeep
<1>3. ASSUME NEW w \in Windows, Create(w) \/ Commit(w) \/ Rollback(w)
      PROVE  IInv'
  BY <1>3, CreateKeeps, CommitKeeps, RollbackKeeps
<1>4. CASE UNCHANGED vars
  BY <1>4 DEF vars, IInv, TypeOK, InvoicesApart, RowsHeld, ReleasesAll,
              MarksIssued, BillsMatch, Marked, NumbersRunOn, Issued
<1> QED BY <1>1, <1>2, <1>3, <1>4 DEF Next

\* The inductive invariant holds, for any number of projects, windows and invoices, however
\* corrections overlap and whatever fails.
THEOREM BillingInvariance == Spec => []IInv
<1>1. IInv /\ [Next]_vars => IInv'
  BY Inductive
<1> QED BY <1>1, Initially, PTL DEF Spec

\* The transactions keep their types (the row types of projects, invoices and counters).
THEOREM BillingTypeCorrect == Spec => []TypeOK
<1>1. IInv => TypeOK
  BY DEF IInv
<1> QED BY <1>1, BillingInvariance, PTL

\* What an invoice lists is marked as billed on it after every commit, and unless the last
\* correction was overtaken by another, nothing else is.
THEOREM MarksAgree == Spec => []BillsMatch
<1>1. IInv => BillsMatch
  BY DEF IInv
<1> QED BY <1>1, BillingInvariance, PTL

\* "Two windows cannot bill the same project at once": as the marks agree with the line
\* items, and a project has one mark.
THEOREM NoDoubleBilling == Spec => []BilledOnce
<1>1. IInv => BilledOnce
  BY DEF IInv, BillsMatch, Marked, BilledOnce
<1> QED BY <1>1, BillingInvariance, PTL

\* The numbers of the issued invoices are 1 to the counter's, each of them once.
THEOREM NoGaps == Spec => []NumbersRunOn
<1>1. IInv => NumbersRunOn
  BY DEF IInv
<1> QED BY <1>1, BillingInvariance, PTL

-----------------------------------------------------------------------------
(* The record forms.                                                       *)

Deletes == {"user", "template"}

Single(S) == \A r, s \in S : r = s

\* What desk d can have cached.
CacheSound(d) ==
  /\ DOMAIN cache[d] = Keys
  /\ cache[d]["own"].fetch # "answered" /\ ~cache[d]["own"].invalid
  /\ \A t \in cache[d]["own"].data : t \subseteq 1..edits
  /\ \A k \in Keys \ {"own"} :
       /\ k \notin Pages(family) => cache[d][k].fetch = "idle"
       /\ Single(cache[d][k].data) /\ Single(cache[d][k].reply)
       /\ cache[d][k].fetch = "answered" => cache[d][k].reply # {}
       /\ \A r \in cache[d][k].data \union cache[d][k].reply :
            r.text \subseteq 1..edits /\ (r.gone => family \in Deletes)

\* What it can have open.
FormSound(d) ==
  form[d] # NoForm =>
    /\ page[d] \in Pages(family)
    /\ form[d].text \subseteq 1..edits /\ form[d].typed \subseteq form[d].text
    /\ ~form[d].touched => form[d].typed = {}
    /\ form[d].chosen => Holds("switch")
    /\ form[d].file => family = "template"
    /\ Inline => cache[d]["list"].data # {}
    /\ Asks /\ cache[d]["own"].fetch = "idle" => cache[d]["own"].data # {}

\* What it can have sent.
CallSound(d) ==
  call[d] # NoCall =>
    /\ call[d].page \in Pages(family)
    /\ call[d].text \subseteq 1..edits /\ call[d].typed \subseteq 1..edits
    /\ call[d].row.text \subseteq 1..edits /\ (call[d].row.gone => family \in Deletes)
    /\ call[d].file => call[d].op = "form" /\ family = "template"
    /\ call[d].at = "stored" => Uploads(call[d]) \/ Unlinks(call[d])
    /\ call[d].at = "settling" => family = "day"
    /\ call[d].op = "delete" => ~call[d].row.used
    /\ call[d].op = "switch" => call[d].chosen
    /\ call[d].op # "form" => call[d].typed = {} /\ family \in Deletes
    /\ ~call[d].left => page[d] = call[d].page /\ (Inline => cache[d]["list"].data # {})

DeskSound(d) ==
  /\ page[d] \in Pages(family) \union {"away"}
  /\ CacheSound(d) /\ FormSound(d) /\ CallSound(d)

RecordSound == row.text \subseteq 1..edits /\ (row.gone => family \in Deletes)

\* A template's artwork: the one on record is on the disk unless a call has just taken it
\* off; the one such a call has stored is nobody else's.
Loads(c) == c.at \in {"loaded", "stored"}

Stores(c) == c.at = "stored" /\ c.op = "form"

ArtSound ==
  /\ row.art <= arts
  /\ row.gone \/ raced \/ row.art \in disk \/ \E d \in Desks : call[d].at = "stored"
  /\ \A d \in Desks : Loads(call[d]) => call[d].row.art <= arts
  /\ \A d \in Desks : Stores(call[d]) =>
       /\ call[d].art \in disk /\ call[d].art # row.art
       /\ \A e \in Desks : Loads(call[e]) => call[e].row.art # call[d].art
       /\ \A e \in Desks \ {d} : Stores(call[e]) => call[e].art # call[d].art

\* A copy of the record says what desk d was told to have saved, and stopped.
KeepsOwn(d, r) ==
  /\ r.gone \/ saved[d] \subseteq r.text
  /\ stopper = d => ~r.on

\* An unflagged copy, and an answer on its way, unless a save did not renew them.
CopiesKeepOwn(d) ==
  \A k \in Shown(family) \ {"own"} :
    /\ page[d] = k /\ cache[d][k].fetch = "idle" => ~cache[d][k].invalid
    /\ k \notin unseen[d] =>
         /\ cache[d][k].fetch = "answered" => \A r \in cache[d][k].reply : KeepsOwn(d, r)
         /\ cache[d][k].fetch = "idle" /\ ~cache[d][k].invalid =>
              \A r \in cache[d][k].data : KeepsOwn(d, r)

PairsKeepOwn(d) ==
  Asks /\ "own" \notin unseen[d] /\ cache[d]["own"].fetch = "idle" =>
    \A t \in cache[d]["own"].data : saved[d] \subseteq t

\* What a form holds, or a call sends, that was taken from a copy not known to be behind.
ContentKeepsOwn(d, f) ==
  ~f.behind =>
    /\ family # "preferences" => saved[d] \subseteq f.text
    /\ Holds("switch") /\ ~f.chosen /\ stopper = d => ~f.on

\* What desk d was told to have saved is on record, and nothing it has at hand undoes it.
KeepsSaved(d) ==
  /\ saved[d] \subseteq row.text
  /\ family # "preferences" => CopiesKeepOwn(d) /\ PairsKeepOwn(d)
  /\ form[d] # NoForm /\ (Asks => form[d].touched) => ContentKeepsOwn(d, form[d])
  /\ call[d].op = "form" /\ Loads(call[d]) => ContentKeepsOwn(d, call[d])
  /\ call[d] # NoCall /\ form[d] # NoForm /\ (call[d].op # "form" \/ call[d].left) =>
       form[d].behind

\* Days: an edit that is typed and not saved yet is in no other hands.
Carried(d, x) ==
  \/ form[d] # NoForm /\ x \in form[d].text
  \/ call[d] # NoCall /\ (x \in call[d].text \/ x \in call[d].typed)

Copied(d, x) == \E r \in cache[d]["list"].data \union cache[d]["list"].reply : x \in r.text

Fresh(d, x) ==
  /\ x \notin row.text
  /\ \A e \in Desks : ~Copied(e, x)
  /\ \A e \in Desks \ {d} : ~Carried(e, x)

\* Either the saved form or more than its desk knows of.
News(d, t) == t = form[d].text \/ t \ Known(d) # {}

Typed(d) == IF form[d] = NoForm THEN {} ELSE form[d].typed

\* The save under way is that of the form that is open.
Pending(d) ==
  /\ ~call[d].left /\ call[d].op = "form"
  /\ call[d].typed = form[d].typed
  /\ call[d].at = "loaded" => call[d].text = form[d].text
  /\ call[d].at \in {"done", "settling"} => News(d, row.text)
  /\ call[d].at = "settling" /\ cache[d]["list"].fetch = "answered" =>
       \A r \in cache[d]["list"].reply : News(d, r.text)

DaySound(d) ==
  family = "day" =>
    /\ call[d] = NoCall => \A x \in Typed(d) : Fresh(d, x)
    /\ call[d].at = "loaded" =>
         /\ call[d].typed # {} /\ call[d].typed \subseteq call[d].text
         /\ \A x \in call[d].typed : Fresh(d, x) /\ x \notin call[d].row.text
    /\ call[d] # NoCall /\ Typed(d) # {} => Pending(d)
    /\ form[d] # NoForm /\ ~form[d].behind =>
         /\ call[d].at # "settling" => cache[d]["list"].fetch = "idle"
         /\ call[d] # NoCall => call[d].typed \subseteq form[d].text

FormsInv ==
  /\ FormsTypeOK
  /\ DOMAIN cache = Desks
  /\ RecordSound
  /\ ArtSound
  /\ stopper # Nobody => ~row.on
  /\ \A d \in Desks : DeskSound(d) /\ KeepsSaved(d) /\ DaySound(d)

-----------------------------------------------------------------------------
(* Forms and pages.                                                        *)

\* What the seven forms are like.
LEMMA LayoutIs ==
  ASSUME family \in Families
  PROVE  /\ family \in {"user", "pairs", "client", "template", "invoice", "day", "preferences"}
         /\ Inline <=> family \in {"day", "preferences"}
         /\ Asks <=> family = "pairs"
         /\ Holds("switch") <=> family \in {"client", "template"}
         /\ Holds("file") <=> family = "template"
<1>1. family \in {"user", "pairs", "client", "template", "invoice", "day", "preferences"}
  BY FormsBounds
<1>2. Layout(family).inline <=> family \in {"day", "preferences"}
  BY <1>1 DEF Layout, UserForm, PairsDialog, ClientForm, TemplateForm, InvoiceDialog, DayEditor, PreferencesCard
<1>3. Layout(family).asks <=> family = "pairs"
  BY <1>1 DEF Layout, UserForm, PairsDialog, ClientForm, TemplateForm, InvoiceDialog, DayEditor, PreferencesCard
<1>4. /\ "switch" \in Layout(family).holds <=> family \in {"client", "template"}
      /\ "file" \in Layout(family).holds <=> family = "template"
  BY <1>1 DEF Layout, UserForm, PairsDialog, ClientForm, TemplateForm, InvoiceDialog, DayEditor, PreferencesCard
<1>5. QED
  BY <1>1, <1>2, <1>3, <1>4 DEF Inline, Asks, Holds

\* What their pages are like.
LEMMA PagesAre ==
  ASSUME family \in Families, NEW p
  PROVE  /\ Pages(family) \subseteq {"list", "file"} /\ "list" \in Pages(family)
         /\ family # "client" => Pages(family) = {"list"}
         /\ Shown(family) = IF family = "pairs" THEN {"own"} ELSE Pages(family)
         /\ p \in Pages(family) => Renews(p) \subseteq Pages(family)
         /\ Renews(p) \subseteq {"list", "file"}
         /\ family = "pairs" => Renews(p) = {}
         /\ family = "day" => Renews(p) = {"list"}
         /\ "delete" \in PageOf(family, p).offers => family \in Deletes
         /\ "switch" \in PageOf(family, p).offers => family \in Deletes
<1>1. family \in {"user", "pairs", "client", "template", "invoice", "day", "preferences"}
  BY LayoutIs
<1>2. Pages(family) = IF family = "client" THEN {"list", "file"} ELSE {"list"}
  BY DEF Pages
<1>3. Shown(family) = IF family = "pairs" THEN {"own"} ELSE Pages(family)
  BY DEF Shown
<1>4. PageOf(family, p) \in {UsersPage, PairsMenu, ClientFile, ClientsPage, LetterheadsPage,
                             InvoicesPage, DailyWordsPage, SettingsPage}
  BY <1>1 DEF PageOf
<1>5. /\ family = "pairs" => PageOf(family, p) = PairsMenu
      /\ family = "day" => PageOf(family, p) = DailyWordsPage
  BY <1>1 DEF PageOf
<1>5a. family # "client" => PageOf(family, p) \in {UsersPage, PairsMenu, LetterheadsPage,
                             InvoicesPage, DailyWordsPage, SettingsPage}
  BY <1>1 DEF PageOf
<1>6. /\ PageOf(family, p).renews \subseteq {"list", "file"}
      /\ family # "client" => PageOf(family, p).renews \subseteq {"list"}
  BY <1>4, <1>5a DEF UsersPage, PairsMenu, ClientFile, ClientsPage, LetterheadsPage, InvoicesPage,
              DailyWordsPage, SettingsPage
<1>7. /\ family = "pairs" => PageOf(family, p).renews = {}
      /\ family = "day" => PageOf(family, p).renews = {"list"}
  BY <1>5 DEF PairsMenu, DailyWordsPage
<1>8. family \notin Deletes => PageOf(family, p).offers = {}
  BY <1>1 DEF PageOf, Deletes, PairsMenu, ClientFile, ClientsPage, InvoicesPage, DailyWordsPage, SettingsPage
<1>9. QED
  BY <1>1, <1>2, <1>3, <1>6, <1>7, <1>8 DEF Renews

LEMMA FormIsForm ==
  ASSUME NEW f \in Forms
  PROVE  f # NoForm
BY DEF Forms, NoForm

LEMMA CallIsCall ==
  ASSUME NEW c \in Calls
  PROVE  c # NoCall /\ c.at # "none" /\ NoCall.at = "none" /\ NoCall.op = "none"
BY DEF Calls, NoCall

-----------------------------------------------------------------------------
(* What a desk's step does not touch.                                      *)

\* A step of desk d leaves the others what they have.
StaysPut(d) ==
  /\ family' = family
  /\ edits' \in Nat /\ edits <= edits'
  /\ \A e \in Desks \ {d} :
       /\ page'[e] = page[e] /\ cache'[e] = cache[e]
       /\ form'[e] = form[e] /\ call'[e] = call[e] /\ unseen'[e] = unseen[e]
       /\ saved'[e] \subseteq saved[e] /\ saved'[e] \subseteq row'.text
       /\ stopper' = e => stopper = e

LEMMA SameForms ==
  ASSUME family' = family
  PROVE  /\ Inline' = Inline /\ Asks' = Asks
         /\ Holds("switch")' = Holds("switch")
         /\ \A c : Unlinks(c)' = Unlinks(c)
BY DEF Inline, Asks, Holds, Unlinks

LEMMA SoundGoesOn ==
  ASSUME NEW e \in Desks, DeskSound(e), FormsTypeOK, family' = family, edits' \in Nat, edits <= edits',
         page'[e] = page[e], cache'[e] = cache[e], form'[e] = form[e], call'[e] = call[e]
  PROVE  DeskSound(e)'
<1>1. 1..edits \subseteq 1..edits'
  BY DEF FormsTypeOK
<1>2. CacheSound(e)'
  BY <1>1 DEF DeskSound, CacheSound
<1>3. FormSound(e)'
  BY <1>1, SameForms DEF DeskSound, FormSound
<1>4. CallSound(e)'
  BY <1>1, SameForms DEF DeskSound, CallSound
<1>5. QED
  BY <1>2, <1>3, <1>4 DEF DeskSound

LEMMA SavedGoesOn ==
  ASSUME NEW e \in Desks, KeepsSaved(e), family' = family,
         page'[e] = page[e], cache'[e] = cache[e], form'[e] = form[e], call'[e] = call[e],
         unseen'[e] = unseen[e], saved'[e] \subseteq saved[e], saved'[e] \subseteq row'.text,
         stopper' = e => stopper = e
  PROVE  KeepsSaved(e)'
<1>1. \A r : KeepsOwn(e, r) => KeepsOwn(e, r)'
  BY DEF KeepsOwn
<1>2. CopiesKeepOwn(e) => CopiesKeepOwn(e)'
  BY <1>1 DEF CopiesKeepOwn
<1>3. PairsKeepOwn(e) => PairsKeepOwn(e)'
  BY SameForms DEF PairsKeepOwn
<1>4. \A f : ContentKeepsOwn(e, f) => ContentKeepsOwn(e, f)'
  BY SameForms DEF ContentKeepsOwn
<1>5. QED
  BY <1>2, <1>3, <1>4, SameForms DEF KeepsSaved

LEMMA OthersGoOn ==
  ASSUME FormsInv, NEW d, StaysPut(d), NEW e \in Desks \ {d}
  PROVE  DeskSound(e)' /\ KeepsSaved(e)'
BY SoundGoesOn, SavedGoesOn DEF FormsInv, StaysPut

\* Nor does it put into the record, or in front of others, an edit that d does not hold.
Brings(d) ==
  \A x \in 1..edits :
    /\ x \in row'.text => x \in row.text \/ Carried(d, x)
    /\ Copied(d, x)' => Copied(d, x) \/ x \in row.text
    /\ Carried(d, x)' => Carried(d, x) \/ Copied(d, x)

LEMMA FreshGoesOn ==
  ASSUME FormsInv, NEW d \in Desks, StaysPut(d), Brings(d), NEW e \in Desks \ {d}, NEW x \in 1..edits, Fresh(e, x)
  PROVE  Fresh(e, x)'
<1>1. x \notin row'.text /\ ~Copied(d, x)' /\ ~Carried(d, x)'
  BY DEF Brings, Fresh
<1>2. ASSUME NEW f \in Desks \ {d}
      PROVE  /\ Copied(f, x)' => Copied(f, x)
             /\ Carried(f, x)' => Carried(f, x)
  BY <1>2 DEF StaysPut, Copied, Carried
<1>3. QED
  BY <1>1, <1>2 DEF Fresh

LEMMA OthersDays ==
  ASSUME FormsInv, NEW d \in Desks, StaysPut(d), Brings(d), NEW e \in Desks \ {d},
         row'.text = row.text \/ row'.text \ Known(e) # {}
  PROVE  DaySound(e)'
<1> SUFFICES ASSUME family = "day"
             PROVE  DaySound(e)'
  BY DEF StaysPut, DaySound
<1>1. /\ cache'[e] = cache[e] /\ form'[e] = form[e] /\ call'[e] = call[e] /\ saved'[e] \subseteq saved[e]
  BY DEF StaysPut
<1>2. DaySound(e) /\ FormSound(e) /\ CallSound(e) /\ NoCall.at = "none"
  BY CallIsCall DEF FormsInv, DeskSound, NoCall
<1>3. Known(e)' \subseteq Known(e)
  BY <1>1 DEF Known
<1>4. \A x \in 1..edits : Fresh(e, x) => Fresh(e, x)'
  BY FreshGoesOn
<1>5. Typed(e)' = Typed(e) /\ Typed(e) \subseteq 1..edits
  BY <1>1, <1>2 DEF Typed, FormSound
<1>6. \A t : News(e, t) => News(e, t)'
  BY <1>1, <1>3 DEF News
<1>7. Pending(e) => Pending(e)'
  <2>1. News(e, row.text) => News(e, row.text)'
    BY <1>1, <1>3 DEF News
  <2>2. QED
    BY <1>1, <1>6, <2>1 DEF Pending
<1>8. call[e] # NoCall => call[e].typed \subseteq 1..edits
  BY <1>2 DEF CallSound
<1>9. QED
  BY <1>1, <1>2, <1>4, <1>5, <1>7, <1>8 DEF DaySound

\* What is asked of each step, by parts.
LEMMA Composed ==
  ASSUME FormsInv, NEW d \in Desks, StaysPut(d),
         family = "day" => /\ Brings(d) /\ DaySound(d)'
                           /\ \A e \in Desks \ {d} : row'.text = row.text \/ row'.text \ Known(e) # {},
         FormsTypeOK', DOMAIN cache' = Desks, RecordSound', ArtSound',
         (stopper # Nobody => ~row.on)', DeskSound(d)', KeepsSaved(d)'
  PROVE  FormsInv'
<1>1. \A e \in Desks : DeskSound(e)' /\ KeepsSaved(e)'
  BY OthersGoOn
<1>2. ASSUME NEW e \in Desks
      PROVE  DaySound(e)'
  <2>1. CASE family # "day"
    BY <2>1 DEF DaySound, StaysPut
  <2>2. CASE family = "day" /\ e = d
    BY <2>2
  <2>3. CASE family = "day" /\ e # d
    <3>1. row'.text = row.text \/ row'.text \ Known(e) # {}
      BY <2>3
    <3>2. QED
      BY <2>3, <3>1, OthersDays
  <2>4. QED
    BY <2>1, <2>2, <2>3
<1>3. QED
  BY <1>1, <1>2 DEF FormsInv

\* A number nobody has used is nowhere.
LEMMA NothingBeyond ==
  ASSUME FormsInv, NEW d \in Desks, NEW x, x \notin 1..edits
  PROVE  Fresh(d, x)
<1>1. x \notin row.text
  BY DEF FormsInv, RecordSound
<1>2. ASSUME NEW e \in Desks
      PROVE  ~Copied(e, x) /\ ~Carried(e, x)
  <2>1. DeskSound(e)
    BY DEF FormsInv
  <2>2. ~Copied(e, x)
    BY <2>1 DEF DeskSound, CacheSound, Copied, Keys
  <2>3. ~Carried(e, x)
    BY <2>1 DEF DeskSound, FormSound, CallSound, Carried
  <2>4. QED
    BY <2>2, <2>3
<1>3. QED
  BY <1>1, <1>2 DEF Fresh

\* Artworks, when the record and the disk stay as they are.
LEMMA ArtGoesOn ==
  ASSUME ArtSound, row'.art = row.art, row.gone => row'.gone, disk' = disk, arts' = arts, raced' = raced,
         \A d \in Desks :
           /\ call'[d].at = "stored" <=> call[d].at = "stored"
           /\ Stores(call'[d]) => Stores(call[d]) /\ call'[d].art = call[d].art
           /\ Loads(call'[d]) =>
                \/ call'[d].row.art = row.art
                \/ Loads(call[d]) /\ call'[d].row.art = call[d].row.art
  PROVE  ArtSound'
<1>1. (row.art <= arts)'
  BY DEF ArtSound
<1>2. (row.gone \/ raced \/ row.art \in disk \/ \E d \in Desks : call[d].at = "stored")'
  BY DEF ArtSound
<1>3. (\A d \in Desks : Loads(call[d]) => call[d].row.art <= arts)'
  BY DEF ArtSound
<1>4. ASSUME NEW d \in Desks, Stores(call'[d])
      PROVE  /\ call'[d].art \in disk' /\ call'[d].art # row'.art
             /\ \A e \in Desks : Loads(call'[e]) => call'[e].row.art # call'[d].art
             /\ \A e \in Desks \ {d} : Stores(call'[e]) => call'[e].art # call'[d].art
  <2>1. Stores(call[d]) /\ call'[d].art = call[d].art
    BY <1>4
  <2>2. /\ call[d].art \in disk /\ call[d].art # row.art
        /\ \A e \in Desks : Loads(call[e]) => call[e].row.art # call[d].art
        /\ \A e \in Desks \ {d} : Stores(call[e]) => call[e].art # call[d].art
    BY <2>1 DEF ArtSound
  <2>3. QED
    BY <2>1, <2>2
<1>5. QED
  BY <1>1, <1>2, <1>3, <1>4 DEF ArtSound

LEMMA EntryIs ==
  ASSUME NEW A, NEW e \in Entry(A)
  PROVE  /\ e.data \subseteq A /\ e.reply \subseteq A /\ e.invalid \in BOOLEAN
         /\ e.fetch \in {"idle", "asked", "answered"}
         /\ e = [data |-> e.data, invalid |-> e.invalid, fetch |-> e.fetch, reply |-> e.reply]
BY DEF Entry, Fetches

\* A component that appears asks for what it does not have, and shows what it has.
LEMMA MountedIs ==
  ASSUME NEW A, NEW e \in Entry(A), NEW young \in BOOLEAN
  PROVE  /\ Mounted(e, young) \in Entry(A)
         /\ Mounted(e, young).data = e.data /\ Mounted(e, young).invalid = e.invalid
         /\ Mounted(e, young) = e \/ (Mounted(e, young).fetch = "asked" /\ Mounted(e, young).reply = {})
         /\ Mounted(e, young).fetch = "idle" => e.data # {} /\ ~e.invalid
BY DEF Mounted, Asked, Entry, Fetches

LEMMA AnsweredIs ==
  ASSUME NEW A, NEW e \in Entry(A), NEW v \in A
  PROVE  /\ Answered(e, v) \in Entry(A)
         /\ Answered(e, v).data = e.data /\ Answered(e, v).invalid = e.invalid
         /\ Answered(e, v).reply = {v} /\ Answered(e, v).fetch = "answered"
BY DEF Answered, Entry, Fetches

LEMMA LandedIs ==
  ASSUME NEW A, NEW e \in Entry(A)
  PROVE  /\ Landed(e) \in Entry(A)
         /\ Landed(e).data = e.reply /\ ~Landed(e).invalid
         /\ Landed(e).reply = {} /\ Landed(e).fetch = "idle"
BY DEF Landed, Entry, Fetches

\* A save's invalidation asks again while the query is used and has been answered before.
LEMMA InvalidatedIs ==
  ASSUME NEW A, NEW e \in Entry(A), NEW active \in BOOLEAN
  PROVE  /\ Invalidated(e, active) \in Entry(A)
         /\ Invalidated(e, active).data = e.data /\ Invalidated(e, active).invalid
         /\ \/ Invalidated(e, active).fetch = e.fetch /\ Invalidated(e, active).reply = e.reply
            \/ Invalidated(e, active).fetch = "asked" /\ Invalidated(e, active).reply = {}
         /\ active => Invalidated(e, active).fetch # "idle"
         /\ active /\ e.data # {} => Invalidated(e, active).fetch = "asked"
         /\ ~active => Invalidated(e, active).fetch = e.fetch
<1>1. PICK m : m = [e EXCEPT !.invalid = TRUE]
  OBVIOUS
<1>2. m \in Entry(A) /\ m.data = e.data /\ m.invalid = TRUE /\ m.fetch = e.fetch /\ m.reply = e.reply
  BY <1>1 DEF Entry
<1>4. Asked(m) \in Entry(A) /\ Asked(m).data = e.data /\ Asked(m).invalid /\ Asked(m).fetch = "asked" /\ Asked(m).reply = {}
  BY <1>2 DEF Asked, Entry, Fetches
<1>5. Invalidated(e, active) = IF active /\ (e.data # {} \/ e.fetch = "idle") THEN Asked(m) ELSE m
  BY <1>1 DEF Invalidated
<1>6. QED
  BY <1>2, <1>4, <1>5

-----------------------------------------------------------------------------
(* Typing.                                                                 *)

\* Only the form of desk d changes.
LEMMA FormChanges ==
  ASSUME FormsInv, NEW d \in Desks, NEW f \in Forms \union {NoForm}, form' = [form EXCEPT ![d] = f],
         UNCHANGED <<family, row, disk, page, cache, call, arts, calls, visits, history>>,
         edits' \in 0..MaxEdits, edits <= edits',
         FormSound(d)',
         f # NoForm /\ (Asks => f.touched) => ContentKeepsOwn(d, f),
         f # NoForm /\ call[d] # NoCall /\ (call[d].op # "form" \/ call[d].left) => f.behind,
         family = "day" => /\ \A x \in 1..edits : Carried(d, x)' => Carried(d, x) \/ Copied(d, x)
                           /\ DaySound(d)'
  PROVE  FormsInv'
<1>1. FormsTypeOK /\ DOMAIN cache = Desks /\ DeskSound(d) /\ KeepsSaved(d) /\ RecordSound /\ ArtSound
  BY DEF FormsInv
<1>2. 1..edits \subseteq 1..edits' /\ edits' \in Nat /\ edits \in Nat
  BY <1>1, FormsBounds DEF FormsTypeOK
<1>3. form \in [Desks -> Forms \union {NoForm}] /\ saved \in [Desks -> SUBSET (1..edits)]
  BY <1>1 DEF FormsTypeOK
<1>4. form' \in [Desks -> Forms \union {NoForm}] /\ saved' \in [Desks -> SUBSET (1..edits')]
  BY <1>2, <1>3 DEF history
<1>5. FormsTypeOK'
  BY <1>1, <1>2, <1>4 DEF FormsTypeOK, history
<1>6. \A e \in Desks : saved[e] \subseteq row.text
  BY DEF FormsInv, KeepsSaved
<1>7. StaysPut(d)
  BY <1>2, <1>3, <1>6 DEF StaysPut, history
<1>8. RecordSound' /\ ArtSound' /\ DOMAIN cache' = Desks /\ (stopper # Nobody => ~row.on)'
  <2>1. RecordSound'
    BY <1>1, <1>2 DEF RecordSound
  <2>2. ArtSound'
    BY <1>1 DEF ArtSound, history
  <2>3. QED
    BY <1>1, <2>1, <2>2 DEF FormsInv, history
<1>9. DeskSound(d)'
  <2>1. CacheSound(d)'
    BY <1>1, <1>2 DEF DeskSound, CacheSound
  <2>2. CallSound(d)'
    BY <1>1, <1>2, SameForms DEF DeskSound, CallSound
  <2>3. QED
    BY <1>1, <2>1, <2>2 DEF DeskSound
<1>10. KeepsSaved(d)'
  <2>1. form'[d] = f
    BY <1>3
  <2>2. \A r : KeepsOwn(d, r)' <=> KeepsOwn(d, r)
    BY DEF KeepsOwn, history
  <2>3. CopiesKeepOwn(d) => CopiesKeepOwn(d)'
    BY <2>2 DEF CopiesKeepOwn, history
  <2>4. PairsKeepOwn(d) => PairsKeepOwn(d)'
    BY SameForms DEF PairsKeepOwn, history
  <2>5. \A g : ContentKeepsOwn(d, g)' <=> ContentKeepsOwn(d, g)
    BY SameForms DEF ContentKeepsOwn, history
  <2>6. QED
    BY <1>1, <2>1, <2>3, <2>4, <2>5, SameForms DEF KeepsSaved, history
<1>11. family = "day" => Brings(d)
  BY DEF Brings, Copied
<1>12. QED
  BY <1>5, <1>7, <1>8, <1>9, <1>10, <1>11, Composed

LEMMA CloseFormKeeps ==
  ASSUME FormsInv, NEW d \in Desks, CloseForm(d)
  PROVE  FormsInv'
<1>1. /\ form' = [form EXCEPT ![d] = NoForm] /\ form \in [Desks -> Forms \union {NoForm}] /\ ~Inline
      /\ UNCHANGED <<family, row, disk, page, cache, call, edits, arts, calls, visits, history>>
  BY DEF CloseForm, FormsInv, FormsTypeOK
<1>2. form'[d] = NoForm /\ edits \in 0..MaxEdits
  BY <1>1 DEF FormsInv, FormsTypeOK
<1>3. family # "day"
  BY <1>1, LayoutIs DEF FormsInv, FormsTypeOK
<1>4. FormSound(d)'
  BY <1>2 DEF FormSound
<1>5. edits' \in 0..MaxEdits /\ edits <= edits'
  BY <1>1, <1>2
<1>6. QED
  BY <1>1, <1>3, <1>4, <1>5, FormChanges

\* The switch in a form, and its file: neither is in the form of a day.
LEMMA ChoiceKeeps ==
  ASSUME FormsInv, NEW d \in Desks, SetOn(d) \/ Attach(d)
  PROVE  FormsInv'
<1>1. /\ form \in [Desks -> Forms \union {NoForm}] /\ family \in Families /\ edits \in Nat
      /\ FormSound(d) /\ KeepsSaved(d) /\ form[d] # NoForm /\ edits < MaxEdits /\ edits' = edits + 1
      /\ UNCHANGED <<family, row, disk, page, cache, call, arts, calls, visits, history>>
  BY DEF SetOn, Attach, Fillable, FormsInv, FormsTypeOK, DeskSound
<1>2. form[d] \in Forms
  BY <1>1
<1>3. PICK f : /\ f = [form[d] EXCEPT !.on = f.on, !.chosen = f.chosen, !.file = f.file]
               /\ f \in Forms /\ form' = [form EXCEPT ![d] = f]
               /\ f.text = form[d].text /\ f.typed = form[d].typed /\ f.behind = form[d].behind
               /\ f.touched = form[d].touched
               /\ f.chosen => form[d].chosen \/ Holds("switch")
               /\ f.file => form[d].file \/ Holds("file")
               /\ ~f.chosen => f.on = form[d].on /\ ~form[d].chosen
  <2>1. CASE SetOn(d)
    <3>1. PICK f : f = [form[d] EXCEPT !.on = ~@, !.chosen = TRUE]
      OBVIOUS
    <3>2. /\ f \in Forms /\ f.text = form[d].text /\ f.typed = form[d].typed /\ f.behind = form[d].behind
          /\ f.touched = form[d].touched /\ f.file = form[d].file /\ f.chosen = TRUE
      BY <1>2, <3>1 DEF Forms
    <3>3. form' = [form EXCEPT ![d] = f] /\ Holds("switch")
      BY <1>1, <2>1, <3>1 DEF SetOn
    <3>4. f = [form[d] EXCEPT !.on = f.on, !.chosen = f.chosen, !.file = f.file]
      BY <1>2, <3>1, <3>2 DEF Forms
    <3>5. QED
      BY <3>2, <3>3, <3>4
  <2>2. CASE Attach(d)
    <3>1. PICK f : f = [form[d] EXCEPT !.file = TRUE]
      OBVIOUS
    <3>2. /\ f \in Forms /\ f.text = form[d].text /\ f.typed = form[d].typed /\ f.behind = form[d].behind
          /\ f.touched = form[d].touched /\ f.chosen = form[d].chosen /\ f.on = form[d].on
      BY <1>2, <3>1 DEF Forms
    <3>3. form' = [form EXCEPT ![d] = f] /\ Holds("file")
      BY <1>1, <2>2, <3>1 DEF Attach
    <3>4. f = [form[d] EXCEPT !.on = f.on, !.chosen = f.chosen, !.file = f.file]
      BY <1>2, <3>1, <3>2 DEF Forms
    <3>5. QED
      BY <3>2, <3>3, <3>4
  <2>3. QED
    BY <2>1, <2>2
<1>4. family # "day" /\ (f.file => family = "template") /\ (f.chosen => Holds("switch"))
  <2>1. Holds("switch") \/ Holds("file")
    BY DEF SetOn, Attach
  <2>2. family # "day"
    BY <1>1, <2>1, LayoutIs
  <2>3. Holds("file") <=> family = "template"
    BY <1>1, LayoutIs
  <2>4. QED
    BY <1>1, <1>3, <2>2, <2>3 DEF FormSound
<1>5. form'[d] = f
  BY <1>1, <1>3
<1>6. FormSound(d)'
  BY <1>1, <1>3, <1>4, <1>5, SameForms DEF FormSound
<1>7. f # NoForm /\ (Asks => f.touched) => ContentKeepsOwn(d, f)
  BY <1>1, <1>3 DEF KeepsSaved, ContentKeepsOwn
<1>8. f # NoForm /\ call[d] # NoCall /\ (call[d].op # "form" \/ call[d].left) => f.behind
  BY <1>1, <1>3 DEF KeepsSaved
<1>9. edits' \in 0..MaxEdits /\ edits <= edits'
  BY <1>1, FormsBounds
<1>10. QED
  BY <1>1, <1>3, <1>4, <1>6, <1>7, <1>8, <1>9, FormChanges

\* What a form is about to send, taken from a copy that is not known to be behind, has what
\* its desk was told to have saved.
LEMMA BeforeIs ==
  ASSUME FormsInv, NEW d \in Desks, form[d] # NoForm
  PROVE  /\ Before(d) \subseteq 1..edits /\ form[d].typed \subseteq Before(d)
         /\ ~Asks => Before(d) = form[d].text
         /\ ~form[d].behind /\ ~(Asks /\ ~form[d].touched /\ Behind(d, "own")) =>
              /\ family # "preferences" => saved[d] \subseteq Before(d)
              /\ Holds("switch") /\ ~form[d].chosen /\ stopper = d => ~form[d].on
<1>1. FormSound(d) /\ CacheSound(d) /\ KeepsSaved(d)
  BY DEF FormsInv, DeskSound
<1>2. family \in Families
  BY DEF FormsInv, FormsTypeOK
<1>3. CASE Asks /\ ~form[d].touched
  <2>1. Before(d) = UNION cache[d]["own"].data /\ form[d].typed = {}
    BY <1>1, <1>3 DEF Before, Own, Data, FormSound
  <2>2. Before(d) \subseteq 1..edits
    BY <1>1, <2>1 DEF CacheSound
  <2>3. ~Holds("switch")
    BY <1>2, <1>3, LayoutIs
  <2>4. ASSUME family # "preferences", ~Behind(d, "own")
        PROVE  saved[d] \subseteq Before(d)
    <3>1. cache[d]["own"].fetch = "idle" /\ "own" \notin unseen[d]
      BY <2>4 DEF Behind
    <3>2. PICK t \in cache[d]["own"].data : TRUE
      BY <1>1, <1>3, <3>1 DEF FormSound
    <3>3. saved[d] \subseteq t
      BY <1>1, <1>3, <2>4, <3>1, <3>2 DEF KeepsSaved, PairsKeepOwn
    <3>4. QED
      BY <2>1, <3>2, <3>3
  <2>5. QED
    BY <1>3, <2>1, <2>2, <2>3, <2>4
<1>4. CASE ~(Asks /\ ~form[d].touched)
  <2>1. Before(d) = form[d].text
    BY <1>4 DEF Before
  <2>2. QED
    BY <1>1, <1>4, <2>1 DEF FormSound, KeepsSaved, ContentKeepsOwn
<1>5. QED
  BY <1>3, <1>4

\* Whatever is typed is typed into an open form, and into a day only while none is saved.
LEMMA TypedInto ==
  ASSUME NEW d, NEW e, TypeIn(d, e)
  PROVE  /\ form[d] # NoForm
         /\ family = "day" => call[d] = NoCall /\ e = edits + 1
<1>1. CASE Fields(d, e)
  BY <1>1 DEF Fields, Fillable
<1>2. CASE BilledProjects(d, e)
  BY <1>2 DEF BilledProjects, Fillable
<1>3. CASE DayInputs(d, e)
  BY <1>3 DEF DayInputs
<1>4. CASE MailSwitches(d, e)
  BY <1>4 DEF MailSwitches
<1>5. QED
  BY <1>1, <1>2, <1>3, <1>4 DEF TypeIn

LEMMA TypeInKeeps ==
  ASSUME FormsInv, NEW d \in Desks, NEW e \in Edits, TypeIn(d, e)
  PROVE  FormsInv'
<1>1. /\ form \in [Desks -> Forms \union {NoForm}] /\ family \in Families /\ edits \in 0..MaxEdits
      /\ FormSound(d) /\ KeepsSaved(d) /\ form[d] # NoForm
      /\ edits' = IF e > edits THEN e ELSE edits
      /\ UNCHANGED <<family, row, disk, page, cache, call, arts, calls, visits, history>>
  BY TypedInto DEF TypeIn, FormsInv, FormsTypeOK, DeskSound
<1>2. form[d] \in Forms /\ e \in 1..MaxEdits /\ MaxEdits \in Nat
  BY <1>1, FormsBounds DEF Edits
<1>3. edits' \in 0..MaxEdits /\ edits <= edits' /\ e \in 1..edits' /\ 1..edits \subseteq 1..edits'
  BY <1>1, <1>2
<1>4. PICK b \in BOOLEAN : b <=> form[d].behind \/ (Asks /\ ~form[d].touched /\ Behind(d, "own"))
  OBVIOUS
<1>5. PICK f : f = WithEdit(d, e)
  OBVIOUS
<1>6. Before(d) \subseteq 1..edits /\ form[d].typed \subseteq Before(d) /\ (~Asks => Before(d) = form[d].text)
  BY <1>1, BeforeIs
<1>7. Before(d) \union {e} \subseteq Edits /\ form[d].typed \union {e} \subseteq Edits
  BY <1>1, <1>2, <1>6 DEF Edits
<1>8. /\ f \in Forms /\ f.text = Before(d) \union {e} /\ f.typed = form[d].typed \union {e} /\ f.touched = TRUE
      /\ f.behind = b /\ f.on = form[d].on /\ f.chosen = form[d].chosen /\ f.file = form[d].file
  BY <1>2, <1>4, <1>5, <1>7 DEF Forms, WithEdit
<1>9. form' = [form EXCEPT ![d] = f]
  BY <1>5 DEF TypeIn
<1>10. form'[d] = f
  BY <1>1, <1>9
<1>11. FormSound(d)'
  BY <1>1, <1>3, <1>6, <1>8, <1>10, SameForms DEF FormSound
<1>12. f # NoForm /\ (Asks => f.touched) => ContentKeepsOwn(d, f)
  BY <1>1, <1>4, <1>8, BeforeIs DEF ContentKeepsOwn
<1>13. f # NoForm /\ call[d] # NoCall /\ (call[d].op # "form" \/ call[d].left) => f.behind
  BY <1>1, <1>4, <1>8 DEF KeepsSaved
<1>14. ASSUME family = "day"
       PROVE  /\ \A x \in 1..edits : Carried(d, x)' => Carried(d, x) \/ Copied(d, x)
              /\ DaySound(d)'
  <2>1. call[d] = NoCall /\ e = edits + 1 /\ ~Asks
    BY <1>1, <1>14, LayoutIs, TypedInto
  <2>2. f.text = form[d].text \union {e} /\ (f.behind <=> form[d].behind) /\ e \notin 1..edits
    <3>1. e \notin 1..edits
      BY <1>1, <1>2, <2>1
    <3>2. QED
      BY <1>4, <1>6, <1>8, <2>1, <3>1
  <2>3. \A x \in 1..edits : Carried(d, x)' => Carried(d, x)
    BY <1>1, <1>10, <2>1, <2>2 DEF Carried
  <2>4. DaySound(d)
    BY DEF FormsInv
  <2>5. \A x \in Typed(d)' : Fresh(d, x)
    <3>1. Typed(d)' \subseteq Typed(d) \union {e}
      BY <1>1, <1>8, <1>10 DEF Typed
    <3>2. Fresh(d, e)
      BY <2>2, NothingBeyond
    <3>3. QED
      BY <1>14, <2>1, <2>4, <3>1, <3>2 DEF DaySound
  <2>6. \A x : Fresh(d, x) => Fresh(d, x)'
    <3>1. \A y \in Desks : \A x : Copied(y, x)' <=> Copied(y, x)
      BY <1>1 DEF Copied
    <3>2. \A y \in Desks \ {d} : \A x : Carried(y, x)' <=> Carried(y, x)
      BY <1>1, <1>9 DEF Carried
    <3>3. QED
      BY <1>1, <3>1, <3>2 DEF Fresh
  <2>7. DaySound(d)'
    BY <1>1, <1>10, <1>14, <2>1, <2>2, <2>4, <2>5, <2>6, CallIsCall DEF DaySound, NoCall
  <2>8. QED
    BY <2>3, <2>7
<1>15. QED
  BY <1>1, <1>3, <1>8, <1>9, <1>11, <1>12, <1>13, <1>14, FormChanges

-----------------------------------------------------------------------------
(* Pages and their queries.                                                *)

\* A step in the browser of desk d.
LEMMA BrowserChanges ==
  ASSUME FormsInv, NEW d \in Desks, UNCHANGED <<family, row, disk, edits, arts, raced>>,
         FormsTypeOK', DOMAIN cache' = Desks,
         \A e \in Desks \ {d} :
           /\ page'[e] = page[e] /\ cache'[e] = cache[e] /\ form'[e] = form[e] /\ call'[e] = call[e]
           /\ unseen'[e] = unseen[e] /\ saved'[e] = saved[e] /\ (stopper' = e => stopper = e),
         /\ call'[d].at = "stored" <=> call[d].at = "stored"
         /\ Stores(call'[d]) => Stores(call[d]) /\ call'[d].art = call[d].art
         /\ Loads(call'[d]) => \/ call'[d].row.art = row.art
                               \/ Loads(call[d]) /\ call'[d].row.art = call[d].row.art,
         (stopper # Nobody => ~row.on)', DeskSound(d)', KeepsSaved(d)',
         family = "day" => /\ \A x \in 1..edits : /\ Copied(d, x)' => Copied(d, x) \/ x \in row.text
                                                  /\ Carried(d, x)' => Carried(d, x) \/ Copied(d, x)
                           /\ DaySound(d)'
  PROVE  FormsInv'
<1>1. edits \in Nat /\ \A e \in Desks : saved[e] \subseteq row.text
  BY FormsBounds DEF FormsInv, FormsTypeOK, KeepsSaved
<1>2. StaysPut(d)
  BY <1>1 DEF StaysPut
<1>3. ArtSound'
  <2>1. ASSUME NEW e \in Desks
        PROVE  /\ call'[e].at = "stored" <=> call[e].at = "stored"
               /\ Stores(call'[e]) => Stores(call[e]) /\ call'[e].art = call[e].art
               /\ Loads(call'[e]) =>
                    \/ call'[e].row.art = row.art
                    \/ Loads(call[e]) /\ call'[e].row.art = call[e].row.art
    <3>1. CASE e = d
      BY <3>1
    <3>2. CASE e # d
      BY <3>2
    <3>3. QED
      BY <3>1, <3>2
  <2>2. QED
    BY <2>1, ArtGoesOn DEF FormsInv
<1>4. RecordSound'
  BY DEF FormsInv, RecordSound
<1>5. family = "day" => Brings(d)
  BY DEF Brings
<1>6. QED
  BY <1>2, <1>3, <1>4, <1>5, Composed

\* The same entry for the others, a new one for one query of desk d.
LEMMA EntryChanges ==
  ASSUME FormsTypeOK, DOMAIN cache = Desks, NEW d \in Desks, DOMAIN cache[d] = Keys, NEW k \in Keys, NEW v,
         cache' = [cache EXCEPT ![d][k] = v],
         k = "own" => v \in Entry(SUBSET Edits), k # "own" => v \in Entry(Copies)
  PROVE  /\ DOMAIN cache' = Desks /\ DOMAIN cache'[d] = Keys
         /\ cache'[d][k] = v /\ \A j \in Keys \ {k} : cache'[d][j] = cache[d][j]
         /\ \A e \in Desks \ {d} : cache'[e] = cache[e]
         /\ \A e \in Desks : /\ \A j \in Keys \ {"own"} : cache'[e][j] \in Entry(Copies)
                             /\ cache'[e]["own"] \in Entry(SUBSET Edits)
<1>1. /\ DOMAIN cache' = Desks /\ DOMAIN cache'[d] = Keys
      /\ cache'[d][k] = v /\ \A j \in Keys \ {k} : cache'[d][j] = cache[d][j]
      /\ \A e \in Desks \ {d} : cache'[e] = cache[e]
  OBVIOUS
<1>2. "own" \in Keys
  BY DEF Keys
<1>3. ASSUME NEW e \in Desks
      PROVE  /\ \A j \in Keys \ {"own"} : cache'[e][j] \in Entry(Copies)
             /\ cache'[e]["own"] \in Entry(SUBSET Edits)
  <2>1. /\ \A j \in Keys \ {"own"} : cache[e][j] \in Entry(Copies)
        /\ cache[e]["own"] \in Entry(SUBSET Edits)
    BY DEF FormsTypeOK
  <2>2. CASE e = d
    BY <1>1, <1>2, <2>1, <2>2
  <2>3. CASE e # d
    BY <1>1, <2>1, <2>3
  <2>4. QED
    BY <2>2, <2>3
<1>4. QED
  BY <1>1, <1>3

\* What a form is taken from.
LEMMA RowOnIs ==
  ASSUME FormsInv, NEW d \in Desks, HasRow(d)
  PROVE  /\ page[d] \in Pages(family)
         /\ Asks => RowOn(d) = New
         /\ ~Asks => RowOn(d) \in Data(d, page[d]) /\ ~RowOn(d).gone
         /\ RowOn(d).text \subseteq 1..edits /\ RowOn(d).text \in SUBSET Edits /\ RowOn(d).on \in BOOLEAN
<1>1. DeskSound(d) /\ FormsTypeOK
  BY DEF FormsInv
<1>2. page[d] \in Pages(family) /\ Pages(family) \subseteq {"list", "file"}
  BY <1>1, PagesAre DEF HasRow, DeskSound, FormsTypeOK
<1>3. CASE Asks
  BY <1>2, <1>3 DEF RowOn, New
<1>4. CASE ~Asks
  <2>1. PICK r \in Data(d, page[d]) : ~r.gone
    BY <1>4 DEF HasRow
  <2>2. RowOn(d) = CHOOSE s \in Data(d, page[d]) : TRUE
    BY <1>4 DEF RowOn
  <2>3. RowOn(d) \in Data(d, page[d])
    BY <2>1, <2>2
  <2>4. /\ page[d] \in Keys \ {"own"} /\ Data(d, page[d]) = cache[d][page[d]].data
        /\ cache[d][page[d]] \in Entry(Copies)
    BY <1>1, <1>2 DEF Data, Keys, FormsTypeOK
  <2>5. RowOn(d) = r
    BY <1>1, <2>1, <2>3, <2>4 DEF DeskSound, CacheSound, Single
  <2>6. r \in Copies /\ r.text \subseteq 1..edits
    BY <1>1, <2>1, <2>4, EntryIs DEF DeskSound, CacheSound
  <2>7. QED
    BY <1>2, <1>4, <2>1, <2>3, <2>5, <2>6 DEF Copies
<1>5. QED
  BY <1>3, <1>4

LEMMA FormOfIs ==
  ASSUME NEW r, r.text \in SUBSET Edits, r.on \in BOOLEAN, NEW b \in BOOLEAN
  PROVE  /\ FormOf(r, b) \in Forms
         /\ FormOf(r, b).text = r.text /\ FormOf(r, b).typed = {} /\ FormOf(r, b).on = r.on
         /\ ~FormOf(r, b).chosen /\ ~FormOf(r, b).file /\ ~FormOf(r, b).touched
         /\ FormOf(r, b).behind = b
BY DEF FormOf, Forms

LEMMA OpenFormKeeps ==
  ASSUME FormsInv, NEW d \in Desks, NEW young \in BOOLEAN, OpenForm(d, young)
  PROVE  FormsInv'
<1>1. /\ FormsTypeOK /\ DeskSound(d) /\ KeepsSaved(d) /\ DOMAIN cache = Desks
      /\ form \in [Desks -> Forms \union {NoForm}] /\ family \in Families /\ edits \in 0..MaxEdits
      /\ form[d] = NoForm /\ HasRow(d)
      /\ UNCHANGED <<family, row, disk, page, call, edits, arts, calls, visits, history>>
  BY DEF OpenForm, FormsInv, FormsTypeOK
<1>2. PICK b \in BOOLEAN : b <=> Behind(d, page[d])
  OBVIOUS
<1>3. PICK f : f = FormOf(RowOn(d), b)
  OBVIOUS
<1>4. /\ f \in Forms /\ f.text = RowOn(d).text /\ f.typed = {} /\ f.on = RowOn(d).on
      /\ ~f.chosen /\ ~f.file /\ ~f.touched /\ f.behind = b
  BY <1>1, <1>3, RowOnIs, FormOfIs
<1>5. form' = [form EXCEPT ![d] = f] /\ form'[d] = f
  <2>1. b = Behind(d, page[d])
    BY <1>2 DEF Behind
  <2>2. QED
    BY <1>1, <1>3, <2>1 DEF OpenForm
<1>6. call[d] # NoCall => f.behind
  BY <1>2, <1>4 DEF Behind
<1>7. CASE ~Asks
  <2>1. cache' = cache
    BY <1>7 DEF OpenForm
  <2>2. PICK k : k = page[d] /\ k \in Pages(family) /\ k \in {"list", "file"} /\ k \in Shown(family) \ {"own"}
    BY <1>1, <1>7, RowOnIs, PagesAre, LayoutIs
  <2>3. RowOn(d) \in cache[d][k].data /\ ~RowOn(d).gone /\ RowOn(d).text \subseteq 1..edits
    BY <1>1, <1>7, <2>2, RowOnIs DEF Data
  <2>4. FormSound(d)'
    <3>1. Inline => k = "list"
      BY <1>1, <2>2, LayoutIs, PagesAre
    <3>2. QED
      BY <1>1, <1>4, <1>5, <1>7, <2>1, <2>2, <2>3, <3>1, SameForms DEF FormSound
  <2>5. ContentKeepsOwn(d, f)
    <3>1. SUFFICES ASSUME ~f.behind
                   PROVE  /\ family # "preferences" => saved[d] \subseteq f.text
                          /\ Holds("switch") /\ ~f.chosen /\ stopper = d => ~f.on
      BY DEF ContentKeepsOwn
    <3>2. cache[d][k].fetch = "idle" /\ k \notin unseen[d]
      BY <1>2, <1>4, <2>2, <3>1 DEF Behind
    <3>3. family # "preferences" => KeepsOwn(d, RowOn(d))
      BY <1>1, <2>2, <2>3, <3>2 DEF KeepsSaved, CopiesKeepOwn
    <3>4. Holds("switch") => family # "preferences"
      BY <1>1, LayoutIs
    <3>5. QED
      BY <1>4, <2>3, <3>3, <3>4 DEF KeepsOwn
  <2>6. ASSUME family = "day"
        PROVE  /\ \A x \in 1..edits : Carried(d, x)' => Carried(d, x) \/ Copied(d, x)
               /\ DaySound(d)'
    <3>1. k = "list"
      BY <1>1, <2>2, <2>6, PagesAre
    <3>2. \A x \in 1..edits : Carried(d, x)' => Carried(d, x) \/ Copied(d, x)
      BY <1>1, <1>4, <1>5, <2>3, <3>1 DEF Carried, Copied
    <3>3. Typed(d)' = {} /\ Typed(d) = {} /\ DaySound(d)
      BY <1>1, <1>4, <1>5 DEF Typed, FormsInv
    <3>4. \A x : Fresh(d, x) => Fresh(d, x)'
      <4>1. \A y \in Desks : \A x : Copied(y, x)' <=> Copied(y, x)
        BY <2>1 DEF Copied
      <4>2. \A y \in Desks \ {d} : \A x : Carried(y, x)' <=> Carried(y, x)
        BY <1>1, <1>5 DEF Carried
      <4>3. QED
        BY <1>1, <4>1, <4>2 DEF Fresh
    <3>5. ~f.behind => cache[d]["list"].fetch = "idle" /\ call[d] = NoCall
      BY <1>2, <1>4, <2>2, <3>1 DEF Behind
    <3>6. DaySound(d)'
      BY <1>1, <1>4, <1>5, <2>1, <2>6, <3>3, <3>4, <3>5 DEF DaySound
    <3>7. QED
      BY <3>2, <3>6
  <2>7. edits' \in 0..MaxEdits /\ edits <= edits'
    BY <1>1
  <2>8. QED
    BY <1>1, <1>4, <1>5, <1>6, <2>1, <2>4, <2>5, <2>6, <2>7, FormChanges
<1>8. CASE Asks
  <2>1. cache' = [cache EXCEPT ![d]["own"] = Mounted(cache[d]["own"], young)]
    BY <1>8 DEF OpenForm, Mount
  <2>2. PICK e : e = cache[d]["own"]
    OBVIOUS
  <2>3. PICK v : v = Mounted(e, young)
    OBVIOUS
  <2>4. e \in Entry(SUBSET Edits) /\ "own" \in Keys
    BY <1>1, <2>2 DEF FormsTypeOK, Keys
  <2>5. /\ v \in Entry(SUBSET Edits) /\ v.data = e.data /\ v.invalid = e.invalid
        /\ v = e \/ (v.fetch = "asked" /\ v.reply = {})
        /\ v.fetch = "idle" => e.data # {}
    BY <2>3, <2>4, MountedIs
  <2>6. CacheSound(d) /\ DOMAIN cache[d] = Keys
    BY <1>1 DEF DeskSound, CacheSound
  <2>7. /\ DOMAIN cache' = Desks /\ DOMAIN cache'[d] = Keys
        /\ cache'[d]["own"] = v /\ \A j \in Keys \ {"own"} : cache'[d][j] = cache[d][j]
        /\ \A y \in Desks \ {d} : cache'[y] = cache[y]
        /\ \A y \in Desks : /\ \A j \in Keys \ {"own"} : cache'[y][j] \in Entry(Copies)
                            /\ cache'[y]["own"] \in Entry(SUBSET Edits)
    BY <1>1, <2>1, <2>2, <2>3, <2>4, <2>5, <2>6, EntryChanges
  <2>8. family = "pairs"
    BY <1>1, <1>8, LayoutIs
  <2>9. FormsTypeOK'
    <3>1. form' \in [Desks -> Forms \union {NoForm}]
      BY <1>1, <1>4, <1>5
    <3>2. QED
      BY <1>1, <2>7, <3>1 DEF FormsTypeOK, history
  <2>10. DeskSound(d)'
    <3>1. CacheSound(d)'
      BY <1>1, <2>2, <2>5, <2>6, <2>7 DEF CacheSound
    <3>2. FormSound(d)'
      <4>1. ~Inline
        BY <1>1, <2>8, LayoutIs
      <4>2. QED
        BY <1>1, <1>4, <1>5, <2>5, <2>7, <4>1, SameForms, RowOnIs DEF FormSound
    <3>3. CallSound(d)'
      <4>1. ~Inline
        BY <1>1, <2>8, LayoutIs
      <4>2. QED
        BY <1>1, <4>1, SameForms DEF DeskSound, CallSound
    <3>4. QED
      BY <1>1, <3>1, <3>2, <3>3 DEF DeskSound
  <2>11. KeepsSaved(d)'
    <3>1. CopiesKeepOwn(d)'
      <4>1. Shown(family) \ {"own"} = {}
        BY <1>1, <2>8, PagesAre
      <4>2. QED
        BY <1>1, <4>1 DEF CopiesKeepOwn
    <3>2. PairsKeepOwn(d)'
      BY <1>1, <2>2, <2>5, <2>7, <2>8, SameForms DEF KeepsSaved, PairsKeepOwn, history
    <3>3. \A g : ContentKeepsOwn(d, g) <=> ContentKeepsOwn(d, g)'
      BY <1>1, SameForms DEF ContentKeepsOwn, history
    <3>4. QED
      BY <1>1, <1>4, <1>5, <1>6, <1>8, <3>1, <3>2, <3>3, SameForms DEF KeepsSaved, history
  <2>12. (stopper # Nobody => ~row.on)'
    BY <1>1 DEF FormsInv, history
  <2>13. \A y \in Desks \ {d} : form'[y] = form[y]
    BY <1>1, <1>5
  <2>14. QED
    BY <1>1, <2>7, <2>8, <2>9, <2>10, <2>11, <2>12, <2>13, BrowserChanges DEF history
<1>9. QED
  BY <1>7, <1>8

LEMMA VisitKeeps ==
  ASSUME FormsInv, NEW d \in Desks, NEW p \in Keys, NEW young \in BOOLEAN, Visit(d, p, young)
  PROVE  FormsInv'
<1>1. /\ FormsTypeOK /\ DeskSound(d) /\ KeepsSaved(d) /\ DOMAIN cache = Desks /\ DOMAIN cache[d] = Keys
      /\ page \in [Desks -> Keys \union {"away"}] /\ family \in Families
      /\ page[d] = "away" /\ p \in Pages(family) /\ visits < MaxVisits /\ visits' = visits + 1
      /\ page' = [page EXCEPT ![d] = p]
      /\ cache' = IF Asks THEN cache ELSE [cache EXCEPT ![d][p] = Mounted(cache[d][p], young)]
      /\ UNCHANGED <<family, row, disk, form, call, edits, arts, calls, history>>
  BY DEF Visit, Mount, FormsInv, FormsTypeOK, DeskSound, CacheSound
<1>2. p \in {"list", "file"} /\ p \in Keys \ {"own"} /\ Pages(family) \subseteq {"list", "file"}
  BY <1>1, PagesAre DEF Keys
<1>3. page'[d] = p /\ \A e \in Desks \ {d} : page'[e] = page[e]
  BY <1>1
<1>4. form[d] = NoForm /\ (call[d] # NoCall => call[d].left)
  BY <1>1, <1>2 DEF DeskSound, FormSound, CallSound
<1>5. PICK e : e = cache[d][p]
  OBVIOUS
<1>6. PICK v : v = IF Asks THEN e ELSE Mounted(e, young)
  OBVIOUS
<1>7. e \in Entry(Copies)
  BY <1>1, <1>2, <1>5 DEF FormsTypeOK
<1>8. /\ v \in Entry(Copies) /\ v.data = e.data /\ v.invalid = e.invalid
      /\ v = e \/ (v.fetch = "asked" /\ v.reply = {})
      /\ ~Asks /\ v.fetch = "idle" => ~e.invalid
  BY <1>6, <1>7, MountedIs
<1>10. /\ DOMAIN cache' = Desks /\ DOMAIN cache'[d] = Keys
       /\ cache'[d][p] = v /\ \A j \in Keys \ {p} : cache'[d][j] = cache[d][j]
       /\ \A y \in Desks \ {d} : cache'[y] = cache[y]
       /\ \A y \in Desks : /\ \A j \in Keys \ {"own"} : cache'[y][j] \in Entry(Copies)
                           /\ cache'[y]["own"] \in Entry(SUBSET Edits)
  <2>1. CASE Asks
    BY <1>1, <1>5, <1>6, <2>1 DEF FormsTypeOK
  <2>2. CASE ~Asks
    <3>1. cache' = [cache EXCEPT ![d][p] = v]
      BY <1>1, <1>5, <1>6, <2>2
    <3>2. QED
      BY <1>1, <1>2, <1>8, <3>1, EntryChanges
  <2>3. QED
    BY <2>1, <2>2
<1>11. "own" \in Keys /\ cache'[d]["own"] = cache[d]["own"]
  BY <1>2, <1>10 DEF Keys
<1>12. FormsTypeOK'
  <2>1. visits' \in 0..MaxVisits
    BY <1>1, FormsBounds DEF FormsTypeOK
  <2>2. page' \in [Desks -> Keys \union {"away"}]
    BY <1>1
  <2>3. QED
    BY <1>1, <1>10, <2>1, <2>2 DEF FormsTypeOK, history
<1>13. DeskSound(d)'
  <2>1. CacheSound(d)'
    <3>1. ASSUME NEW k \in Keys \ {"own"}
          PROVE  /\ k \notin Pages(family) => cache'[d][k].fetch = "idle"
                 /\ Single(cache'[d][k].data) /\ Single(cache'[d][k].reply)
                 /\ cache'[d][k].fetch = "answered" => cache'[d][k].reply # {}
                 /\ \A r \in cache'[d][k].data \union cache'[d][k].reply :
                      r.text \subseteq 1..edits /\ (r.gone => family \in Deletes)
      <4>1. /\ k \notin Pages(family) => cache[d][k].fetch = "idle"
            /\ Single(cache[d][k].data) /\ Single(cache[d][k].reply)
            /\ cache[d][k].fetch = "answered" => cache[d][k].reply # {}
            /\ \A r \in cache[d][k].data \union cache[d][k].reply :
                 r.text \subseteq 1..edits /\ (r.gone => family \in Deletes)
        BY <1>1 DEF DeskSound, CacheSound
      <4>2. CASE k # p
        BY <1>10, <4>1, <4>2
      <4>3. CASE k = p
        BY <1>1, <1>5, <1>8, <1>10, <4>1, <4>3 DEF Single
      <4>4. QED
        BY <4>2, <4>3
    <3>2. QED
      BY <1>1, <1>10, <1>11, <3>1 DEF DeskSound, CacheSound
  <2>2. FormSound(d)'
    BY <1>1, <1>4 DEF FormSound
  <2>3. CallSound(d)'
    BY <1>1, <1>4, SameForms DEF DeskSound, CallSound
  <2>4. QED
    BY <1>1, <1>3, <2>1, <2>2, <2>3 DEF DeskSound
<1>14. KeepsSaved(d)'
  <2>1. \A r : KeepsOwn(d, r)' <=> KeepsOwn(d, r)
    BY <1>1 DEF KeepsOwn, history
  <2>2. ASSUME family # "preferences"
        PROVE  CopiesKeepOwn(d)'
    <3>1. ASSUME NEW k \in Shown(family) \ {"own"}
          PROVE  /\ page'[d] = k /\ cache'[d][k].fetch = "idle" => ~cache'[d][k].invalid
                 /\ k \notin unseen[d] =>
                      /\ cache'[d][k].fetch = "answered" => \A r \in cache'[d][k].reply : KeepsOwn(d, r)
                      /\ cache'[d][k].fetch = "idle" /\ ~cache'[d][k].invalid =>
                           \A r \in cache'[d][k].data : KeepsOwn(d, r)
      <4>1. k \in Keys /\ ~Asks
        BY <1>1, <3>1, PagesAre, LayoutIs DEF Keys
      <4>2. /\ k \notin unseen[d] =>
                 /\ cache[d][k].fetch = "answered" => \A r \in cache[d][k].reply : KeepsOwn(d, r)
                 /\ cache[d][k].fetch = "idle" /\ ~cache[d][k].invalid =>
                      \A r \in cache[d][k].data : KeepsOwn(d, r)
        BY <1>1, <2>2, <3>1 DEF KeepsSaved, CopiesKeepOwn
      <4>3. CASE k # p
        BY <1>3, <1>10, <4>1, <4>2, <4>3
      <4>4. CASE k = p
        BY <1>5, <1>8, <1>10, <4>1, <4>2, <4>4
      <4>5. QED
        BY <4>3, <4>4
    <3>2. QED
      BY <1>1, <2>1, <3>1 DEF CopiesKeepOwn, history
  <2>3. PairsKeepOwn(d) => PairsKeepOwn(d)'
    BY <1>1, <1>11, SameForms DEF PairsKeepOwn, history
  <2>4. \A g : ContentKeepsOwn(d, g) <=> ContentKeepsOwn(d, g)'
    BY <1>1, SameForms DEF ContentKeepsOwn, history
  <2>5. QED
    BY <1>1, <1>4, <2>2, <2>3, <2>4 DEF KeepsSaved, history
<1>15. (stopper # Nobody => ~row.on)'
  BY <1>1 DEF FormsInv, history
<1>16. ASSUME family = "day"
       PROVE  /\ \A x \in 1..edits : /\ Copied(d, x)' => Copied(d, x) \/ x \in row.text
                                     /\ Carried(d, x)' => Carried(d, x) \/ Copied(d, x)
              /\ DaySound(d)'
  <2>1. p = "list"
    BY <1>1, <1>16, PagesAre
  <2>2. \A x : (Copied(d, x)' => Copied(d, x)) /\ (Carried(d, x)' => Carried(d, x))
    BY <1>1, <1>5, <1>8, <1>10, <2>1 DEF Copied, Carried
  <2>3. DaySound(d) /\ Typed(d)' = {}
    BY <1>1, <1>4 DEF FormsInv, Typed
  <2>4. \A x : Fresh(d, x) => Fresh(d, x)'
    <3>1. \A y \in Desks \ {d} : \A x : (Copied(y, x)' <=> Copied(y, x)) /\ (Carried(y, x)' <=> Carried(y, x))
      BY <1>1, <1>10 DEF Carried, Copied
    <3>2. QED
      BY <1>1, <2>2, <3>1 DEF Fresh
  <2>5. DaySound(d)'
    BY <1>1, <1>4, <1>16, <2>3, <2>4 DEF DaySound
  <2>6. QED
    BY <2>2, <2>5
<1>17. QED
  BY <1>1, <1>3, <1>10, <1>12, <1>13, <1>14, <1>15, <1>16, BrowserChanges DEF history

LEMMA LeaveKeeps ==
  ASSUME FormsInv, NEW d \in Desks, Leave(d)
  PROVE  FormsInv'
<1>1. /\ FormsTypeOK /\ DeskSound(d) /\ KeepsSaved(d) /\ DOMAIN cache = Desks
      /\ page \in [Desks -> Keys \union {"away"}] /\ family \in Families
      /\ form \in [Desks -> Forms \union {NoForm}] /\ call \in [Desks -> Calls \union {NoCall}]
      /\ page' = [page EXCEPT ![d] = "away"]
      /\ form' = [form EXCEPT ![d] = NoForm]
      /\ call' = IF call[d] = NoCall THEN call ELSE [call EXCEPT ![d].left = TRUE]
      /\ UNCHANGED <<family, row, disk, cache, edits, arts, calls, visits, history>>
  BY DEF Leave, FormsInv, FormsTypeOK
<1>2. /\ page'[d] = "away" /\ form'[d] = NoForm
      /\ \A e \in Desks \ {d} : page'[e] = page[e] /\ form'[e] = form[e] /\ call'[e] = call[e]
  BY <1>1
<1>3. /\ call'[d] \in Calls \union {NoCall}
      /\ call'[d] = NoCall <=> call[d] = NoCall
      /\ call[d] # NoCall =>
           /\ call'[d].left = TRUE
           /\ call'[d].op = call[d].op /\ call'[d].at = call[d].at /\ call'[d].text = call[d].text
           /\ call'[d].typed = call[d].typed /\ call'[d].on = call[d].on /\ call'[d].chosen = call[d].chosen
           /\ call'[d].file = call[d].file /\ call'[d].behind = call[d].behind
           /\ call'[d].page = call[d].page /\ call'[d].art = call[d].art /\ call'[d].row = call[d].row
  <2>1. CASE call[d] = NoCall
    BY <1>1, <2>1
  <2>2. CASE call[d] # NoCall
    <3>1. PICK c \in Calls : c = call[d]
      BY <1>1, <2>2
    <3>2. PICK n : n = [c EXCEPT !.left = TRUE]
      OBVIOUS
    <3>3. /\ n \in Calls /\ n.left = TRUE
          /\ n.op = c.op /\ n.at = c.at /\ n.text = c.text /\ n.typed = c.typed /\ n.on = c.on
          /\ n.chosen = c.chosen /\ n.file = c.file /\ n.behind = c.behind /\ n.page = c.page
          /\ n.art = c.art /\ n.row = c.row
      BY <3>1, <3>2 DEF Calls
    <3>4. call'[d] = n
      BY <1>1, <2>2, <3>1, <3>2
    <3>5. n # NoCall
      BY <3>3, CallIsCall
    <3>6. QED
      BY <2>2, <3>1, <3>3, <3>4, <3>5
  <2>3. QED
    BY <2>1, <2>2
<1>4. FormsTypeOK'
  <2>1. page' \in [Desks -> Keys \union {"away"}] /\ form' \in [Desks -> Forms \union {NoForm}]
    BY <1>1
  <2>2. call' \in [Desks -> Calls \union {NoCall}]
    BY <1>1, <1>3
  <2>3. QED
    BY <1>1, <2>1, <2>2 DEF FormsTypeOK, history
<1>5. DeskSound(d)'
  <2>1. CacheSound(d)'
    BY <1>1 DEF DeskSound, CacheSound
  <2>2. FormSound(d)'
    BY <1>2 DEF FormSound
  <2>3. CallSound(d)'
    <3>1. call[d] # NoCall => (Uploads(call[d])' <=> Uploads(call[d])) /\ (Unlinks(call[d])' <=> Unlinks(call[d]))
      BY <1>1, <1>3 DEF Uploads, Unlinks
    <3>2. QED
      BY <1>1, <1>3, <3>1, SameForms DEF DeskSound, CallSound
  <2>4. QED
    BY <1>2, <2>1, <2>2, <2>3 DEF DeskSound
<1>6. KeepsSaved(d)'
  <2>1. \A r : KeepsOwn(d, r)' <=> KeepsOwn(d, r)
    BY <1>1 DEF KeepsOwn, history
  <2>2. CopiesKeepOwn(d) => CopiesKeepOwn(d)'
    <3>1. \A k \in Shown(family) \ {"own"} : page'[d] # k
      BY <1>1, <1>2, PagesAre
    <3>2. QED
      BY <1>1, <2>1, <3>1 DEF CopiesKeepOwn, history
  <2>3. PairsKeepOwn(d) => PairsKeepOwn(d)'
    BY <1>1, SameForms DEF PairsKeepOwn, history
  <2>4. call[d].op = "form" /\ Loads(call[d]) /\ ContentKeepsOwn(d, call[d]) => ContentKeepsOwn(d, call[d])'
    <3>1. call[d].op = "form" => call[d] # NoCall
      BY DEF NoCall
    <3>2. QED
      BY <1>1, <1>3, <3>1, SameForms DEF ContentKeepsOwn, history
  <2>5. call'[d].op = "form" /\ Loads(call'[d]) => call[d].op = "form" /\ Loads(call[d])
    BY <1>3 DEF Loads
  <2>6. QED
    BY <1>1, <1>2, <2>2, <2>3, <2>4, <2>5 DEF KeepsSaved, history
<1>7. (stopper # Nobody => ~row.on)'
  BY <1>1 DEF FormsInv, history
<1>8. ASSUME family = "day"
      PROVE  /\ \A x \in 1..edits : /\ Copied(d, x)' => Copied(d, x) \/ x \in row.text
                                    /\ Carried(d, x)' => Carried(d, x) \/ Copied(d, x)
             /\ DaySound(d)'
  <2>1. \A x : (Copied(d, x)' <=> Copied(d, x)) /\ (Carried(d, x)' => Carried(d, x))
    BY <1>1, <1>2, <1>3 DEF Copied, Carried
  <2>2. DaySound(d) /\ Typed(d)' = {}
    BY <1>2 DEF FormsInv, Typed
  <2>3. \A x : Fresh(d, x) => Fresh(d, x)'
    <3>1. \A y \in Desks \ {d} : \A x : (Copied(y, x)' <=> Copied(y, x)) /\ (Carried(y, x)' <=> Carried(y, x))
      BY <1>1, <1>2 DEF Carried, Copied
    <3>2. QED
      BY <1>1, <2>1, <3>1 DEF Fresh
  <2>4. call'[d].at = "loaded" => call[d].at = "loaded" /\ call[d] # NoCall
    BY <1>3 DEF NoCall
  <2>5. DaySound(d)'
    BY <1>1, <1>2, <1>3, <1>8, <2>2, <2>3, <2>4 DEF DaySound
  <2>6. QED
    BY <2>1, <2>5
<1>9. /\ call'[d].at = "stored" <=> call[d].at = "stored"
      /\ Stores(call'[d]) => Stores(call[d]) /\ call'[d].art = call[d].art
      /\ Loads(call'[d]) => Loads(call[d]) /\ call'[d].row.art = call[d].row.art
  BY <1>3, CallIsCall DEF Stores, Loads, NoCall
<1>10. QED
  BY <1>1, <1>2, <1>4, <1>5, <1>6, <1>7, <1>8, <1>9, BrowserChanges DEF history

\* The entries of the other queries, when one changes.
LEMMA EntrySound ==
  ASSUME FormsInv, NEW d \in Desks, NEW k \in Keys \ {"own"}, k \in Pages(family),
         DOMAIN cache'[d] = Keys, \A j \in Keys \ {k} : cache'[d][j] = cache[d][j],
         family' = family, edits' = edits,
         Single(cache'[d][k].data), Single(cache'[d][k].reply),
         cache'[d][k].fetch = "answered" => cache'[d][k].reply # {},
         \A r \in cache'[d][k].data \union cache'[d][k].reply :
           r.text \subseteq 1..edits /\ (r.gone => family \in Deletes)
  PROVE  CacheSound(d)'
<1>1. CacheSound(d)
  BY DEF FormsInv, DeskSound
<1>2. "own" \in Keys /\ k # "own"
  BY DEF Keys
<1>3. ASSUME NEW j \in Keys \ {"own"}
      PROVE  /\ j \notin Pages(family) => cache'[d][j].fetch = "idle"
             /\ Single(cache'[d][j].data) /\ Single(cache'[d][j].reply)
             /\ cache'[d][j].fetch = "answered" => cache'[d][j].reply # {}
             /\ \A r \in cache'[d][j].data \union cache'[d][j].reply :
                  r.text \subseteq 1..edits /\ (r.gone => family \in Deletes)
  <2>1. CASE j = k
    BY <2>1
  <2>2. CASE j # k
    BY <1>1, <2>2 DEF CacheSound
  <2>3. QED
    BY <2>1, <2>2
<1>4. QED
  BY <1>1, <1>2, <1>3 DEF CacheSound

\* A reader of the record learns what it says.
LEMMA CopyIs ==
  ASSUME FormsInv, NEW d \in Desks
  PROVE  /\ Copy(row) \in Copies /\ Copy(row).text \subseteq 1..edits
         /\ Copy(row).gone => family \in Deletes
         /\ KeepsOwn(d, Copy(row))
         /\ Copy(row).text \subseteq row.text /\ (family \notin Deletes => Copy(row).text = row.text)
<1>1. row \in Record /\ RecordSound /\ saved[d] \subseteq row.text /\ (stopper # Nobody => ~row.on)
  BY DEF FormsInv, FormsTypeOK, KeepsSaved
<1>2. /\ Copy(row).text = (IF row.gone THEN {} ELSE row.text) /\ Copy(row).on = row.on
      /\ Copy(row).gone = row.gone
  BY DEF Copy
<1>3. Copy(row) \in Copies
  BY <1>1 DEF Copy, Copies, Record
<1>4. stopper = d => ~row.on
  BY <1>1, NobodyAssumption DEF Nobody
<1>5. QED
  BY <1>1, <1>2, <1>3, <1>4 DEF RecordSound, KeepsOwn

LEMMA ReadKeeps ==
  ASSUME FormsInv, NEW d \in Desks, NEW k \in Keys, Read(d, k)
  PROVE  FormsInv'
<1>1. /\ FormsTypeOK /\ DeskSound(d) /\ KeepsSaved(d) /\ DOMAIN cache = Desks /\ DOMAIN cache[d] = Keys
      /\ family \in Families /\ k \in Keys \ {"own"} /\ cache[d][k].fetch = "asked"
      /\ cache' = [cache EXCEPT ![d][k] = Answered(cache[d][k], Copy(row))]
      /\ unseen' = [unseen EXCEPT ![d] = @ \ {k}] /\ unseen \in [Desks -> SUBSET Keys]
      /\ UNCHANGED <<family, row, disk, page, form, call, edits, arts, calls, visits, saved, stopper, raced>>
  BY DEF Read, FormsInv, FormsTypeOK, DeskSound, CacheSound
<1>2. k \in Pages(family)
  BY <1>1 DEF DeskSound, CacheSound
<1>3. PICK e : e = cache[d][k]
  OBVIOUS
<1>4. PICK v : v = Answered(e, Copy(row))
  OBVIOUS
<1>5. e \in Entry(Copies)
  BY <1>1, <1>3 DEF FormsTypeOK
<1>6. /\ v \in Entry(Copies) /\ v.data = e.data /\ v.invalid = e.invalid
      /\ v.reply = {Copy(row)} /\ v.fetch = "answered"
  BY <1>4, <1>5, AnsweredIs, CopyIs
<1>7. /\ DOMAIN cache' = Desks /\ DOMAIN cache'[d] = Keys
      /\ cache'[d][k] = v /\ \A j \in Keys \ {k} : cache'[d][j] = cache[d][j]
      /\ \A y \in Desks \ {d} : cache'[y] = cache[y]
      /\ \A y \in Desks : /\ \A j \in Keys \ {"own"} : cache'[y][j] \in Entry(Copies)
                          /\ cache'[y]["own"] \in Entry(SUBSET Edits)
  BY <1>1, <1>3, <1>4, <1>6, EntryChanges
<1>8. "own" \in Keys /\ cache'[d]["own"] = cache[d]["own"]
  BY <1>1, <1>7 DEF Keys
<1>9. \A y \in Desks \ {d} : unseen'[y] = unseen[y]
  BY <1>1
<1>10. unseen' \in [Desks -> SUBSET Keys] /\ unseen'[d] = unseen[d] \ {k}
  BY <1>1
<1>11. FormsTypeOK'
  BY <1>1, <1>7, <1>10 DEF FormsTypeOK
<1>12. "list" \in Keys /\ cache'[d]["list"].data = cache[d]["list"].data
  BY <1>3, <1>6, <1>7 DEF Keys
<1>13. DeskSound(d)'
  <2>1. CacheSound(d)'
    <3>1. /\ Single(cache[d][k].data)
          /\ \A r \in cache[d][k].data : r.text \subseteq 1..edits /\ (r.gone => family \in Deletes)
      BY <1>1 DEF DeskSound, CacheSound
    <3>2. Single(v.reply)
      BY <1>6 DEF Single
    <3>3. QED
      BY <1>1, <1>2, <1>3, <1>6, <1>7, <3>1, <3>2, CopyIs, EntrySound
  <2>2. FormSound(d)'
    BY <1>1, <1>8, <1>12, SameForms DEF DeskSound, FormSound
  <2>3. CallSound(d)'
    BY <1>1, <1>12, SameForms DEF DeskSound, CallSound
  <2>4. QED
    BY <1>1, <2>1, <2>2, <2>3 DEF DeskSound
<1>14. KeepsSaved(d)'
  <2>1. \A r : KeepsOwn(d, r)' <=> KeepsOwn(d, r)
    BY <1>1 DEF KeepsOwn
  <2>2. CopiesKeepOwn(d) => CopiesKeepOwn(d)'
    <3>1. \A j \in Shown(family) \ {"own"} : j \in Keys
      BY <1>1, PagesAre DEF Keys
    <3>2. \A j : j # k /\ j \notin unseen'[d] => j \notin unseen[d]
      BY <1>10
    <3>3. QED
      BY <1>1, <1>6, <1>7, <2>1, <3>1, <3>2, CopyIs DEF CopiesKeepOwn
  <2>3. PairsKeepOwn(d) => PairsKeepOwn(d)'
    BY <1>1, <1>8, <1>10, SameForms DEF PairsKeepOwn
  <2>4. \A g : ContentKeepsOwn(d, g) <=> ContentKeepsOwn(d, g)'
    BY <1>1, SameForms DEF ContentKeepsOwn
  <2>5. QED
    BY <1>1, <2>2, <2>3, <2>4, SameForms DEF KeepsSaved
<1>15. (stopper # Nobody => ~row.on)'
  BY <1>1 DEF FormsInv
<1>16. ASSUME family = "day"
       PROVE  /\ \A x \in 1..edits : /\ Copied(d, x)' => Copied(d, x) \/ x \in row.text
                                     /\ Carried(d, x)' => Carried(d, x) \/ Copied(d, x)
              /\ DaySound(d)'
  <2>1. k = "list" /\ family \notin Deletes
    BY <1>1, <1>2, <1>16, PagesAre DEF Deletes
  <2>2. Copy(row).text = row.text
    BY <2>1, CopyIs
  <2>3. \A x : (Copied(d, x)' => Copied(d, x) \/ x \in row.text) /\ (Carried(d, x)' => Carried(d, x))
    BY <1>1, <1>3, <1>6, <1>7, <2>1, <2>2 DEF Copied, Carried
  <2>4. DaySound(d) /\ Typed(d)' = Typed(d) /\ Known(d)' = Known(d)
    BY <1>1 DEF FormsInv, Typed, Known
  <2>5. \A x : Fresh(d, x) => Fresh(d, x)'
    <3>1. \A y \in Desks \ {d} : \A x : (Copied(y, x)' <=> Copied(y, x)) /\ (Carried(y, x)' <=> Carried(y, x))
      BY <1>1, <1>7 DEF Carried, Copied
    <3>2. QED
      BY <1>1, <2>3, <3>1 DEF Fresh
  <2>6. \A t : News(d, t)' <=> News(d, t)
    BY <1>1, <2>4 DEF News
  <2>7. Pending(d) => Pending(d)'
    <3>1. News(d, row.text) => News(d, row.text)'
      BY <1>1, <2>4 DEF News
    <3>2. \A r \in cache'[d]["list"].reply : r.text = row.text
      BY <1>6, <1>7, <2>1, <2>2
    <3>3. QED
      BY <1>1, <2>6, <3>1, <3>2 DEF Pending
  <2>8. form[d] # NoForm /\ ~form[d].behind => call[d].at = "settling"
    BY <1>1, <1>16, <2>1, <2>4 DEF DaySound
  <2>9. DaySound(d)'
    BY <1>1, <1>16, <2>4, <2>5, <2>7, <2>8 DEF DaySound
  <2>10. QED
    BY <2>3, <2>9
<1>17. QED
  BY <1>1, <1>7, <1>9, <1>11, <1>13, <1>14, <1>15, <1>16, BrowserChanges

LEMMA FetchKeeps ==
  ASSUME FormsInv, NEW d \in Desks, Fetch(d)
  PROVE  FormsInv'
<1>1. /\ FormsTypeOK /\ DeskSound(d) /\ KeepsSaved(d) /\ DOMAIN cache = Desks /\ DOMAIN cache[d] = Keys
      /\ family \in Families /\ row.text \in SUBSET Edits /\ "own" \in Keys /\ "list" \in Keys
      /\ cache' = [cache EXCEPT ![d]["own"] = Landed(Answered(cache[d]["own"], row.text))]
      /\ unseen' = [unseen EXCEPT ![d] = @ \ {"own"}] /\ unseen \in [Desks -> SUBSET Keys]
      /\ UNCHANGED <<family, row, disk, page, form, call, edits, arts, calls, visits, saved, stopper, raced>>
  BY DEF Fetch, FormsInv, FormsTypeOK, DeskSound, CacheSound, Record, Keys
<1>2. PICK e : e = cache[d]["own"]
  OBVIOUS
<1>3. PICK v : v = Landed(Answered(e, row.text))
  OBVIOUS
<1>4. e \in Entry(SUBSET Edits)
  BY <1>1, <1>2 DEF FormsTypeOK
<1>5. v \in Entry(SUBSET Edits) /\ v.data = {row.text} /\ ~v.invalid /\ v.reply = {} /\ v.fetch = "idle"
  <2>1. PICK a : a = Answered(e, row.text)
    OBVIOUS
  <2>2. a \in Entry(SUBSET Edits) /\ a.reply = {row.text}
    BY <1>1, <1>4, <2>1, AnsweredIs
  <2>3. QED
    BY <1>3, <2>1, <2>2, LandedIs
<1>6. /\ DOMAIN cache' = Desks /\ DOMAIN cache'[d] = Keys
      /\ cache'[d]["own"] = v /\ \A j \in Keys \ {"own"} : cache'[d][j] = cache[d][j]
      /\ \A y \in Desks \ {d} : cache'[y] = cache[y]
      /\ \A y \in Desks : /\ \A j \in Keys \ {"own"} : cache'[y][j] \in Entry(Copies)
                          /\ cache'[y]["own"] \in Entry(SUBSET Edits)
  BY <1>1, <1>2, <1>3, <1>5, EntryChanges
<1>7. /\ unseen' \in [Desks -> SUBSET Keys] /\ unseen'[d] = unseen[d] \ {"own"}
      /\ \A y \in Desks \ {d} : unseen'[y] = unseen[y]
  BY <1>1
<1>8. FormsTypeOK'
  BY <1>1, <1>6, <1>7 DEF FormsTypeOK
<1>9. saved[d] \subseteq row.text /\ row.text \subseteq 1..edits
  BY <1>1 DEF KeepsSaved, FormsInv, RecordSound
<1>10. DeskSound(d)'
  <2>1. CacheSound(d)'
    BY <1>1, <1>5, <1>6, <1>9 DEF DeskSound, CacheSound
  <2>2. FormSound(d)'
    BY <1>1, <1>5, <1>6, SameForms DEF DeskSound, FormSound
  <2>3. CallSound(d)'
    BY <1>1, <1>6, SameForms DEF DeskSound, CallSound
  <2>4. QED
    BY <1>1, <2>1, <2>2, <2>3 DEF DeskSound
<1>11. KeepsSaved(d)'
  <2>1. \A r : KeepsOwn(d, r)' <=> KeepsOwn(d, r)
    BY <1>1 DEF KeepsOwn
  <2>2. CopiesKeepOwn(d) => CopiesKeepOwn(d)'
    <3>1. \A j \in Shown(family) \ {"own"} : j \in Keys \ {"own"}
      BY <1>1, PagesAre DEF Keys
    <3>2. \A j : j # "own" /\ j \notin unseen'[d] => j \notin unseen[d]
      BY <1>7
    <3>3. QED
      BY <1>1, <1>6, <2>1, <3>1, <3>2 DEF CopiesKeepOwn
  <2>3. PairsKeepOwn(d)'
    BY <1>1, <1>5, <1>6, <1>9 DEF PairsKeepOwn
  <2>4. \A g : ContentKeepsOwn(d, g) <=> ContentKeepsOwn(d, g)'
    BY <1>1, SameForms DEF ContentKeepsOwn
  <2>5. QED
    BY <1>1, <2>2, <2>3, <2>4, SameForms DEF KeepsSaved
<1>12. (stopper # Nobody => ~row.on)'
  BY <1>1 DEF FormsInv
<1>13. ASSUME family = "day"
       PROVE  /\ \A x \in 1..edits : /\ Copied(d, x)' => Copied(d, x) \/ x \in row.text
                                     /\ Carried(d, x)' => Carried(d, x) \/ Copied(d, x)
              /\ DaySound(d)'
  <2>1. cache'[d]["list"] = cache[d]["list"]
    BY <1>1, <1>6
  <2>2. \A y \in Desks : \A x : (Copied(y, x)' <=> Copied(y, x)) /\ (Carried(y, x)' <=> Carried(y, x))
    BY <1>1, <1>6, <2>1 DEF Copied, Carried
  <2>3. DaySound(d) /\ Typed(d)' = Typed(d) /\ Known(d)' = Known(d)
    BY <1>1 DEF FormsInv, Typed, Known
  <2>4. \A x : Fresh(d, x) => Fresh(d, x)'
    BY <1>1, <2>2 DEF Fresh
  <2>5. Pending(d) => Pending(d)'
    <3>1. (\A t : News(d, t)' <=> News(d, t)) /\ (News(d, row.text) => News(d, row.text)')
      BY <1>1, <2>3 DEF News
    <3>2. QED
      BY <1>1, <2>1, <3>1 DEF Pending
  <2>6. DaySound(d)'
    BY <1>1, <2>1, <2>3, <2>4, <2>5 DEF DaySound
  <2>7. QED
    BY <2>2, <2>6
<1>14. QED
  BY <1>1, <1>6, <1>7, <1>8, <1>10, <1>11, <1>12, <1>13, BrowserChanges

\* A month that comes back with something else than the editor began with, or with the
\* first form of a page, is laid out; any other answer leaves the form alone.
LEMMA LandKeeps ==
  ASSUME FormsInv, NEW d \in Desks, NEW k \in Keys, Land(d, k)
  PROVE  FormsInv'
<1>1. /\ FormsTypeOK /\ DeskSound(d) /\ KeepsSaved(d) /\ DOMAIN cache = Desks /\ DOMAIN cache[d] = Keys
      /\ CacheSound(d) /\ FormSound(d) /\ CallSound(d)
      /\ family \in Families /\ k \in Keys \ {"own"} /\ cache[d][k].fetch = "answered"
      /\ form \in [Desks -> Forms \union {NoForm}] /\ call \in [Desks -> Calls \union {NoCall}]
      /\ cache' = [cache EXCEPT ![d][k] = Landed(cache[d][k])]
      /\ call' = IF call[d].at = "settling" THEN [call EXCEPT ![d] = NoCall] ELSE call
      /\ UNCHANGED <<family, row, disk, page, edits, arts, calls, visits, history>>
  BY DEF Land, FormsInv, FormsTypeOK, DeskSound, CacheSound
<1>2. k \in Pages(family) /\ k \in {"list", "file"}
  BY <1>1, PagesAre DEF CacheSound
<1>3. PICK e : e = cache[d][k]
  OBVIOUS
<1>4. PICK v : v = Landed(e)
  OBVIOUS
<1>5. e \in Entry(Copies)
  BY <1>1, <1>3 DEF FormsTypeOK
<1>6. v \in Entry(Copies) /\ v.data = e.reply /\ ~v.invalid /\ v.reply = {} /\ v.fetch = "idle"
  BY <1>4, <1>5, LandedIs
<1>7. /\ DOMAIN cache' = Desks /\ DOMAIN cache'[d] = Keys
      /\ cache'[d][k] = v /\ \A j \in Keys \ {k} : cache'[d][j] = cache[d][j]
      /\ \A y \in Desks \ {d} : cache'[y] = cache[y]
      /\ \A y \in Desks : /\ \A j \in Keys \ {"own"} : cache'[y][j] \in Entry(Copies)
                          /\ cache'[y]["own"] \in Entry(SUBSET Edits)
  BY <1>1, <1>3, <1>4, <1>6, EntryChanges
<1>8. "own" \in Keys /\ "list" \in Keys /\ cache'[d]["own"] = cache[d]["own"]
  BY <1>1, <1>7 DEF Keys
<1>9. PICK r \in e.reply : /\ r = CHOOSE s \in e.reply : TRUE
                           /\ e.reply = {r} /\ r \in Copies /\ r.text \subseteq 1..edits
                           /\ r.gone => family \in Deletes
  <2>1. e.reply # {} /\ Single(e.reply)
    BY <1>1, <1>3 DEF CacheSound
  <2>2. PICK s \in e.reply : s = CHOOSE t \in e.reply : TRUE
    BY <2>1
  <2>3. e.reply = {s}
    BY <2>1, <2>2 DEF Single
  <2>4. s \in Copies
    BY <1>5, <2>2, EntryIs
  <2>5. s.text \subseteq 1..edits /\ (s.gone => family \in Deletes)
    BY <1>1, <1>3, <2>2 DEF CacheSound
  <2>6. QED
    BY <2>2, <2>3, <2>4, <2>5
<1>10. cache[d]["list"].data # {} => cache'[d]["list"].data # {}
  BY <1>6, <1>7, <1>8, <1>9
<1>11. /\ call'[d] = IF call[d].at = "settling" THEN NoCall ELSE call[d]
       /\ \A y \in Desks \ {d} : call'[y] = call[y]
       /\ call' \in [Desks -> Calls \union {NoCall}]
  BY <1>1
<1>12. PICK b \in BOOLEAN : b <=> (call[d].at \notin {"none", "settling"} \/ "list" \in unseen[d])
  OBVIOUS
<1>13. PICK f : f = FormOf(r, b)
  OBVIOUS
<1>14. /\ f \in Forms /\ f.text = r.text /\ f.typed = {} /\ f.on = r.on
       /\ ~f.chosen /\ ~f.file /\ ~f.touched /\ f.behind = b
  <2>1. r.text \in SUBSET Edits /\ r.on \in BOOLEAN
    BY <1>9 DEF Copies
  <2>2. QED
    BY <1>13, <2>1, FormOfIs
<1>15. /\ form'[d] = form[d] \/ (Inline /\ page[d] = k /\ form'[d] = f)
       /\ Inline /\ page[d] = k /\ family = "day" /\ form'[d] = form[d] /\ form[d] # NoForm =>
            form'[d] = f \/ r.text = form[d].text \ form[d].typed
       /\ \A y \in Desks \ {d} : form'[y] = form[y]
       /\ form' \in [Desks -> Forms \union {NoForm}]
  <2>1. Relaid(d, r) = IF form[d] = NoForm \/ (family = "day" /\ r.text # form[d].text \ form[d].typed)
                       THEN f ELSE form[d]
    BY <1>12, <1>13 DEF Relaid
  <2>2. form' = IF Inline /\ page[d] = k THEN [form EXCEPT ![d] = Relaid(d, r)] ELSE form
    BY <1>3, <1>9 DEF Land
  <2>3. CASE Inline /\ page[d] = k
    BY <1>1, <1>14, <2>1, <2>2, <2>3
  <2>4. CASE ~(Inline /\ page[d] = k)
    BY <1>1, <2>2, <2>4
  <2>5. QED
    BY <2>3, <2>4
<1>16. FormsTypeOK'
  BY <1>1, <1>7, <1>11, <1>15 DEF FormsTypeOK, history
<1>17. DeskSound(d)'
  <2>1. CacheSound(d)'
    <3>1. Single(v.data) /\ Single(v.reply)
      BY <1>6, <1>9 DEF Single
    <3>2. QED
      BY <1>1, <1>2, <1>6, <1>7, <1>9, <3>1, EntrySound
  <2>2. FormSound(d)'
    <3>1. CASE form'[d] = form[d]
      BY <1>1, <1>8, <1>10, <3>1, SameForms DEF FormSound
    <3>2. CASE Inline /\ page[d] = k /\ form'[d] = f
      <4>1. k = "list" /\ ~Asks
        BY <1>1, <1>2, <3>2, LayoutIs, PagesAre
      <4>2. cache'[d]["list"].data # {}
        BY <1>6, <1>7, <1>9, <4>1
      <4>3. QED
        BY <1>1, <1>2, <1>9, <1>14, <3>2, <4>1, <4>2, SameForms DEF FormSound
    <3>3. QED
      BY <1>15, <3>1, <3>2
  <2>3. CallSound(d)'
    BY <1>1, <1>10, <1>11, SameForms DEF CallSound
  <2>4. QED
    BY <1>1, <2>1, <2>2, <2>3 DEF DeskSound
<1>18. KeepsSaved(d)'
  <2>1. \A s : KeepsOwn(d, s)' <=> KeepsOwn(d, s)
    BY <1>1 DEF KeepsOwn, history
  <2>2. CopiesKeepOwn(d) => CopiesKeepOwn(d)'
    <3>1. \A j \in Shown(family) \ {"own"} : j \in Keys
      BY <1>1, PagesAre DEF Keys
    <3>2. QED
      BY <1>1, <1>3, <1>6, <1>7, <2>1, <3>1 DEF CopiesKeepOwn, history
  <2>3. PairsKeepOwn(d) => PairsKeepOwn(d)'
    BY <1>1, <1>8, SameForms DEF PairsKeepOwn, history
  <2>4. \A g : ContentKeepsOwn(d, g) <=> ContentKeepsOwn(d, g)'
    BY <1>1, SameForms DEF ContentKeepsOwn, history
  <2>5. ASSUME Inline, page[d] = k
        PROVE  ContentKeepsOwn(d, f)
    <3>1. SUFFICES ASSUME ~f.behind
                   PROVE  /\ family # "preferences" => saved[d] \subseteq f.text
                          /\ Holds("switch") /\ ~f.chosen /\ stopper = d => ~f.on
      BY DEF ContentKeepsOwn
    <3>2. k = "list" /\ ~Holds("switch") /\ k \in Shown(family) \ {"own"} /\ ~r.gone
      BY <1>1, <1>2, <1>9, <2>5, LayoutIs, PagesAre DEF Deletes
    <3>3. "list" \notin unseen[d]
      BY <1>12, <1>14, <3>1
    <3>4. family # "preferences" => KeepsOwn(d, r)
      BY <1>1, <1>3, <3>2, <3>3 DEF KeepsSaved, CopiesKeepOwn
    <3>5. QED
      BY <1>14, <3>2, <3>4 DEF KeepsOwn
  <2>6. form'[d] # NoForm /\ (Asks => form'[d].touched) => ContentKeepsOwn(d, form[d])'
    <3>1. CASE form'[d] = form[d]
      BY <1>1, <2>4, <3>1 DEF KeepsSaved
    <3>2. CASE Inline /\ page[d] = k /\ form'[d] = f
      BY <2>4, <2>5, <3>2
    <3>3. QED
      BY <1>15, <3>1, <3>2
  <2>7. call'[d] # NoCall => call'[d] = call[d] /\ call[d].at # "settling"
    BY <1>11
  <2>8. call'[d].op = "form" /\ Loads(call'[d]) => ContentKeepsOwn(d, call[d])'
    <3>1. call'[d].op = "form" => call'[d] = call[d]
      BY <1>11 DEF NoCall
    <3>2. QED
      BY <1>1, <2>4, <3>1 DEF KeepsSaved
  <2>9. call'[d] # NoCall /\ form'[d] # NoForm /\ (call'[d].op # "form" \/ call'[d].left) => form'[d].behind
    <3>1. CASE form'[d] = form[d]
      BY <1>1, <2>7, <3>1 DEF KeepsSaved
    <3>2. CASE form'[d] = f
      <4>1. call'[d] # NoCall => call[d] \in Calls /\ call[d].at # "settling"
        BY <1>11, <2>7
      <4>2. call'[d] # NoCall => f.behind
        BY <1>12, <1>14, <4>1, CallIsCall
      <4>3. QED
        BY <3>2, <4>2
    <3>3. QED
      BY <1>15, <3>1, <3>2
  <2>10. QED
    BY <1>1, <2>2, <2>3, <2>6, <2>8, <2>9, SameForms DEF KeepsSaved, history
<1>19. (stopper # Nobody => ~row.on)'
  BY <1>1 DEF FormsInv, history
<1>20. ASSUME family = "day"
       PROVE  /\ \A x \in 1..edits : /\ Copied(d, x)' => Copied(d, x) \/ x \in row.text
                                     /\ Carried(d, x)' => Carried(d, x) \/ Copied(d, x)
              /\ DaySound(d)'
  <2>1. k = "list" /\ Inline
    BY <1>1, <1>2, <1>20, PagesAre, LayoutIs
  <2>2. \A x : Copied(d, x)' => Copied(d, x)
    BY <1>3, <1>6, <1>7, <2>1 DEF Copied
  <2>3. \A x : Carried(d, x)' => Carried(d, x) \/ Copied(d, x)
    <3>1. \A x \in r.text : Copied(d, x)
      BY <1>3, <1>9, <2>1 DEF Copied
    <3>2. QED
      BY <1>11, <1>14, <1>15, <3>1 DEF Carried
  <2>4. DaySound(d)
    BY DEF FormsInv
  <2>5. \A x : Fresh(d, x) => Fresh(d, x)'
    <3>1. \A y \in Desks \ {d} : \A x : (Copied(y, x)' <=> Copied(y, x)) /\ (Carried(y, x)' <=> Carried(y, x))
      BY <1>7, <1>11, <1>15 DEF Carried, Copied
    <3>2. QED
      BY <1>1, <2>2, <3>1 DEF Fresh
  <2>6. Typed(d)' # {} => form'[d] = form[d] /\ Typed(d)' = Typed(d)
    <3>1. CASE form'[d] = form[d]
      BY <3>1 DEF Typed
    <3>2. CASE form'[d] = f
      BY <1>14, <3>2 DEF Typed
    <3>3. QED
      BY <1>15, <3>1, <3>2
  \* A save that settles is in the month that comes back, or overwritten by another's.
  <2>7. call[d].at = "settling" => Typed(d)' = {}
    <3>1. SUFFICES ASSUME call[d].at = "settling", Typed(d)' # {}
                   PROVE  FALSE
      OBVIOUS
    <3>2. form'[d] = form[d] /\ form[d] # NoForm /\ form[d].typed # {} /\ Typed(d) # {}
      BY <2>6, <3>1 DEF Typed
    <3>3. call[d] # NoCall
      BY <3>1 DEF NoCall
    <3>4. Pending(d)
      BY <1>20, <2>4, <3>2, <3>3 DEF DaySound
    <3>5. News(d, r.text)
      BY <1>1, <1>3, <1>9, <2>1, <3>1, <3>4 DEF Pending
    <3>6. page[d] = k
      BY <1>1, <1>2, <1>20, <2>1, <3>2, <3>3, <3>4, PagesAre DEF FormSound
    <3>7. f.typed = {} /\ form[d] # f
      BY <1>14, <3>2
    <3>8. r.text = form[d].text \ form[d].typed
      BY <1>15, <1>20, <2>1, <3>2, <3>6, <3>7
    <3>9. form[d].typed \subseteq form[d].text
      BY <1>1, <3>2 DEF FormSound
    <3>10. r.text # form[d].text /\ r.text \ Known(d) = {}
      BY <3>2, <3>8, <3>9 DEF Known
    <3>11. QED
      BY <3>5, <3>10 DEF News
  <2>8. call'[d] = NoCall => \A x \in Typed(d)' : Fresh(d, x)'
    <3>1. CASE call[d].at = "settling"
      BY <2>7, <3>1
    <3>2. CASE call[d].at # "settling"
      BY <1>11, <1>20, <2>4, <2>5, <2>6, <3>2 DEF DaySound
    <3>3. QED
      BY <3>1, <3>2
  <2>9. call'[d].at = "loaded" =>
          /\ call'[d].typed # {} /\ call'[d].typed \subseteq call'[d].text
          /\ \A x \in call'[d].typed : Fresh(d, x)' /\ x \notin call'[d].row.text
    <3>1. call'[d].at = "loaded" => call'[d] = call[d]
      BY <1>11 DEF NoCall
    <3>2. QED
      BY <1>20, <2>4, <2>5, <3>1 DEF DaySound
  <2>10. call'[d] # NoCall /\ Typed(d)' # {} => Pending(d)'
    <3>1. SUFFICES ASSUME call'[d] # NoCall, Typed(d)' # {}
                   PROVE  Pending(d)'
      OBVIOUS
    <3>2. call'[d] = call[d] /\ call[d].at # "settling" /\ form'[d] = form[d] /\ Typed(d) # {} /\ form[d] # NoForm
      BY <1>11, <2>6, <3>1 DEF Typed
    <3>3. Pending(d)
      BY <1>20, <2>4, <3>1, <3>2 DEF DaySound
    <3>4. Known(d)' = Known(d)
      BY <1>1, <3>2 DEF Known, history
    <3>5. News(d, row.text) => News(d, row.text)'
      BY <1>1, <3>2, <3>4 DEF News
    <3>6. QED
      BY <3>2, <3>3, <3>5 DEF Pending
  <2>11. form'[d] # NoForm /\ ~form'[d].behind =>
           /\ call'[d].at # "settling" => cache'[d]["list"].fetch = "idle"
           /\ call'[d] # NoCall => call'[d].typed \subseteq form'[d].text
    <3>1. cache'[d]["list"].fetch = "idle"
      BY <1>6, <1>7, <2>1
    <3>2. CASE form'[d] = form[d]
      BY <1>11, <1>20, <2>4, <3>1, <3>2 DEF DaySound
    <3>3. CASE form'[d] = f
      <4>1. call'[d] # NoCall => call[d] \in Calls /\ call[d].at # "settling"
        BY <1>1, <1>11
      <4>2. call'[d] # NoCall => f.behind
        BY <1>12, <1>14, <4>1, CallIsCall
      <4>3. QED
        BY <3>1, <3>3, <4>2
    <3>4. QED
      BY <1>15, <3>2, <3>3
  <2>12. DaySound(d)'
    BY <2>8, <2>9, <2>10, <2>11 DEF DaySound
  <2>13. QED
    BY <2>2, <2>3, <2>12
<1>21. /\ call'[d].at = "stored" <=> call[d].at = "stored"
       /\ Stores(call'[d]) => Stores(call[d]) /\ call'[d].art = call[d].art
       /\ Loads(call'[d]) => Loads(call[d]) /\ call'[d].row.art = call[d].row.art
  BY <1>11 DEF Stores, Loads, NoCall
<1>22. QED
  BY <1>1, <1>7, <1>11, <1>15, <1>16, <1>17, <1>18, <1>19, <1>20, <1>21, BrowserChanges DEF history

-----------------------------------------------------------------------------
(* Saving.                                                                 *)

\* A request leaves, and loads the record.
LEMMA SendsKeep ==
  ASSUME FormsInv, NEW d \in Desks, NEW op \in {"form", "switch", "delete"}, NEW f \in Forms,
         Sends(d, Request(d, op, f)),
         page[d] \in Pages(family), f.text \subseteq 1..edits, f.typed \subseteq 1..edits,
         f.file => op = "form" /\ family = "template",
         op = "delete" => ~row.used,
         op = "switch" => f.chosen,
         op # "form" => f.typed = {} /\ family \in Deletes /\ form[d] = NoForm,
         Inline => cache[d]["list"].data # {},
         op = "form" => ContentKeepsOwn(d, f),
         family = "day" => /\ form[d] # NoForm
                           /\ f.text = form[d].text /\ f.typed = form[d].typed /\ f.typed # {}
  PROVE  FormsInv'
<1>1. PICK c : c = Request(d, op, f)
  OBVIOUS
<1>2. /\ FormsTypeOK /\ DeskSound(d) /\ KeepsSaved(d) /\ RecordSound /\ DOMAIN cache = Desks
      /\ family \in Families /\ call \in [Desks -> Calls \union {NoCall}] /\ row \in Record
      /\ page \in [Desks -> Keys \union {"away"}] /\ Pages(family) \subseteq {"list", "file"}
  BY PagesAre DEF FormsInv, FormsTypeOK
<1>3. /\ call[d] = NoCall /\ calls < MaxCalls /\ calls' = calls + 1 /\ ~row.gone
      /\ call' = [call EXCEPT ![d] = c]
      /\ UNCHANGED <<family, row, disk, page, cache, form, edits, arts, visits, history>>
  BY <1>1 DEF Sends
<1>4. /\ c.op = op /\ c.at = "loaded" /\ c.text = f.text /\ c.typed = f.typed /\ c.on = f.on
      /\ c.chosen = f.chosen /\ c.file = f.file /\ c.behind = f.behind /\ c.page = page[d]
      /\ c.left = FALSE /\ c.art = 0 /\ c.row = row
  BY <1>1 DEF Request
<1>5. c \in Calls
  <2>1. page[d] \in Keys
    BY <1>2 DEF Keys
  <2>2. /\ f.text \in SUBSET Edits /\ f.typed \in SUBSET Edits /\ f.on \in BOOLEAN /\ f.chosen \in BOOLEAN
        /\ f.file \in BOOLEAN /\ f.behind \in BOOLEAN
    BY DEF Forms
  <2>3. QED
    BY <1>1, <1>2, <2>1, <2>2 DEF Request, Calls
<1>6. call'[d] = c /\ c # NoCall /\ \A y \in Desks \ {d} : call'[y] = call[y]
  BY <1>2, <1>3, <1>5, CallIsCall
<1>7. FormsTypeOK'
  <2>1. call' \in [Desks -> Calls \union {NoCall}]
    BY <1>2, <1>3, <1>5
  <2>2. calls' \in 0..MaxCalls
    BY <1>2, <1>3, FormsBounds DEF FormsTypeOK
  <2>3. QED
    BY <1>2, <1>3, <2>1, <2>2 DEF FormsTypeOK, history
<1>8. DeskSound(d)'
  <2>1. CacheSound(d)' /\ FormSound(d)'
    BY <1>2, <1>3, SameForms DEF DeskSound, CacheSound, FormSound
  <2>2. CallSound(d)'
    BY <1>2, <1>3, <1>4, <1>6, SameForms DEF CallSound, RecordSound
  <2>3. QED
    BY <1>2, <1>3, <2>1, <2>2 DEF DeskSound
<1>9. KeepsSaved(d)'
  <2>1. \A r : KeepsOwn(d, r)' <=> KeepsOwn(d, r)
    BY <1>3 DEF KeepsOwn, history
  <2>2. CopiesKeepOwn(d) => CopiesKeepOwn(d)'
    BY <1>3, <2>1 DEF CopiesKeepOwn, history
  <2>3. PairsKeepOwn(d) => PairsKeepOwn(d)'
    BY <1>3, SameForms DEF PairsKeepOwn, history
  <2>4. \A g : ContentKeepsOwn(d, g) <=> ContentKeepsOwn(d, g)'
    BY <1>3, SameForms DEF ContentKeepsOwn, history
  <2>5. op = "form" => ContentKeepsOwn(d, c)
    BY <1>4 DEF ContentKeepsOwn
  <2>6. QED
    BY <1>2, <1>3, <1>4, <1>6, <2>2, <2>3, <2>4, <2>5, SameForms DEF KeepsSaved, history
<1>10. (stopper # Nobody => ~row.on)'
  BY <1>3 DEF FormsInv, history
<1>11. ASSUME family = "day"
       PROVE  /\ \A x \in 1..edits : /\ Copied(d, x)' => Copied(d, x) \/ x \in row.text
                                     /\ Carried(d, x)' => Carried(d, x) \/ Copied(d, x)
              /\ DaySound(d)'
  <2>1. DaySound(d) /\ Typed(d) = f.typed /\ Typed(d)' = f.typed /\ op = "form"
    BY <1>3, <1>11 DEF FormsInv, Typed, Deletes
  <2>2. f.typed \subseteq f.text
    BY <1>2, <1>11 DEF DeskSound, FormSound
  <2>3. \A x : (Copied(d, x)' <=> Copied(d, x)) /\ (Carried(d, x)' => Carried(d, x))
    BY <1>3, <1>4, <1>6, <1>11, <2>2 DEF Copied, Carried
  <2>4. \A x : Fresh(d, x) => Fresh(d, x)'
    <3>1. \A y \in Desks \ {d} : \A x : (Copied(y, x)' <=> Copied(y, x)) /\ (Carried(y, x)' <=> Carried(y, x))
      BY <1>3, <1>6 DEF Carried, Copied
    <3>2. QED
      BY <1>3, <2>3, <3>1 DEF Fresh
  <2>5. \A x \in f.typed : Fresh(d, x) /\ Fresh(d, x)'
    BY <1>3, <1>11, <2>1, <2>4 DEF DaySound
  <2>6. \A x \in f.typed : x \notin row.text
    BY <2>5 DEF Fresh
  <2>7. Pending(d)'
    BY <1>3, <1>4, <1>6, <1>11, <2>1 DEF Pending
  <2>8. ~form[d].behind => cache[d]["list"].fetch = "idle"
    BY <1>3, <1>11, <2>1, CallIsCall DEF DaySound, NoCall
  <2>9. DaySound(d)'
    BY <1>3, <1>4, <1>6, <1>11, <2>2, <2>5, <2>6, <2>7, <2>8 DEF DaySound
  <2>10. QED
    BY <2>3, <2>9
<1>12. /\ call'[d].at = "stored" <=> call[d].at = "stored"
       /\ Stores(call'[d]) => Stores(call[d]) /\ call'[d].art = call[d].art
       /\ Loads(call'[d]) => call'[d].row.art = row.art
  BY <1>3, <1>4, <1>6 DEF Stores, NoCall
<1>13. QED
  BY <1>2, <1>3, <1>6, <1>7, <1>8, <1>9, <1>10, <1>11, <1>12, BrowserChanges DEF history

LEMMA SubmitKeeps ==
  ASSUME FormsInv, NEW d \in Desks, Submit(d)
  PROVE  FormsInv'
<1>1. /\ FormsTypeOK /\ FormSound(d) /\ KeepsSaved(d) /\ family \in Families
      /\ form[d] # NoForm /\ Changed(form[d]) /\ form[d] \in Forms
  BY DEF Submit, FormsInv, FormsTypeOK, DeskSound
<1>2. PICK b \in BOOLEAN : b <=> form[d].behind \/ (Asks /\ ~form[d].touched /\ Behind(d, "own"))
  OBVIOUS
<1>3. PICK f : f = [form[d] EXCEPT !.text = Content(d), !.behind = @ \/ (Asks /\ ~form[d].touched /\ Behind(d, "own"))]
  OBVIOUS
<1>4. /\ Before(d) \subseteq 1..edits /\ (~Asks => Before(d) = form[d].text)
      /\ ~b => /\ family # "preferences" => saved[d] \subseteq Before(d)
               /\ Holds("switch") /\ ~form[d].chosen /\ stopper = d => ~form[d].on
  BY <1>1, <1>2, BeforeIs
<1>5. /\ family = "pairs" <=> Asks
      /\ Holds("switch") => family \in {"client", "template"}
      /\ family \in {"user", "pairs", "client", "template", "invoice", "day", "preferences"}
  BY <1>1, LayoutIs
<1>6. /\ Content(d) \subseteq 1..edits
      /\ family # "preferences" => Content(d) = Before(d)
  <2>1. Content(d) = IF family = "pairs" THEN Before(d)
                     ELSE IF family = "preferences" THEN form[d].typed ELSE form[d].text
    BY DEF Content
  <2>2. QED
    BY <1>1, <1>4, <1>5, <2>1 DEF FormSound
<1>7. 1..edits \subseteq Edits
  BY <1>1, FormsBounds DEF FormsTypeOK, Edits
<1>8. Content(d) \in SUBSET Edits
  BY <1>6, <1>7
<1>9. /\ f \in Forms /\ f.text = Content(d) /\ f.typed = form[d].typed /\ (f.behind <=> b)
      /\ f.on = form[d].on /\ f.chosen = form[d].chosen /\ f.file = form[d].file
  BY <1>1, <1>2, <1>3, <1>8 DEF Forms
<1>10. Sends(d, Request(d, "form", f))
  BY <1>3 DEF Submit
<1>11. ContentKeepsOwn(d, f)
  BY <1>4, <1>6, <1>9 DEF ContentKeepsOwn
<1>12. ASSUME family = "day"
       PROVE  f.text = form[d].text /\ f.typed # {}
  <2>1. ~Holds("switch") /\ ~Asks
    BY <1>5, <1>12
  <2>2. ~form[d].chosen /\ ~form[d].file
    BY <1>1, <1>12, <2>1 DEF FormSound
  <2>3. QED
    BY <1>1, <1>4, <1>6, <1>9, <1>12, <2>1, <2>2 DEF Changed
<1>13. /\ page[d] \in Pages(family) /\ f.text \subseteq 1..edits /\ f.typed \subseteq 1..edits
       /\ f.file => family = "template"
       /\ Inline => cache[d]["list"].data # {}
  BY <1>1, <1>6, <1>9 DEF FormSound
<1>14. QED
  BY <1>1, <1>9, <1>10, <1>11, <1>12, <1>13, SendsKeep

\* From a row's menu or card: no form is open, and it is an account or a template.
LEMMA MenuKeeps ==
  ASSUME FormsInv, NEW d \in Desks, Switch(d) \/ Remove(d)
  PROVE  FormsInv'
<1>1. /\ HasRow(d) /\ form[d] = NoForm /\ family \in Families
      /\ \E op \in {"switch", "delete"} : op \in PageOf(family, page[d]).offers
  BY DEF Switch, Remove, Offers, FormsInv, FormsTypeOK
<1>2. family \in Deletes
  BY <1>1, PagesAre
<1>3. ~Inline /\ family # "day"
  BY <1>1, <1>2, LayoutIs DEF Deletes
<1>4. /\ page[d] \in Pages(family) /\ RowOn(d).text \subseteq 1..edits
      /\ RowOn(d).text \in SUBSET Edits /\ RowOn(d).on \in BOOLEAN
  BY <1>1, RowOnIs
<1>5. PICK g : g = FormOf(RowOn(d), FALSE)
  OBVIOUS
<1>6. g \in Forms /\ g.text = RowOn(d).text /\ g.typed = {} /\ ~g.file
  BY <1>4, <1>5, FormOfIs
<1>7. CASE Switch(d)
  <2>1. PICK f : f = [g EXCEPT !.on = ~@, !.chosen = TRUE]
    OBVIOUS
  <2>2. f \in Forms /\ f.text = RowOn(d).text /\ f.typed = {} /\ ~f.file /\ f.chosen
    BY <1>6, <2>1 DEF Forms
  <2>3. Sends(d, Request(d, "switch", f))
    BY <1>5, <1>7, <2>1 DEF Switch
  <2>4. QED
    BY <1>1, <1>2, <1>3, <1>4, <2>2, <2>3, SendsKeep
<1>8. CASE Remove(d)
  <2>1. Sends(d, Request(d, "delete", g)) /\ ~row.used
    BY <1>5, <1>8 DEF Remove, Deletable
  <2>2. QED
    BY <1>1, <1>2, <1>3, <1>4, <1>6, <2>1, SendsKeep
<1>9. QED
  BY <1>7, <1>8

-----------------------------------------------------------------------------
(* The API.                                                                *)

\* The artwork of a template is stored or taken off the disk: the call notes it.
LEMMA NotesKeep ==
  ASSUME FormsInv, NEW d \in Desks, NEW n \in Calls,
         call' = [call EXCEPT ![d] = n], call[d].at = "loaded", n.at = "stored",
         Uploads(call[d]) \/ Unlinks(call[d]),
         /\ n.op = call[d].op /\ n.text = call[d].text /\ n.typed = call[d].typed /\ n.on = call[d].on
         /\ n.chosen = call[d].chosen /\ n.file = call[d].file /\ n.behind = call[d].behind
         /\ n.page = call[d].page /\ n.left = call[d].left /\ n.row = call[d].row,
         UNCHANGED <<family, row, page, cache, form, edits, calls, visits, history>>,
         arts' \in Nat \ {0}, disk' \subseteq 0..arts', ArtSound'
  PROVE  FormsInv'
<1>1. /\ FormsTypeOK /\ DeskSound(d) /\ KeepsSaved(d) /\ RecordSound /\ DOMAIN cache = Desks
      /\ family \in Families /\ call \in [Desks -> Calls \union {NoCall}] /\ edits \in 0..MaxEdits
  BY DEF FormsInv, FormsTypeOK
<1>2. call[d] # NoCall /\ n # NoCall
  BY CallIsCall DEF NoCall
<1>3. call'[d] = n /\ \A y \in Desks \ {d} : call'[y] = call[y]
  BY <1>1
<1>4. family = "template"
  BY <1>1, <1>2 DEF DeskSound, CallSound, Uploads, Unlinks
<1>5. FormsTypeOK'
  <2>1. call' \in [Desks -> Calls \union {NoCall}]
    BY <1>1
  <2>2. QED
    BY <1>1, <2>1 DEF FormsTypeOK, history
<1>6. StaysPut(d)
  <2>1. \A e \in Desks : saved[e] \subseteq row.text
    BY DEF FormsInv, KeepsSaved
  <2>2. QED
    BY <1>1, <1>3, <2>1, FormsBounds DEF StaysPut, history
<1>7. DeskSound(d)'
  <2>1. CacheSound(d)' /\ FormSound(d)'
    BY <1>1, SameForms DEF DeskSound, CacheSound, FormSound
  <2>2. Uploads(n) \/ Unlinks(n)
    BY DEF Uploads, Unlinks
  <2>3. (Uploads(call[d]) \/ Unlinks(call[d]))'
    BY <1>3, <2>2, SameForms DEF Uploads, Unlinks
  <2>4. CallSound(d)'
    BY <1>1, <1>2, <1>3, <1>4, <2>3, SameForms DEF DeskSound, CallSound
  <2>5. QED
    BY <1>1, <2>1, <2>4 DEF DeskSound
<1>8. KeepsSaved(d)'
  <2>1. \A r : KeepsOwn(d, r)' <=> KeepsOwn(d, r)
    BY DEF KeepsOwn, history
  <2>2. CopiesKeepOwn(d) => CopiesKeepOwn(d)'
    BY <2>1 DEF CopiesKeepOwn, history
  <2>3. PairsKeepOwn(d) => PairsKeepOwn(d)'
    BY SameForms DEF PairsKeepOwn, history
  <2>4. ContentKeepsOwn(d, form[d]) => ContentKeepsOwn(d, form[d])'
    BY SameForms DEF ContentKeepsOwn, history
  <2>5. ContentKeepsOwn(d, call[d]) => ContentKeepsOwn(d, call[d])'
    BY <1>3, SameForms DEF ContentKeepsOwn, history
  <2>6. QED
    BY <1>1, <1>2, <1>3, <2>2, <2>3, <2>4, <2>5, SameForms DEF KeepsSaved, Loads, history
<1>9. RecordSound' /\ (stopper # Nobody => ~row.on)'
  BY <1>1 DEF FormsInv, RecordSound, history
<1>10. family # "day" /\ DOMAIN cache' = Desks
  BY <1>1, <1>4
<1>11. QED
  BY <1>5, <1>6, <1>7, <1>8, <1>9, <1>10, Composed

\* The number of a stored artwork is new.
LEMMA StoreKeeps ==
  ASSUME FormsInv, NEW d \in Desks, Store(d)
  PROVE  FormsInv'
<1>1. /\ FormsTypeOK /\ ArtSound /\ call \in [Desks -> Calls \union {NoCall}]
      /\ arts \in Nat \ {0} /\ disk \subseteq 0..arts
      /\ call[d].at = "loaded" /\ Uploads(call[d])
      /\ arts' = arts + 1 /\ disk' = (disk \union {arts + 1}) \ {call[d].row.art}
      /\ UNCHANGED <<family, row, page, cache, form, edits, calls, visits, history>>
  BY DEF Store, FormsInv, FormsTypeOK
<1>2. PICK c \in Calls : c = call[d]
  BY <1>1 DEF NoCall
<1>2a. PICK a \in Nat : a = arts + 1
  BY <1>1
<1>3. PICK n : n = [c EXCEPT !.at = "stored", !.art = a]
  OBVIOUS
<1>4. /\ n \in Calls /\ n.at = "stored" /\ n.art = a
      /\ n.op = c.op /\ n.text = c.text /\ n.typed = c.typed /\ n.on = c.on
      /\ n.chosen = c.chosen /\ n.file = c.file /\ n.behind = c.behind
      /\ n.page = c.page /\ n.left = c.left /\ n.row = c.row
  BY <1>2a, <1>3 DEF Calls
<1>5. call' = [call EXCEPT ![d] = n]
  BY <1>1, <1>2, <1>2a, <1>3 DEF Store
<1>6. call'[d] = n /\ \A y \in Desks \ {d} : call'[y] = call[y]
  BY <1>1, <1>5
<1>7. /\ Loads(call[d]) /\ call[d].row.art <= arts
      /\ \A e \in Desks : Stores(call[e]) => call[e].art \in disk /\ call[e].art # call[d].row.art /\ call[e].art \in 0..arts
  BY <1>1 DEF ArtSound, Loads
<1>8. \A e \in Desks : Loads(call'[e]) => Loads(call[e]) /\ call'[e].row.art = call[e].row.art /\ call[e].row.art <= arts
  BY <1>1, <1>2, <1>4, <1>6, <1>7 DEF ArtSound
<1>8a. row \in Record /\ \A e \in Desks : Loads(call[e]) => call[e].row.art \in Nat
  BY <1>1, CallIsCall DEF FormsTypeOK, Loads, Calls, Record
<1>9. ArtSound'
  <2>1. (row.art <= arts)' /\ (\E e \in Desks : call[e].at = "stored")'
    BY <1>1, <1>4, <1>6, <1>8a DEF ArtSound, Record
  <2>2. (\A e \in Desks : Loads(call[e]) => call[e].row.art <= arts)'
    BY <1>1, <1>8, <1>8a
  <2>3. ASSUME NEW e \in Desks, Stores(call'[e])
        PROVE  /\ call'[e].art \in disk' /\ call'[e].art # row'.art
               /\ \A y \in Desks : Loads(call'[y]) => call'[y].row.art # call'[e].art
               /\ \A y \in Desks \ {e} : Stores(call'[y]) => call'[y].art # call'[e].art
    <3>1. CASE e = d
      <4>1. call'[e].art = arts + 1 /\ arts + 1 \in disk'
        BY <1>1, <1>2, <1>2a, <1>4, <1>6, <1>7, <1>8a, <3>1
      <4>2. row'.art # arts + 1
        BY <1>1, <1>8a DEF ArtSound, Record
      <4>3. \A y \in Desks : Loads(call'[y]) => call'[y].row.art # arts + 1
        BY <1>1, <1>8, <1>8a
      <4>4. \A y \in Desks \ {e} : Stores(call'[y]) => call'[y].art # arts + 1
        BY <1>1, <1>6, <1>7, <3>1
      <4>5. QED
        BY <4>1, <4>2, <4>3, <4>4
    <3>2. CASE e # d
      <4>1. call'[e] = call[e] /\ Stores(call[e])
        BY <1>6, <2>3, <3>2
      <4>2. /\ call[e].art \in disk /\ call[e].art # row.art
            /\ \A y \in Desks : Loads(call[y]) => call[y].row.art # call[e].art
            /\ \A y \in Desks \ {e} : Stores(call[y]) => call[y].art # call[e].art
        BY <1>1, <4>1 DEF ArtSound
      <4>3. call'[e].art \in disk'
        BY <1>1, <1>7, <4>1
      <4>4. \A y \in Desks : Loads(call'[y]) => call'[y].row.art # call'[e].art
        BY <1>8, <4>1, <4>2
      <4>5. \A y \in Desks \ {e} : Stores(call'[y]) => call'[y].art # call'[e].art
        BY <1>1, <1>2a, <1>4, <1>6, <1>7, <4>1, <4>2
      <4>6. QED
        BY <1>1, <4>1, <4>2, <4>3, <4>4, <4>5
    <3>3. QED
      BY <3>1, <3>2
  <2>4. QED
    BY <2>1, <2>2, <2>3 DEF ArtSound
<1>10. arts' \in Nat \ {0} /\ disk' \subseteq 0..arts'
  <2>1. arts + 1 \in 0..(arts + 1) /\ 0..arts \subseteq 0..(arts + 1) /\ arts + 1 \in Nat \ {0}
    BY <1>1
  <2>2. disk' \subseteq 0..(arts + 1)
    BY <1>1, <2>1
  <2>3. QED
    BY <1>1, <2>1, <2>2
<1>11. QED
  BY <1>1, <1>2, <1>4, <1>5, <1>9, <1>10, NotesKeep

LEMMA UnlinkKeeps ==
  ASSUME FormsInv, NEW d \in Desks, Unlink(d)
  PROVE  FormsInv'
<1>1. /\ FormsTypeOK /\ ArtSound /\ call \in [Desks -> Calls \union {NoCall}]
      /\ arts \in Nat \ {0} /\ disk \subseteq 0..arts
      /\ call[d].at = "loaded" /\ Unlinks(call[d])
      /\ disk' = disk \ {call[d].row.art}
      /\ UNCHANGED <<family, row, page, cache, form, edits, arts, calls, visits, history>>
  BY DEF Unlink, FormsInv, FormsTypeOK
<1>2. PICK c \in Calls : c = call[d]
  BY <1>1 DEF NoCall
<1>3. PICK n : n = [c EXCEPT !.at = "stored"]
  OBVIOUS
<1>4. /\ n \in Calls /\ n.at = "stored" /\ n.art = c.art
      /\ n.op = c.op /\ n.text = c.text /\ n.typed = c.typed /\ n.on = c.on
      /\ n.chosen = c.chosen /\ n.file = c.file /\ n.behind = c.behind
      /\ n.page = c.page /\ n.left = c.left /\ n.row = c.row
  BY <1>2, <1>3 DEF Calls
<1>5. call' = [call EXCEPT ![d] = n]
  BY <1>1, <1>2, <1>3 DEF Unlink
<1>6. call'[d] = n /\ \A y \in Desks \ {d} : call'[y] = call[y]
  BY <1>1, <1>5
<1>7. Loads(call[d]) /\ ~Stores(call'[d])
  BY <1>1, <1>2, <1>4, <1>6 DEF Loads, Stores, Unlinks
<1>8. \A e \in Desks : Loads(call'[e]) => Loads(call[e]) /\ call'[e].row.art = call[e].row.art
  BY <1>2, <1>4, <1>6, <1>7
<1>9. ArtSound'
  <2>1. (row.art <= arts)' /\ (\E e \in Desks : call[e].at = "stored")'
    BY <1>1, <1>4, <1>6 DEF ArtSound
  <2>2. (\A e \in Desks : Loads(call[e]) => call[e].row.art <= arts)'
    BY <1>1, <1>8 DEF ArtSound
  <2>3. ASSUME NEW e \in Desks, Stores(call'[e])
        PROVE  /\ call'[e].art \in disk' /\ call'[e].art # row'.art
               /\ \A y \in Desks : Loads(call'[y]) => call'[y].row.art # call'[e].art
               /\ \A y \in Desks \ {e} : Stores(call'[y]) => call'[y].art # call'[e].art
    <3>1. e # d /\ call'[e] = call[e] /\ Stores(call[e])
      BY <1>6, <1>7, <2>3
    <3>2. /\ call[e].art \in disk /\ call[e].art # row.art
          /\ \A y \in Desks : Loads(call[y]) => call[y].row.art # call[e].art
          /\ \A y \in Desks \ {e} : Stores(call[y]) => call[y].art # call[e].art
      BY <1>1, <3>1 DEF ArtSound
    <3>3. QED
      BY <1>1, <1>6, <1>7, <1>8, <3>1, <3>2
  <2>4. QED
    BY <2>1, <2>2, <2>3 DEF ArtSound
<1>10. arts' \in Nat \ {0} /\ disk' \subseteq 0..arts'
  BY <1>1
<1>11. QED
  BY <1>1, <1>2, <1>4, <1>5, <1>9, <1>10, NotesKeep

\* A project takes the template: no window has anything to do with it.
LEMMA UseKeeps ==
  ASSUME FormsInv, Use
  PROVE  FormsInv'
<1>1. /\ FormsTypeOK /\ RecordSound /\ ArtSound /\ row \in Record
      /\ family = "template" /\ ~row.gone /\ row' = [row EXCEPT !.used = TRUE]
      /\ UNCHANGED <<family, disk, page, cache, form, call, edits, arts, calls, visits, history>>
  BY DEF Use, FormsInv, FormsTypeOK
<1>2. row' \in Record /\ row'.text = row.text /\ row'.on = row.on /\ row'.art = row.art /\ row'.gone = row.gone
  BY <1>1 DEF Record
<1>3. FormsTypeOK'
  BY <1>1, <1>2 DEF FormsTypeOK, history
<1>4. RecordSound' /\ (stopper # Nobody => ~row.on)' /\ DOMAIN cache' = Desks
  BY <1>1, <1>2 DEF FormsInv, RecordSound, history
<1>5. ArtSound'
  BY <1>1, <1>2, ArtGoesOn DEF history
<1>6. ASSUME NEW d \in Desks
      PROVE  DeskSound(d)' /\ KeepsSaved(d)' /\ DaySound(d)'
  <2>1. DeskSound(d) /\ KeepsSaved(d) /\ edits' \in Nat /\ edits <= edits' /\ saved[d] \subseteq row'.text
    BY <1>1, <1>2, FormsBounds DEF FormsInv, FormsTypeOK, KeepsSaved
  <2>2. DeskSound(d)'
    BY <1>1, <2>1, SoundGoesOn
  <2>3. KeepsSaved(d)'
    BY <1>1, <2>1, SavedGoesOn DEF history
  <2>4. DaySound(d)'
    BY <1>1 DEF DaySound
  <2>5. QED
    BY <2>2, <2>3, <2>4
<1>7. QED
  BY <1>3, <1>4, <1>5, <1>6 DEF FormsInv

\* What a save makes of the record.
LEMMA TextIs ==
  ASSUME FormsInv, NEW d \in Desks, call[d] # NoCall
  PROVE  /\ Text(call[d]) \subseteq 1..edits /\ Text(call[d]) \in SUBSET Edits
         /\ family = "pairs" => Text(call[d]) = (row.text \ call[d].row.text) \union call[d].text
         /\ family = "invoice" => Text(call[d]) = call[d].text
         /\ family = "preferences" => Text(call[d]) = row.text \union call[d].text
         /\ family \notin {"pairs", "invoice", "preferences"} =>
              Text(call[d]) = IF call[d].text = call[d].row.text THEN row.text ELSE call[d].text
<1>1. /\ call[d].text \subseteq 1..edits /\ call[d].row.text \subseteq 1..edits /\ row.text \subseteq 1..edits
      /\ edits \in 0..MaxEdits /\ family \in Families
  BY DEF FormsInv, FormsTypeOK, RecordSound, DeskSound, CallSound
<1>2. family \in {"user", "pairs", "client", "template", "invoice", "day", "preferences"}
  BY <1>1, LayoutIs
<1>3. /\ family = "pairs" => Text(call[d]) = (row.text \ call[d].row.text) \union call[d].text
      /\ family = "invoice" => Text(call[d]) = call[d].text
      /\ family = "preferences" => Text(call[d]) = row.text \union call[d].text
      /\ family \notin {"pairs", "invoice", "preferences"} =>
           Text(call[d]) = IF call[d].text = call[d].row.text THEN row.text ELSE call[d].text
  BY <1>2 DEF Text, Set
<1>4. Text(call[d]) \subseteq 1..edits
  BY <1>1, <1>3
<1>5. 1..edits \subseteq Edits
  BY <1>1, FormsBounds DEF Edits
<1>6. QED
  BY <1>3, <1>4, <1>5

LEMMA RowAfterIs ==
  ASSUME FormsInv, NEW d \in Desks, NEW c \in Calls, c = call[d]
  PROVE  /\ RowAfter(c) \in Record
         /\ RowAfter(c).text = IF c.op = "form" THEN Text(c) ELSE row.text
         /\ RowAfter(c).text \subseteq 1..edits
         /\ RowAfter(c).on = IF (c.op = "form" /\ Holds("switch")) \/ c.op = "switch"
                             THEN (IF c.on = c.row.on THEN row.on ELSE c.on) ELSE row.on
         /\ RowAfter(c).art = IF c.op = "form" /\ c.file THEN c.art ELSE row.art
         /\ RowAfter(c).gone <=> c.op = "delete" \/ row.gone
         /\ RowAfter(c).used = row.used
<1>1. /\ row \in Record /\ call[d] # NoCall /\ row.text \subseteq 1..edits
      /\ c.op \in {"form", "switch", "delete"} /\ c.on \in BOOLEAN /\ c.row \in Record /\ c.art \in Nat
      /\ c.file \in BOOLEAN
  BY CallIsCall DEF FormsInv, FormsTypeOK, RecordSound, Calls
<1>2. Text(c) \subseteq 1..edits /\ Text(c) \in SUBSET Edits
  BY <1>1, TextIs
<1>3. PICK on : on = IF c.on = c.row.on THEN row.on ELSE c.on
  OBVIOUS
<1>4. on \in BOOLEAN /\ on = Set(c.on, c.row.on, row.on)
  BY <1>1, <1>3 DEF Set, Record
<1>5. CASE c.op = "form"
  <2>1. PICK t \in SUBSET Edits : t = Text(c)
    BY <1>2
  <2>2. PICK s : s = IF Holds("switch") THEN on ELSE row.on
    OBVIOUS
  <2>3. PICK a : a = IF c.file THEN c.art ELSE row.art
    OBVIOUS
  <2>4. s \in BOOLEAN /\ a \in Nat
    BY <1>1, <1>4, <2>2, <2>3 DEF Record
  <2>5. PICK r : r = [row EXCEPT !.text = t, !.on = s, !.art = a]
    OBVIOUS
  <2>6. /\ r \in Record /\ r.text = t /\ r.on = s /\ r.art = a /\ r.gone = row.gone /\ r.used = row.used
    BY <1>1, <2>1, <2>4, <2>5 DEF Record
  <2>7. RowAfter(c) = FormRow(c)
    BY <1>5 DEF RowAfter
  <2>8. FormRow(c) = r
    BY <1>4, <2>1, <2>2, <2>3, <2>5 DEF FormRow
  <2>9. QED
    BY <1>1, <1>2, <1>3, <1>5, <2>1, <2>2, <2>3, <2>6, <2>7, <2>8
<1>6. CASE c.op = "switch"
  <2>1. PICK r : r = [row EXCEPT !.on = on]
    OBVIOUS
  <2>2. /\ r \in Record /\ r.text = row.text /\ r.on = on /\ r.art = row.art /\ r.gone = row.gone /\ r.used = row.used
    BY <1>1, <1>4, <2>1 DEF Record
  <2>3. RowAfter(c) = r
    BY <1>4, <1>6, <2>1 DEF RowAfter
  <2>4. QED
    BY <1>1, <1>3, <1>6, <2>2, <2>3
<1>7. CASE c.op = "delete"
  <2>1. PICK r : r = [row EXCEPT !.gone = TRUE]
    OBVIOUS
  <2>2. /\ r \in Record /\ r.text = row.text /\ r.on = row.on /\ r.art = row.art /\ r.gone = TRUE /\ r.used = row.used
    BY <1>1, <2>1 DEF Record
  <2>3. RowAfter(c) = r
    BY <1>7, <2>1 DEF RowAfter
  <2>4. QED
    BY <1>1, <1>7, <2>2, <2>3
<1>8. QED
  BY <1>1, <1>5, <1>6, <1>7

LEMMA DoneIs ==
  ASSUME NEW c \in Calls, NEW r \in Record, New \in Record
  PROVE  /\ Done(c, r) \in Calls
         /\ Done(c, r).at = "done" /\ Done(c, r).text = {} /\ ~Done(c, r).file
         /\ Done(c, r).typed = c.typed /\ Done(c, r).op = c.op /\ Done(c, r).on = c.on
         /\ Done(c, r).chosen = c.chosen /\ Done(c, r).page = c.page /\ Done(c, r).left = c.left
         /\ Done(c, r).row = IF family = "preferences" THEN r ELSE New
<1>1. PICK s \in Record : s = IF family = "preferences" THEN r ELSE New
  OBVIOUS
<1>2. PICK n : n = [c EXCEPT !.at = "done", !.text = {}, !.file = FALSE, !.art = 0, !.behind = FALSE, !.row = s]
  OBVIOUS
<1>3. /\ n \in Calls /\ n.at = "done" /\ n.text = {} /\ ~n.file /\ n.typed = c.typed /\ n.op = c.op
      /\ n.on = c.on /\ n.chosen = c.chosen /\ n.page = c.page /\ n.left = c.left /\ n.row = s
  BY <1>2 DEF Calls
<1>4. Done(c, r) = n
  BY <1>1, <1>2 DEF Done
<1>5. QED
  BY <1>1, <1>3, <1>4

LEMMA NewIs ==
  New \in Record /\ New.text = {} /\ ~New.gone /\ ~New.used /\ New.on
BY DEF New, Record

\* A save that the database refuses: what it took off the disk is the artwork of a template
\* that is gone, or that a project took meanwhile.
LEMMA RefusedKeeps ==
  ASSUME FormsInv, NEW d \in Desks, SaveRecord(d), Fails(call[d])
  PROVE  FormsInv'
<1>1. /\ FormsTypeOK /\ DeskSound(d) /\ KeepsSaved(d) /\ RecordSound /\ ArtSound /\ DOMAIN cache = Desks
      /\ family \in Families /\ call \in [Desks -> Calls \union {NoCall}]
      /\ call' = [call EXCEPT ![d] = NoCall]
      /\ raced' = (raced \/ (call[d].op = "delete" /\ row.used /\ ~call[d].row.used))
      /\ UNCHANGED <<family, row, disk, page, cache, form, edits, arts, calls, visits, saved, unseen, stopper>>
  BY DEF SaveRecord, FormsInv, FormsTypeOK
<1>2. call'[d] = NoCall /\ \A y \in Desks \ {d} : call'[y] = call[y]
  BY <1>1
<1>3. PICK c \in Calls : c = call[d] /\ call[d] # NoCall
  BY <1>1 DEF SaveRecord, Ready
<1>4. family \in {"pairs", "template"} /\ family # "day"
  BY DEF SaveRecord, Fails
<1>5. FormsTypeOK'
  <2>1. call' \in [Desks -> Calls \union {NoCall}] /\ raced' \in BOOLEAN
    BY <1>1 DEF FormsTypeOK
  <2>2. QED
    BY <1>1, <2>1 DEF FormsTypeOK
<1>6. DeskSound(d)'
  <2>1. CacheSound(d)' /\ FormSound(d)'
    BY <1>1, SameForms DEF DeskSound, CacheSound, FormSound
  <2>2. CallSound(d)'
    BY <1>2 DEF CallSound
  <2>3. QED
    BY <1>1, <2>1, <2>2 DEF DeskSound
<1>7. KeepsSaved(d)'
  <2>1. \A r : KeepsOwn(d, r)' <=> KeepsOwn(d, r)
    BY <1>1 DEF KeepsOwn
  <2>2. CopiesKeepOwn(d) => CopiesKeepOwn(d)'
    BY <1>1, <2>1 DEF CopiesKeepOwn
  <2>3. PairsKeepOwn(d) => PairsKeepOwn(d)'
    BY <1>1, SameForms DEF PairsKeepOwn
  <2>4. \A g : ContentKeepsOwn(d, g) <=> ContentKeepsOwn(d, g)'
    BY <1>1, SameForms DEF ContentKeepsOwn
  <2>5. QED
    BY <1>1, <1>2, <2>2, <2>3, <2>4, SameForms DEF KeepsSaved, NoCall
<1>8. RecordSound' /\ (stopper # Nobody => ~row.on)' /\ DOMAIN cache' = Desks
  BY <1>1 DEF FormsInv, RecordSound
<1>9. ArtSound'
  <2>1. (row.gone \/ raced \/ row.art \in disk \/ \E e \in Desks : call[e].at = "stored")'
    <3>1. CASE call[d].at # "stored"
      <4>1. (\E e \in Desks : call[e].at = "stored") => \E e \in Desks : call'[e].at = "stored"
        BY <1>2, <3>1
      <4>2. QED
        BY <1>1, <4>1 DEF ArtSound
    <3>2. CASE call[d].at = "stored"
      <4>1. Uploads(call[d]) \/ Unlinks(call[d])
        BY <1>1, <1>3, <3>2 DEF DeskSound, CallSound
      <4>2. family = "template"
        BY <1>1, <1>3, <4>1 DEF DeskSound, CallSound, Uploads, Unlinks
      <4>3. row.gone \/ (call[d].op = "delete" /\ row.used)
        BY <4>2 DEF Fails
      <4>4. call[d].op = "delete" => ~call[d].row.used
        BY <1>1, <1>3 DEF DeskSound, CallSound
      <4>5. QED
        BY <1>1, <4>3, <4>4
    <3>3. QED
      BY <3>1, <3>2
  <2>2. \A e \in Desks : /\ Loads(call'[e]) => Loads(call[e]) /\ call'[e] = call[e]
                         /\ Stores(call'[e]) => Stores(call[e]) /\ call'[e] = call[e]
    BY <1>2 DEF Loads, Stores, NoCall
  <2>3. (row.art <= arts)' /\ (\A e \in Desks : Loads(call[e]) => call[e].row.art <= arts)'
    BY <1>1, <2>2 DEF ArtSound
  <2>4. ASSUME NEW e \in Desks, Stores(call'[e])
        PROVE  /\ call'[e].art \in disk' /\ call'[e].art # row'.art
               /\ \A y \in Desks : Loads(call'[y]) => call'[y].row.art # call'[e].art
               /\ \A y \in Desks \ {e} : Stores(call'[y]) => call'[y].art # call'[e].art
    BY <1>1, <2>2, <2>4 DEF ArtSound
  <2>5. QED
    BY <2>1, <2>3, <2>4 DEF ArtSound
<1>10. StaysPut(d)
  <2>1. \A e \in Desks : saved[e] \subseteq row.text
    BY DEF FormsInv, KeepsSaved
  <2>2. edits \in 0..MaxEdits
    BY <1>1 DEF FormsTypeOK
  <2>3. QED
    BY <1>1, <1>2, <2>1, <2>2, FormsBounds DEF StaysPut
<1>11. QED
  BY <1>4, <1>5, <1>6, <1>7, <1>8, <1>9, <1>10, Composed

\* A save that goes through: the others have no hand in it, and whoever was told of less
\* than the record had is told of less still.
LEMMA WrittenKeeps ==
  ASSUME FormsInv, NEW d \in Desks, SaveRecord(d), ~Fails(call[d])
  PROVE  FormsInv'
<1>1. /\ FormsTypeOK /\ DeskSound(d) /\ KeepsSaved(d) /\ RecordSound /\ ArtSound /\ DOMAIN cache = Desks
      /\ family \in Families /\ call \in [Desks -> Calls \union {NoCall}] /\ edits \in 0..MaxEdits
      /\ saved \in [Desks -> SUBSET (1..edits)] /\ disk \subseteq 0..arts /\ arts \in Nat
      /\ Ready(call[d]) /\ row' = RowAfter(call[d])
      /\ call' = [call EXCEPT ![d] = Done(call[d], row')]
      /\ saved' = [e \in Desks |-> saved[e] \intersect row'.text]
      /\ stopper' = IF row'.on THEN Nobody ELSE stopper
      /\ raced' = (raced \/ (call[d].op = "delete" /\ row.used /\ ~call[d].row.used))
      /\ UNCHANGED <<family, disk, page, cache, form, edits, arts, calls, visits, unseen>>
  BY DEF SaveRecord, FormsInv, FormsTypeOK
<1>2. PICK c \in Calls : c = call[d] /\ call[d] # NoCall
  BY <1>1 DEF Ready
<1>3. PICK s \in Record :
        /\ s = row'
        /\ s.text = IF c.op = "form" THEN Text(c) ELSE row.text
        /\ s.text \subseteq 1..edits
        /\ s.art = IF c.op = "form" /\ c.file THEN c.art ELSE row.art
        /\ s.gone <=> c.op = "delete" \/ row.gone
  BY <1>1, <1>2, RowAfterIs
<1>4. PICK n : n = Done(c, s)
  OBVIOUS
<1>5. /\ n \in Calls /\ n # NoCall /\ n.at = "done" /\ n.text = {} /\ ~n.file
      /\ n.typed = c.typed /\ n.op = c.op /\ n.on = c.on
      /\ n.chosen = c.chosen /\ n.page = c.page /\ n.left = c.left
      /\ n.row = IF family = "preferences" THEN s ELSE New
  <2>1. New \in Record
    BY NewIs
  <2>2. /\ n \in Calls /\ n.at = "done" /\ n.text = {} /\ ~n.file
        /\ n.typed = c.typed /\ n.op = c.op /\ n.on = c.on
        /\ n.chosen = c.chosen /\ n.page = c.page /\ n.left = c.left
        /\ n.row = IF family = "preferences" THEN s ELSE New
    BY <1>4, <2>1, DoneIs
  <2>3. QED
    BY <2>2, CallIsCall
<1>6. call'[d] = n /\ (\A y \in Desks \ {d} : call'[y] = call[y]) /\ call' \in [Desks -> Calls \union {NoCall}]
  BY <1>1, <1>2, <1>3, <1>4, <1>5
<1>7. /\ \A e \in Desks : saved'[e] = saved[e] \intersect row'.text /\ saved'[e] \subseteq saved[e]
      /\ saved' \in [Desks -> SUBSET (1..edits)]
  BY <1>1
<1>8. \A e \in Desks : stopper' = e => stopper = e
  BY <1>1, NobodyAssumption DEF Nobody
<1>9. FormsTypeOK'
  <2>1. raced' \in BOOLEAN /\ stopper' \in Desks \union {Nobody}
    BY <1>1 DEF FormsTypeOK
  <2>2. QED
    BY <1>1, <1>3, <1>6, <1>7, <2>1 DEF FormsTypeOK
<1>10. RecordSound'
  BY <1>1, <1>2, <1>3 DEF RecordSound, DeskSound, CallSound
<1>11. StaysPut(d)
  BY <1>1, <1>6, <1>7, <1>8, FormsBounds DEF StaysPut
<1>12. ArtSound'
  <2>1. c.op = "form" /\ c.file => Stores(c) /\ Stores(call[d])
    BY <1>1, <1>2 DEF Ready, Uploads, Stores
  <2>2. c.at = "stored" => (c.op = "form" /\ c.file) \/ c.op = "delete"
    BY <1>1, <1>2 DEF Ready, Uploads, Unlinks
  <2>3. \A e \in Desks : /\ Loads(call'[e]) => e # d /\ Loads(call[e]) /\ call'[e] = call[e]
                         /\ Stores(call'[e]) => e # d /\ Stores(call[e]) /\ call'[e] = call[e]
    BY <1>5, <1>6 DEF Loads, Stores
  <2>4. /\ row.art \in Nat /\ row.art <= arts
        /\ Stores(call[d]) => /\ c.art \in disk /\ \A e \in Desks : Loads(call[e]) => call[e].row.art # c.art
                              /\ \A e \in Desks \ {d} : Stores(call[e]) => call[e].art # c.art
    BY <1>1, <1>2 DEF ArtSound, FormsTypeOK, Record
  <2>5. (row.art <= arts)'
    BY <1>1, <1>2, <1>3, <2>1, <2>4
  <2>6. (row.gone \/ raced \/ row.art \in disk \/ \E e \in Desks : call[e].at = "stored")'
    <3>1. CASE c.op = "form" /\ c.file
      BY <1>1, <1>3, <2>1, <2>4, <3>1
    <3>2. CASE c.op = "delete"
      BY <1>3, <3>2
    <3>3. CASE ~(c.op = "form" /\ c.file) /\ c.op # "delete"
      <4>1. row'.art = row.art /\ (row.gone => row'.gone) /\ call[d].at # "stored"
        BY <1>2, <1>3, <2>2, <3>3
      <4>2. (\E e \in Desks : call[e].at = "stored") => \E e \in Desks : call'[e].at = "stored"
        BY <1>6, <4>1
      <4>3. QED
        BY <1>1, <4>1, <4>2 DEF ArtSound
    <3>4. QED
      BY <3>1, <3>2, <3>3
  <2>7. (\A e \in Desks : Loads(call[e]) => call[e].row.art <= arts)'
    BY <1>1, <2>3 DEF ArtSound
  <2>8. ASSUME NEW e \in Desks, Stores(call'[e])
        PROVE  /\ call'[e].art \in disk' /\ call'[e].art # row'.art
               /\ \A y \in Desks : Loads(call'[y]) => call'[y].row.art # call'[e].art
               /\ \A y \in Desks \ {e} : Stores(call'[y]) => call'[y].art # call'[e].art
    <3>1. e # d /\ Stores(call[e]) /\ call'[e] = call[e]
      BY <2>3, <2>8
    <3>2. /\ call[e].art \in disk /\ call[e].art # row.art
          /\ \A y \in Desks : Loads(call[y]) => call[y].row.art # call[e].art
          /\ \A y \in Desks \ {e} : Stores(call[y]) => call[y].art # call[e].art
      BY <1>1, <3>1 DEF ArtSound
    <3>3. call[e].art # row'.art
      BY <1>3, <2>1, <2>4, <3>1, <3>2
    <3>4. QED
      BY <1>1, <2>3, <3>1, <3>2, <3>3
  <2>9. QED
    BY <2>5, <2>6, <2>7, <2>8 DEF ArtSound
<1>13. DeskSound(d)'
  <2>1. CacheSound(d)' /\ FormSound(d)'
    BY <1>1, SameForms DEF DeskSound, CacheSound, FormSound
  <2>2. /\ n.row.text \subseteq 1..edits /\ (n.row.gone => family \in Deletes)
        /\ n.op = "delete" => ~n.row.used
    <3>1. CASE family = "preferences"
      <4>1. n.op = "form"
        BY <1>1, <1>2, <1>5, <3>1 DEF DeskSound, CallSound, Deletes
      <4>2. QED
        BY <1>1, <1>3, <1>5, <1>10, <3>1, <4>1 DEF RecordSound
    <3>2. CASE family # "preferences"
      BY <1>5, <3>2, NewIs
    <3>3. QED
      BY <3>1, <3>2
  <2>3. CallSound(d)'
    BY <1>1, <1>2, <1>5, <1>6, <2>2, SameForms DEF DeskSound, CallSound
  <2>4. QED
    BY <1>1, <2>1, <2>3 DEF DeskSound
<1>14. KeepsSaved(d)'
  <2>1. \A r : KeepsOwn(d, r) => KeepsOwn(d, r)'
    BY <1>7, <1>8 DEF KeepsOwn
  <2>2. CopiesKeepOwn(d) => CopiesKeepOwn(d)'
    BY <1>1, <2>1 DEF CopiesKeepOwn
  <2>3. PairsKeepOwn(d) => PairsKeepOwn(d)'
    BY <1>1, <1>7, SameForms DEF PairsKeepOwn
  <2>4. ContentKeepsOwn(d, form[d]) => ContentKeepsOwn(d, form[d])'
    BY <1>1, <1>7, <1>8, SameForms DEF ContentKeepsOwn
  <2>5. QED
    BY <1>1, <1>2, <1>5, <1>6, <1>7, <2>2, <2>3, <2>4, SameForms DEF KeepsSaved, Loads
<1>15. (stopper # Nobody => ~row.on)'
  BY <1>1
<1>16. ASSUME family = "day"
       PROVE  /\ Brings(d) /\ DaySound(d)'
              /\ \A e \in Desks \ {d} : row'.text = row.text \/ row'.text \ Known(e) # {}
  <2>1. c.op = "form" /\ c.at = "loaded"
    BY <1>1, <1>2, <1>16 DEF DeskSound, CallSound, Deletes, Ready, Uploads, Unlinks
  <2>2. DaySound(d)
    BY DEF FormsInv
  <2>3. /\ c.typed # {} /\ c.typed \subseteq c.text
        /\ \A x \in c.typed : Fresh(d, x) /\ x \notin c.row.text
    BY <1>2, <1>16, <2>1, <2>2 DEF DaySound
  <2>4. row'.text = c.text
    <3>1. c.text # c.row.text
      BY <2>3
    <3>2. Text(c) = c.text
      BY <1>2, <1>16, <3>1, TextIs
    <3>3. QED
      BY <1>3, <2>1, <3>2
  <2>5. Brings(d)
    <3>1. \A x \in 1..edits : x \in row'.text => Carried(d, x)
      BY <1>2, <2>4 DEF Carried
    <3>2. \A x \in 1..edits : Copied(d, x)' <=> Copied(d, x)
      BY <1>1 DEF Copied
    <3>3. \A x \in 1..edits : Carried(d, x)' => Carried(d, x)
      BY <1>1, <1>2, <1>5, <1>6 DEF Carried
    <3>4. QED
      BY <3>1, <3>2, <3>3 DEF Brings
  <2>6. ASSUME NEW e \in Desks \ {d}
        PROVE  row'.text \ Known(e) # {}
    <3>1. PICK x \in c.typed : TRUE
      BY <2>3
    <3>2. x \in row'.text /\ ~Carried(e, x) /\ x \notin row.text
      BY <2>3, <2>4, <3>1 DEF Fresh
    <3>3. x \notin saved[e]
      BY <3>2 DEF FormsInv, KeepsSaved
    <3>4. x \notin Known(e)
      BY <3>2, <3>3 DEF Known, Carried
    <3>5. QED
      BY <3>2, <3>4
  <2>7. Typed(d)' = Typed(d)
    BY <1>1 DEF Typed
  <2>8. Typed(d) # {} => Pending(d)'
    <3>1. SUFFICES ASSUME Typed(d) # {}
                   PROVE  Pending(d)'
      OBVIOUS
    <3>2. Pending(d)
      BY <1>2, <1>16, <2>2, <3>1 DEF DaySound
    <3>3. row'.text = form[d].text
      BY <1>2, <2>1, <2>4, <3>2 DEF Pending
    <3>4. News(d, row.text)'
      BY <1>1, <3>3 DEF News
    <3>5. QED
      BY <1>1, <1>2, <1>5, <1>6, <3>2, <3>4 DEF Pending
  <2>9. form[d] # NoForm /\ ~form[d].behind => cache[d]["list"].fetch = "idle" /\ c.typed \subseteq form[d].text
    BY <1>2, <1>16, <2>1, <2>2 DEF DaySound
  <2>10. DaySound(d)'
    BY <1>1, <1>5, <1>6, <2>7, <2>8, <2>9 DEF DaySound
  <2>11. QED
    BY <2>5, <2>6, <2>10
<1>17. DOMAIN cache' = Desks
  BY <1>1
<1>18. QED
  BY <1>9, <1>10, <1>11, <1>12, <1>13, <1>14, <1>15, <1>16, <1>17, Composed

-----------------------------------------------------------------------------
(* The answer.                                                             *)

\* What a save makes of the answered desk's queries: those it renews are asked again, or
\* flagged; the record itself is put into the preferences' one.
LEMMA AnswerEntries ==
  ASSUME FormsInv, NEW d \in Desks, Answer(d)
  PROVE  /\ DOMAIN cache' = Desks /\ DOMAIN cache'[d] = Keys
         /\ cache'[d]["own"] = cache[d]["own"]
         /\ \A y \in Desks \ {d} : cache'[y] = cache[y]
         /\ \A y \in Desks : /\ \A j \in Keys \ {"own"} : cache'[y][j] \in Entry(Copies)
                             /\ cache'[y]["own"] \in Entry(SUBSET Edits)
         /\ \A k \in Keys \ {"own"} :
              /\ \/ cache'[d][k].data = cache[d][k].data
                 \/ /\ family = "preferences" /\ k = "list"
                    /\ cache'[d][k].data = {Copy(call[d].row)}
              /\ \/ cache'[d][k].fetch = cache[d][k].fetch /\ cache'[d][k].reply = cache[d][k].reply
                 \/ k \in Renews(call[d].page) /\ cache'[d][k].fetch = "asked" /\ cache'[d][k].reply = {}
         /\ family # "preferences" => \A k \in Keys \ {"own"} :
              /\ k \notin Renews(call[d].page) => cache'[d][k] = cache[d][k]
              /\ k \in Renews(call[d].page) =>
                   /\ cache'[d][k].invalid
                   /\ page[d] = k => cache'[d][k].fetch # "idle"
                   /\ page[d] = k /\ cache[d][k].data # {} => cache'[d][k].fetch = "asked"
                   /\ k \notin Overtaken(d) => cache'[d][k].fetch # "answered"
<1>0. call[d].at = "done" /\ call[d] # NoCall
  BY DEF Answer, NoCall
<1>1. /\ FormsTypeOK /\ DOMAIN cache = Desks /\ DOMAIN cache[d] = Keys /\ CallSound(d)
      /\ family \in Families /\ call \in [Desks -> Calls \union {NoCall}]
      /\ call[d].at = "done" /\ call[d] # NoCall
      /\ "own" \in Keys /\ "list" \in Keys \ {"own"}
  BY <1>0 DEF FormsInv, FormsTypeOK, DeskSound, CacheSound, Keys
<1>2. Renews(call[d].page) \subseteq {"list", "file"}
  BY <1>1, PagesAre
<1>3. \A k \in Keys \ {"own"} : cache[d][k] \in Entry(Copies)
  BY <1>1 DEF FormsTypeOK
<1>4. CASE family = "preferences"
  <2>1. cache' = [cache EXCEPT ![d]["list"] = Patched(cache[d]["list"], Copy(call[d].row))]
    BY <1>4 DEF Answer
  <2>2. PICK e \in Entry(Copies) : e = cache[d]["list"]
    BY <1>1, <1>3
  <2>3. PICK r : r = Copy(call[d].row)
    OBVIOUS
  <2>4. r \in Copies
    <3>1. call[d].row \in Record
      BY <1>1 DEF Calls
    <3>2. QED
      BY <2>3, <3>1 DEF Copy, Copies, Record
  <2>5. PICK v : v = Patched(e, r)
    OBVIOUS
  <2>6. PICK m : m = [e EXCEPT !.data = {r}, !.invalid = FALSE]
    OBVIOUS
  <2>7. m \in Entry(Copies) /\ m.data = {r} /\ m.fetch = e.fetch /\ m.reply = e.reply
    BY <2>4, <2>6 DEF Entry
  <2>8. v = IF e.data = {} THEN e ELSE m
    BY <2>5, <2>6 DEF Patched
  <2>9. /\ v \in Entry(Copies) /\ v.fetch = e.fetch /\ v.reply = e.reply
        /\ v.data = e.data \/ v.data = {r}
    BY <2>7, <2>8
  <2>10. /\ DOMAIN cache' = Desks /\ DOMAIN cache'[d] = Keys
         /\ cache'[d]["list"] = v /\ \A j \in Keys \ {"list"} : cache'[d][j] = cache[d][j]
         /\ \A y \in Desks \ {d} : cache'[y] = cache[y]
         /\ \A y \in Desks : /\ \A j \in Keys \ {"own"} : cache'[y][j] \in Entry(Copies)
                             /\ cache'[y]["own"] \in Entry(SUBSET Edits)
    BY <1>1, <2>1, <2>2, <2>3, <2>5, <2>9, EntryChanges
  <2>11. \A k \in Keys \ {"own"} :
           /\ \/ cache'[d][k].data = cache[d][k].data
              \/ /\ family = "preferences" /\ k = "list"
                 /\ cache'[d][k].data = {Copy(call[d].row)}
           /\ cache'[d][k].fetch = cache[d][k].fetch /\ cache'[d][k].reply = cache[d][k].reply
    BY <1>4, <2>2, <2>3, <2>9, <2>10
  <2>12. QED
    BY <1>1, <1>4, <2>10, <2>11
<1>5. CASE family # "preferences"
  <2>1. cache' = [cache EXCEPT ![d] = Refreshed(d)]
    BY <1>5 DEF Answer
  <2>2. /\ DOMAIN cache' = Desks /\ cache'[d] = Refreshed(d)
        /\ \A y \in Desks \ {d} : cache'[y] = cache[y]
    BY <1>1, <2>1
  <2>3. /\ DOMAIN cache'[d] = Keys
        /\ \A k \in Keys : cache'[d][k] = IF k \in Renews(call[d].page)
                                          THEN Invalidated(cache[d][k], page[d] = k) ELSE cache[d][k]
    BY <2>2 DEF Refreshed
  <2>4. cache'[d]["own"] = cache[d]["own"]
    BY <1>1, <1>2, <2>3
  <2>5. ASSUME NEW k \in Keys \ {"own"}
        PROVE  /\ cache'[d][k] \in Entry(Copies)
               /\ cache'[d][k].data = cache[d][k].data
               /\ \/ cache'[d][k].fetch = cache[d][k].fetch /\ cache'[d][k].reply = cache[d][k].reply
                  \/ k \in Renews(call[d].page) /\ cache'[d][k].fetch = "asked" /\ cache'[d][k].reply = {}
               /\ k \notin Renews(call[d].page) => cache'[d][k] = cache[d][k]
               /\ k \in Renews(call[d].page) =>
                    /\ cache'[d][k].invalid
                    /\ page[d] = k => cache'[d][k].fetch # "idle"
                    /\ page[d] = k /\ cache[d][k].data # {} => cache'[d][k].fetch = "asked"
                    /\ k \notin Overtaken(d) => cache'[d][k].fetch # "answered"
    <3>1. CASE k \notin Renews(call[d].page)
      BY <1>3, <2>3, <3>1
    <3>2. CASE k \in Renews(call[d].page)
      <4>1. PICK b \in BOOLEAN : b = (page[d] = k)
        OBVIOUS
      <4>2. PICK e \in Entry(Copies) : e = cache[d][k]
        BY <1>3
      <4>3. cache'[d][k] = Invalidated(e, b)
        BY <2>3, <3>2, <4>1, <4>2
      <4>4. k \notin Overtaken(d) => Invalidated(e, b).fetch # "answered"
        BY <1>5, <3>2, <4>1, <4>2 DEF Overtaken, Forgotten
      <4>5. /\ Invalidated(e, b) \in Entry(Copies)
            /\ Invalidated(e, b).data = e.data /\ Invalidated(e, b).invalid
            /\ \/ Invalidated(e, b).fetch = e.fetch /\ Invalidated(e, b).reply = e.reply
               \/ Invalidated(e, b).fetch = "asked" /\ Invalidated(e, b).reply = {}
            /\ b => Invalidated(e, b).fetch # "idle"
            /\ b /\ e.data # {} => Invalidated(e, b).fetch = "asked"
        BY InvalidatedIs
      <4>6. b <=> page[d] = k
        BY <4>1
      <4>7. QED
        BY <3>2, <4>2, <4>3, <4>4, <4>5, <4>6
    <3>3. QED
      BY <3>1, <3>2
  <2>6. ASSUME NEW y \in Desks
        PROVE  /\ \A j \in Keys \ {"own"} : cache'[y][j] \in Entry(Copies)
               /\ cache'[y]["own"] \in Entry(SUBSET Edits)
    <3>1. CASE y = d
      BY <1>1, <2>4, <2>5, <3>1 DEF FormsTypeOK
    <3>2. CASE y # d
      BY <1>1, <2>2, <3>2 DEF FormsTypeOK
    <3>3. QED
      BY <3>1, <3>2
  <2>7. QED
    BY <1>5, <2>2, <2>3, <2>4, <2>5, <2>6
<1>6. QED
  BY <1>4, <1>5

LEMMA AnswerKeeps ==
  ASSUME FormsInv, NEW d \in Desks, Answer(d)
  PROVE  FormsInv'
<1>1. /\ FormsTypeOK /\ DeskSound(d) /\ CacheSound(d) /\ FormSound(d) /\ CallSound(d) /\ KeepsSaved(d)
      /\ family \in Families /\ call \in [Desks -> Calls \union {NoCall}]
      /\ form \in [Desks -> Forms \union {NoForm}]
      /\ saved \in [Desks -> SUBSET (1..edits)] /\ unseen \in [Desks -> SUBSET Keys]
      /\ saved[d] \subseteq row.text /\ row.text \subseteq 1..edits
      /\ stopper \in Desks \union {Nobody} /\ (stopper # Nobody => ~row.on)
  BY DEF FormsInv, FormsTypeOK, DeskSound, KeepsSaved, RecordSound
<1>2. /\ call[d].at = "done"
      /\ form' = [form EXCEPT ![d] = FormAfter(d)]
      /\ call' = IF Settles(d) THEN [call EXCEPT ![d].at = "settling"] ELSE [call EXCEPT ![d] = NoCall]
      /\ saved' = [saved EXCEPT ![d] = @ \union (call[d].typed \intersect row.text)]
      /\ unseen' = [unseen EXCEPT ![d] = @ \union Misses(call[d].page) \union Overtaken(d)]
      /\ stopper' = IF call[d].chosen /\ ~call[d].on /\ ~row.on THEN d ELSE stopper
      /\ UNCHANGED <<family, row, disk, page, edits, arts, calls, visits, raced>>
  BY DEF Answer
<1>3. PICK c \in Calls : c = call[d] /\ call[d] # NoCall
  BY <1>1, <1>2 DEF NoCall
<1>4. c.row \in Record /\ c.row.text \subseteq 1..edits /\ (c.row.gone => family \in Deletes) /\ c.page \in Pages(family)
  BY <1>1, <1>3 DEF CallSound, Calls
<1>5. PICK r : r = Copy(c.row)
  OBVIOUS
<1>6. r \in Copies /\ r.text \subseteq 1..edits /\ (r.gone => family \in Deletes)
  BY <1>4, <1>5 DEF Copy, Copies, Record
<1>7. /\ DOMAIN cache' = Desks /\ DOMAIN cache'[d] = Keys
      /\ cache'[d]["own"] = cache[d]["own"]
      /\ \A y \in Desks \ {d} : cache'[y] = cache[y]
      /\ \A y \in Desks : /\ \A j \in Keys \ {"own"} : cache'[y][j] \in Entry(Copies)
                          /\ cache'[y]["own"] \in Entry(SUBSET Edits)
  BY AnswerEntries
<1>8. ASSUME NEW k \in Keys \ {"own"}
      PROVE  /\ cache'[d][k].data = cache[d][k].data \/ (family = "preferences" /\ cache'[d][k].data = {r})
             /\ \/ cache'[d][k].fetch = cache[d][k].fetch /\ cache'[d][k].reply = cache[d][k].reply
                \/ k \in Renews(c.page) /\ cache'[d][k].fetch = "asked" /\ cache'[d][k].reply = {}
  BY <1>3, <1>5, AnswerEntries
<1>9. ASSUME family # "preferences", NEW k \in Keys \ {"own"}
      PROVE  /\ cache'[d][k].data = cache[d][k].data
             /\ k \notin Renews(c.page) => cache'[d][k] = cache[d][k]
             /\ k \in Renews(c.page) =>
                  /\ cache'[d][k].invalid
                  /\ page[d] = k => cache'[d][k].fetch # "idle"
                  /\ page[d] = k /\ cache[d][k].data # {} => cache'[d][k].fetch = "asked"
                  /\ k \notin Overtaken(d) => cache'[d][k].fetch # "answered"
  BY <1>3, <1>8, <1>9, AnswerEntries
<1>10. Renews(c.page) \subseteq Pages(family) /\ Pages(family) \subseteq {"list", "file"} /\ "list" \in Keys \ {"own"}
  BY <1>1, <1>4, PagesAre DEF Keys
<1>11. /\ \A y \in Desks \ {d} : form'[y] = form[y] /\ call'[y] = call[y] /\ saved'[y] = saved[y] /\ unseen'[y] = unseen[y]
       /\ form'[d] = FormAfter(d)
       /\ saved'[d] = saved[d] \union (c.typed \intersect row.text)
       /\ unseen'[d] = unseen[d] \union Misses(c.page) \union Overtaken(d)
  BY <1>1, <1>2, <1>3
<1>12. PICK n \in Calls \union {NoCall} :
         /\ n = call'[d] /\ call' = [call EXCEPT ![d] = n]
         /\ IF family = "day" /\ ~c.left
            THEN /\ n # NoCall /\ n.at = "settling" /\ n.text = c.text /\ n.typed = c.typed /\ n.op = c.op /\ n.file = c.file
                 /\ n.page = c.page /\ n.left = c.left /\ n.row = c.row /\ n.chosen = c.chosen
            ELSE n = NoCall
  <2>1. CASE family = "day" /\ ~c.left
    <3>1. PICK m : m = [c EXCEPT !.at = "settling"]
      OBVIOUS
    <3>2. /\ m \in Calls /\ m.at = "settling" /\ m.text = c.text /\ m.typed = c.typed /\ m.op = c.op /\ m.file = c.file
          /\ m.page = c.page /\ m.left = c.left /\ m.row = c.row /\ m.chosen = c.chosen
      BY <3>1 DEF Calls
    <3>3. Settles(d)
      BY <1>3, <2>1 DEF Settles
    <3>4. call' = [call EXCEPT ![d] = m] /\ call'[d] = m
      BY <1>1, <1>2, <1>3, <3>1, <3>3
    <3>5. m # NoCall
      BY <3>2, CallIsCall
    <3>6. QED
      BY <2>1, <3>2, <3>4, <3>5
  <2>2. CASE ~(family = "day" /\ ~c.left)
    <3>1. ~Settles(d)
      BY <1>3, <2>2 DEF Settles
    <3>2. call' = [call EXCEPT ![d] = NoCall] /\ call'[d] = NoCall
      BY <1>1, <1>2, <3>1
    <3>3. QED
      BY <2>2, <3>2
  <2>3. QED
    BY <2>1, <2>2
<1>13. PICK f : f = FormOf(c.row, FALSE)
  OBVIOUS
<1>14. f \in Forms /\ f.text = c.row.text /\ f.typed = {} /\ ~f.chosen /\ ~f.file /\ ~f.touched
  <2>1. c.row.text \in SUBSET Edits /\ c.row.on \in BOOLEAN
    BY <1>4 DEF Record
  <2>2. QED
    BY <1>13, <2>1, FormOfIs
<1>15. \/ form'[d] = form[d] /\ (c.op # "form" \/ c.left \/ family = "day")
       \/ form'[d] = f /\ family = "preferences" /\ ~c.left
       \/ form'[d] = NoForm
  BY <1>3, <1>11, <1>13 DEF FormAfter
<1>15a. family = "day" => form'[d] = form[d]
  BY <1>3, <1>11 DEF FormAfter
<1>16. FormsTypeOK'
  <2>1. form' \in [Desks -> Forms \union {NoForm}] /\ call' \in [Desks -> Calls \union {NoCall}]
    BY <1>1, <1>2, <1>11, <1>12, <1>14, <1>15
  <2>2. saved' \in [Desks -> SUBSET (1..edits)]
    BY <1>1, <1>2
  <2>3. unseen' \in [Desks -> SUBSET Keys]
    <3>1. Misses(c.page) \subseteq Keys
      BY <1>1, <1>10, PagesAre DEF Misses, Keys
    <3>2. Overtaken(d) \subseteq Keys
      BY <1>3, <1>10 DEF Overtaken, Keys
    <3>3. QED
      BY <1>1, <1>2, <1>3, <3>1, <3>2
  <2>4. stopper' \in Desks \union {Nobody}
    BY <1>1, <1>2
  <2>5. QED
    BY <1>1, <1>2, <1>7, <2>1, <2>2, <2>3, <2>4 DEF FormsTypeOK
<1>17. cache[d]["list"].data # {} => cache'[d]["list"].data # {}
  BY <1>8, <1>10
<1>18. DeskSound(d)'
  <2>1. CacheSound(d)'
    <3>1. ASSUME NEW k \in Keys \ {"own"}
          PROVE  /\ k \notin Pages(family) => cache'[d][k].fetch = "idle"
                 /\ Single(cache'[d][k].data) /\ Single(cache'[d][k].reply)
                 /\ cache'[d][k].fetch = "answered" => cache'[d][k].reply # {}
                 /\ \A q \in cache'[d][k].data \union cache'[d][k].reply :
                      q.text \subseteq 1..edits /\ (q.gone => family \in Deletes)
      <4>1. /\ k \notin Pages(family) => cache[d][k].fetch = "idle"
            /\ Single(cache[d][k].data) /\ Single(cache[d][k].reply)
            /\ cache[d][k].fetch = "answered" => cache[d][k].reply # {}
            /\ \A q \in cache[d][k].data \union cache[d][k].reply :
                 q.text \subseteq 1..edits /\ (q.gone => family \in Deletes)
        BY <1>1 DEF CacheSound
      <4>2. Single({r}) /\ Single({})
        BY DEF Single
      <4>3. /\ cache'[d][k].data = cache[d][k].data \/ cache'[d][k].data = {r}
            /\ \/ cache'[d][k].fetch = cache[d][k].fetch /\ cache'[d][k].reply = cache[d][k].reply
               \/ k \in Pages(family) /\ cache'[d][k].fetch = "asked" /\ cache'[d][k].reply = {}
        BY <1>8, <1>10
      <4>4. /\ Single(cache'[d][k].data)
            /\ \A q \in cache'[d][k].data : q.text \subseteq 1..edits /\ (q.gone => family \in Deletes)
        BY <1>6, <4>1, <4>2, <4>3
      <4>5. /\ k \notin Pages(family) => cache'[d][k].fetch = "idle"
            /\ Single(cache'[d][k].reply)
            /\ cache'[d][k].fetch = "answered" => cache'[d][k].reply # {}
            /\ \A q \in cache'[d][k].reply : q.text \subseteq 1..edits /\ (q.gone => family \in Deletes)
        BY <4>1, <4>2, <4>3
      <4>6. QED
        BY <4>4, <4>5
    <3>2. QED
      BY <1>1, <1>2, <1>7, <3>1 DEF CacheSound
  <2>2. FormSound(d)'
    <3>1. CASE form'[d] = form[d]
      BY <1>1, <1>2, <1>7, <1>17, <3>1, SameForms DEF FormSound
    <3>2. CASE form'[d] = f /\ family = "preferences" /\ ~c.left
      <4>1. ~Asks /\ page[d] = c.page /\ (Inline => cache[d]["list"].data # {})
        BY <1>1, <1>3, <3>2, LayoutIs DEF CallSound
      <4>2. QED
        BY <1>2, <1>4, <1>14, <1>17, <3>2, <4>1, SameForms DEF FormSound
    <3>3. CASE form'[d] = NoForm
      BY <3>3 DEF FormSound
    <3>4. QED
      BY <1>15, <3>1, <3>2, <3>3
  <2>3. CallSound(d)'
    <3>1. CASE n = NoCall
      BY <1>12, <3>1 DEF CallSound
    <3>2. CASE family = "day" /\ ~c.left
      BY <1>1, <1>2, <1>3, <1>12, <1>17, <3>2, SameForms DEF CallSound, Deletes
    <3>3. QED
      BY <1>12, <3>1, <3>2
  <2>4. QED
    BY <1>1, <1>2, <2>1, <2>2, <2>3 DEF DeskSound
<1>19. KeepsSaved(d)'
  <2>1. saved'[d] \subseteq row.text
    BY <1>1, <1>11
  <2>2. family # "preferences" => CopiesKeepOwn(d)'
    <3>1. ASSUME family # "preferences", NEW k \in Shown(family) \ {"own"}
          PROVE  /\ page'[d] = k /\ cache'[d][k].fetch = "idle" => ~cache'[d][k].invalid
                 /\ k \notin unseen'[d] =>
                      /\ cache'[d][k].fetch # "answered"
                      /\ ~(cache'[d][k].fetch = "idle" /\ ~cache'[d][k].invalid)
      <4>1. k \in Keys \ {"own"}
        BY <1>1, <1>10, <3>1, PagesAre DEF Keys
      <4>2. CASE k \in Renews(c.page)
        BY <1>2, <1>9, <1>11, <3>1, <4>1, <4>2
      <4>3. CASE k \notin Renews(c.page)
        <5>1. k \in unseen'[d]
          BY <1>11, <3>1, <4>3 DEF Misses
        <5>2. page[d] = k /\ cache[d][k].fetch = "idle" => ~cache[d][k].invalid
          BY <1>1, <3>1 DEF KeepsSaved, CopiesKeepOwn
        <5>3. QED
          BY <1>2, <1>9, <3>1, <4>1, <4>3, <5>1, <5>2
      <4>4. QED
        BY <4>2, <4>3
    <3>2. QED
      BY <1>2, <3>1 DEF CopiesKeepOwn
  <2>3. PairsKeepOwn(d)'
    <3>1. Asks => "own" \in unseen'[d]
      <4>1. Asks => "own" \in Misses(c.page)
        BY <1>1, LayoutIs, PagesAre DEF Misses
      <4>2. QED
        BY <1>11, <4>1
    <3>2. QED
      BY <1>2, <3>1, SameForms DEF PairsKeepOwn
  <2>4. ~Holds("switch") => ~Holds("switch")'
    BY <1>2, SameForms
  <2>5. form'[d] # NoForm => ContentKeepsOwn(d, form[d])'
    <3>1. CASE form'[d] = form[d] /\ form[d] # NoForm /\ (c.op # "form" \/ c.left)
      BY <1>1, <1>3, <3>1 DEF KeepsSaved, ContentKeepsOwn
    <3>2. CASE form'[d] = form[d] /\ form[d] # NoForm /\ family = "day"
      <4>1. ~Holds("switch") /\ ~Asks
        BY <1>1, <3>2, LayoutIs
      <4>2. DaySound(d)
        BY DEF FormsInv
      <4>3. ~form[d].behind => saved[d] \subseteq form[d].text /\ c.typed \subseteq form[d].text
        BY <1>1, <1>3, <3>2, <4>1, <4>2 DEF KeepsSaved, ContentKeepsOwn, DaySound
      <4>4. ~form[d].behind => saved'[d] \subseteq form[d].text
        BY <1>11, <4>3
      <4>5. QED
        BY <2>4, <3>2, <4>1, <4>4 DEF ContentKeepsOwn
    <3>3. CASE form'[d] = f /\ family = "preferences"
      <4>1. ~Holds("switch")
        BY <1>1, <3>3, LayoutIs
      <4>2. QED
        BY <1>2, <2>4, <3>3, <4>1 DEF ContentKeepsOwn
    <3>4. QED
      BY <1>15, <3>1, <3>2, <3>3
  <2>6. call'[d].op = "form" => ~Loads(call'[d])
    BY <1>12 DEF Loads, NoCall
  <2>7. call'[d] # NoCall => ~call'[d].left /\ call'[d].op = "form"
    BY <1>1, <1>3, <1>12 DEF CallSound, Deletes
  <2>8. QED
    BY <1>2, <2>1, <2>2, <2>3, <2>5, <2>6, <2>7 DEF KeepsSaved
<1>20. (stopper # Nobody => ~row.on)' /\ \A y \in Desks \ {d} : stopper' = y => stopper = y
  BY <1>1, <1>2
<1>21. /\ call'[d].at = "stored" <=> call[d].at = "stored"
       /\ Stores(call'[d]) => Stores(call[d]) /\ call'[d].art = call[d].art
       /\ Loads(call'[d]) => \/ call'[d].row.art = row.art
                             \/ Loads(call[d]) /\ call'[d].row.art = call[d].row.art
  BY <1>2, <1>12 DEF Stores, Loads, NoCall
<1>22. ASSUME family = "day"
       PROVE  /\ \A x \in 1..edits : /\ Copied(d, x)' => Copied(d, x) \/ x \in row.text
                                     /\ Carried(d, x)' => Carried(d, x) \/ Copied(d, x)
              /\ DaySound(d)'
  <2>1. \A x : Copied(d, x)' => Copied(d, x)
    <3>1. cache'[d]["list"].data = cache[d]["list"].data /\ cache'[d]["list"].reply \subseteq cache[d]["list"].reply
      BY <1>8, <1>10, <1>22
    <3>2. QED
      BY <3>1 DEF Copied
  <2>2. \A x : Carried(d, x)' => Carried(d, x)
    BY <1>3, <1>12, <1>15a, <1>22 DEF Carried
  <2>3. DaySound(d) /\ Typed(d)' = Typed(d)
    BY <1>15a, <1>22 DEF FormsInv, Typed
  <2>4. Typed(d) # {} => Pending(d)
    BY <1>3, <1>22, <2>3 DEF DaySound
  <2>5. Known(d)' \subseteq Known(d)
    <3>1. n = NoCall \/ n.typed = c.typed
      BY <1>12
    <3>2. QED
      BY <1>3, <1>11, <1>12, <1>15a, <1>22, <3>1 DEF Known
  <2>6. Typed(d) # {} => call'[d] # NoCall /\ call'[d].at = "settling" /\ Pending(d)'
    <3>1. SUFFICES ASSUME Typed(d) # {}
                   PROVE  call'[d] # NoCall /\ call'[d].at = "settling" /\ Pending(d)'
      OBVIOUS
    <3>2. /\ ~c.left /\ c.op = "form" /\ c.typed = form[d].typed /\ News(d, row.text)
      BY <1>2, <1>3, <2>4, <3>1 DEF Pending
    <3>3. News(d, row.text)'
      BY <1>2, <1>15a, <1>22, <2>5, <3>2 DEF News
    <3>4. page[d] = "list" /\ cache[d]["list"].data # {} /\ "list" \in Renews(c.page)
      <4>1. Inline /\ page[d] = c.page /\ (Inline => cache[d]["list"].data # {})
        BY <1>1, <1>3, <1>22, <3>2, LayoutIs DEF CallSound
      <4>2. QED
        BY <1>1, <1>4, <1>22, <4>1, PagesAre
    <3>5. cache'[d]["list"].fetch = "asked"
      BY <1>9, <1>10, <1>22, <3>4
    <3>6. QED
      BY <1>12, <1>15a, <1>22, <3>2, <3>3, <3>5 DEF Pending
  <2>7. form[d] # NoForm /\ ~form[d].behind =>
          /\ call'[d] # NoCall /\ call'[d].at = "settling"
          /\ call'[d].typed \subseteq form[d].text
    <3>1. form[d] # NoForm /\ ~form[d].behind => ~c.left /\ c.typed \subseteq form[d].text
      BY <1>1, <1>3, <1>22, <2>3 DEF KeepsSaved, DaySound
    <3>2. QED
      BY <1>12, <1>22, <3>1
  <2>8. call'[d].at # "loaded"
    BY <1>12 DEF NoCall
  <2>9. DaySound(d)'
    BY <1>15a, <1>22, <2>3, <2>6, <2>7, <2>8 DEF DaySound
  <2>10. QED
    BY <2>1, <2>2, <2>9
<1>23. QED
  BY <1>2, <1>7, <1>11, <1>16, <1>18, <1>19, <1>20, <1>21, <1>22, BrowserChanges

-----------------------------------------------------------------------------
(* The invariant, and what follows from it.                                *)

LEMMA FormsInitially ==
  ASSUME FormsInit
  PROVE  FormsInv
<1>1. /\ family \in Families /\ row = New /\ disk = {row.art} /\ edits = 0 /\ arts = 1
      /\ calls = 0 /\ visits = 0 /\ stopper = Nobody /\ raced = FALSE
      /\ page = [d \in Desks |-> "away"] /\ cache = [d \in Desks |-> [k \in Keys |-> Absent]]
      /\ form = [d \in Desks |-> NoForm] /\ call = [d \in Desks |-> NoCall]
      /\ saved = [d \in Desks |-> {}] /\ unseen = [d \in Desks |-> {}]
  BY DEF FormsInit
<1>2. row \in Record /\ row.text = {} /\ ~row.gone /\ ~row.used /\ row.on /\ row.art \in {0, 1}
  BY <1>1, NewIs DEF New
<1>3. Absent \in Entry(Copies) /\ Absent \in Entry(SUBSET Edits)
  BY DEF Absent, Entry, Fetches
<1>4. /\ Absent.data = {} /\ ~Absent.invalid /\ Absent.fetch = "idle" /\ Absent.reply = {}
      /\ "own" \in Keys /\ "list" \in Keys
  BY DEF Absent, Keys
<1>5. FormsTypeOK
  <2>1. disk \subseteq 0..arts /\ arts \in Nat \ {0} /\ 0 \in 0..MaxEdits /\ 0 \in 0..MaxCalls /\ 0 \in 0..MaxVisits
    BY <1>1, <1>2, FormsBounds
  <2>2. \A d \in Desks : /\ \A k \in Keys \ {"own"} : cache[d][k] \in Entry(Copies)
                         /\ cache[d]["own"] \in Entry(SUBSET Edits)
    BY <1>1, <1>3, <1>4
  <2>3. QED
    BY <1>1, <1>2, <2>1, <2>2 DEF FormsTypeOK
<1>6. RecordSound
  BY <1>2 DEF RecordSound
<1>7. ArtSound
  BY <1>1, <1>2 DEF ArtSound, Loads, Stores, NoCall
<1>8. ASSUME NEW d \in Desks
      PROVE  DeskSound(d) /\ KeepsSaved(d) /\ DaySound(d)
  <2>1. /\ page[d] = "away" /\ form[d] = NoForm /\ call[d] = NoCall /\ saved[d] = {} /\ unseen[d] = {}
        /\ DOMAIN cache[d] = Keys /\ \A k \in Keys : cache[d][k] = Absent
    BY <1>1
  <2>2. DeskSound(d)
    BY <1>4, <2>1 DEF DeskSound, CacheSound, FormSound, CallSound, Single
  <2>3. KeepsSaved(d)
    <3>1. CopiesKeepOwn(d)
      BY <1>1, <1>4, <2>1, PagesAre DEF CopiesKeepOwn, Keys
    <3>2. PairsKeepOwn(d)
      BY <1>4, <2>1 DEF PairsKeepOwn
    <3>3. QED
      BY <2>1, <3>1, <3>2 DEF KeepsSaved, Loads, NoCall
  <2>4. DaySound(d)
    BY <2>1 DEF DaySound, Typed, NoCall
  <2>5. QED
    BY <2>2, <2>3, <2>4
<1>9. QED
  BY <1>1, <1>5, <1>6, <1>7, <1>8 DEF FormsInv

LEMMA FormsInductive ==
  ASSUME FormsInv, [FormsNext]_records
  PROVE  FormsInv'
<1>1. CASE UNCHANGED records
  <2>1. UNCHANGED <<family, row, disk, page, cache, form, call, edits, arts, calls, visits, saved, unseen, stopper, raced>>
    BY <1>1 DEF records
  <2>2. ASSUME NEW d \in Desks
        PROVE  DeskSound(d)' /\ KeepsSaved(d)' /\ DaySound(d)'
    <3>1. DeskSound(d) /\ KeepsSaved(d) /\ DaySound(d)
      BY DEF FormsInv
    <3>2. edits' \in Nat /\ edits <= edits' /\ saved[d] \subseteq row'.text
      BY <2>1, <3>1, FormsBounds DEF FormsInv, FormsTypeOK, KeepsSaved
    <3>3. DeskSound(d)'
      BY <2>1, <3>1, <3>2, SoundGoesOn DEF FormsInv
    <3>4. KeepsSaved(d)'
      BY <2>1, <3>1, <3>2, SavedGoesOn
    <3>5. DaySound(d)'
      <4>1. \A x : Fresh(d, x) => Fresh(d, x)'
        BY <2>1 DEF Fresh, Copied, Carried
      <4>2. Typed(d)' = Typed(d) /\ Known(d)' = Known(d)
        BY <2>1 DEF Typed, Known
      <4>3. (\A t : News(d, t)' <=> News(d, t)) /\ (News(d, row.text) => News(d, row.text)')
        BY <2>1, <4>2 DEF News
      <4>4. Pending(d) => Pending(d)'
        BY <2>1, <4>3 DEF Pending
      <4>5. QED
        BY <2>1, <3>1, <4>1, <4>2, <4>4 DEF DaySound
    <3>6. QED
      BY <3>3, <3>4, <3>5
  <2>3. FormsTypeOK' /\ RecordSound' /\ ArtSound' /\ (stopper # Nobody => ~row.on)' /\ DOMAIN cache' = Desks
    BY <2>1 DEF FormsInv, FormsTypeOK, RecordSound, ArtSound
  <2>4. QED
    BY <2>2, <2>3 DEF FormsInv
<1>2. CASE Use
  BY <1>2, UseKeeps
<1>3. ASSUME NEW d \in Desks, BrowserStep(d)
      PROVE  FormsInv'
  <2>1. CASE \E young \in BOOLEAN : OpenForm(d, young) \/ \E p \in Keys : Visit(d, p, young)
    BY <2>1, OpenFormKeeps, VisitKeeps
  <2>2. CASE Leave(d)
    BY <2>2, LeaveKeeps
  <2>3. CASE CloseForm(d)
    BY <2>3, CloseFormKeeps
  <2>4. CASE \E k \in Keys : Land(d, k)
    BY <2>4, LandKeeps
  <2>5. CASE \E e \in Edits : TypeIn(d, e)
    BY <2>5, TypeInKeeps
  <2>6. CASE SetOn(d) \/ Attach(d)
    BY <2>6, ChoiceKeeps
  <2>7. CASE Submit(d)
    BY <2>7, SubmitKeeps
  <2>8. CASE Switch(d) \/ Remove(d)
    BY <2>8, MenuKeeps
  <2>9. CASE Answer(d)
    BY <2>9, AnswerKeeps
  <2>10. QED
    BY <1>3, <2>1, <2>2, <2>3, <2>4, <2>5, <2>6, <2>7, <2>8, <2>9 DEF BrowserStep
<1>4. ASSUME NEW d \in Desks, ServerStep(d)
      PROVE  FormsInv'
  <2>1. CASE \E k \in Keys : Read(d, k)
    BY <2>1, ReadKeeps
  <2>2. CASE Fetch(d)
    BY <2>2, FetchKeeps
  <2>3. CASE Store(d)
    BY <2>3, StoreKeeps
  <2>4. CASE Unlink(d)
    BY <2>4, UnlinkKeeps
  <2>5. CASE SaveRecord(d)
    BY <2>5, RefusedKeeps, WrittenKeeps
  <2>6. QED
    BY <1>4, <2>1, <2>2, <2>3, <2>4, <2>5 DEF ServerStep
<1>5. QED
  BY <1>1, <1>2, <1>3, <1>4 DEF FormsNext

\* However many windows, forms and saves: what a window has cached, has open and has sent
\* holds an earlier state of the record, and of what its user was told to have saved each
\* holds at least what was still there - unless it is known to be behind.
THEOREM FormsInvariance == FormsSpec => []FormsInv
<1>1. FormsInit => FormsInv
  BY FormsInitially
<1>2. FormsInv /\ [FormsNext]_records => FormsInv'
  BY FormsInductive
<1>3. QED
  BY <1>1, <1>2, PTL DEF FormsSpec

\* The record, the forms and the requests stay of their kinds: a copy in a page holds no
\* artwork number, and nobody was told of an edit that was never made.
THEOREM FormsTypeCorrect == FormsSpec => []FormsTypeOK
<1>1. FormsInv => FormsTypeOK
  BY DEF FormsInv
<1>2. QED
  BY <1>1, FormsInvariance, PTL

\* LetterheadController: however many windows replace and delete a template's artwork, the
\* one on record is on the disk when none of them is between the disk and the row - but for
\* a deletion that a project overtook.
THEOREM ArtworkThere == FormsSpec => []ArtworkOnDisk
<1>1. FormsInv => ArtworkOnDisk
  BY DEF FormsInv, ArtSound, ArtworkOnDisk
<1>2. QED
  BY <1>1, FormsInvariance, PTL

\* Only a save changes a request that is ready into one that is done.
LEMMA OnlySavesCommit ==
  ASSUME FormsInv, [FormsNext]_records, NEW d \in Desks, Commits(d)
  PROVE  SaveRecord(d) /\ ~Fails(call[d])
<1>1. /\ call \in [Desks -> Calls \union {NoCall}] /\ call[d] # NoCall
      /\ call[d].at \in {"loaded", "stored"} /\ call'[d].at = "done" /\ call'[d] # call[d]
      /\ call'[d] # NoCall
  BY DEF Commits, Ready, FormsInv, FormsTypeOK, NoCall
<1>2. PICK c \in Calls : c = call[d]
  BY <1>1
<1>3. ~(UNCHANGED records) /\ ~Use
  BY <1>1 DEF records, Use
<1>4. PICK e \in Desks : BrowserStep(e) \/ ServerStep(e)
  BY <1>3 DEF FormsNext
<1>5. ~(\E young \in BOOLEAN : OpenForm(e, young) \/ \E p \in Keys : Visit(e, p, young))
  BY <1>1 DEF OpenForm, Visit
<1>6. ~CloseForm(e) /\ ~(\E x \in Edits : TypeIn(e, x)) /\ ~SetOn(e) /\ ~Attach(e)
  BY <1>1 DEF CloseForm, TypeIn, SetOn, Attach
<1>7. ~(\E k \in Keys : Read(e, k)) /\ ~Fetch(e)
  BY <1>1 DEF Read, Fetch
<1>8. ~Leave(e)
  <2>1. SUFFICES ASSUME Leave(e)
                 PROVE  FALSE
    OBVIOUS
  <2>2. PICK n : n = [c EXCEPT !.left = TRUE]
    OBVIOUS
  <2>3. n.at = c.at
    BY <2>2 DEF Calls
  <2>4. call' = IF call[e] = NoCall THEN call ELSE [call EXCEPT ![e].left = TRUE]
    BY <2>1 DEF Leave
  <2>5. e = d
    BY <1>1, <2>4
  <2>6. call'[d] = n
    BY <1>1, <1>2, <2>2, <2>4, <2>5
  <2>7. QED
    BY <1>1, <1>2, <2>3, <2>6
<1>9. ~(\E k \in Keys : Land(e, k))
  BY <1>1 DEF Land
<1>10. ~Submit(e) /\ ~Switch(e) /\ ~Remove(e)
  <2>1. ASSUME NEW r, Sends(e, r)
        PROVE  FALSE
    <3>1. call[e] = NoCall /\ call' = [call EXCEPT ![e] = r]
      BY <2>1 DEF Sends
    <3>2. e # d
      BY <1>1, <3>1
    <3>3. QED
      BY <1>1, <3>1, <3>2
  <2>2. QED
    BY <2>1 DEF Submit, Switch, Remove
<1>11. ~Answer(e)
  <2>1. SUFFICES ASSUME Answer(e)
                 PROVE  FALSE
    OBVIOUS
  <2>2. /\ call[e].at = "done"
        /\ call' = IF Settles(e) THEN [call EXCEPT ![e].at = "settling"] ELSE [call EXCEPT ![e] = NoCall]
    BY <2>1 DEF Answer
  <2>3. e # d
    BY <1>1, <2>2
  <2>4. call'[d] = call[d]
    BY <1>1, <2>2, <2>3
  <2>5. QED
    BY <1>1, <2>4
<1>12. ~Store(e) /\ ~Unlink(e)
  <2>1. ASSUME NEW a, call' = [call EXCEPT ![e].at = "stored", ![e].art = a]
        PROVE  FALSE
    <3>1. e = d
      BY <1>1, <2>1
    <3>2. PICK n : n = [c EXCEPT !.at = "stored", !.art = a]
      OBVIOUS
    <3>3. n.at = "stored"
      BY <3>2 DEF Calls
    <3>4. call'[d] = n
      BY <1>1, <1>2, <2>1, <3>1, <3>2
    <3>5. QED
      BY <1>1, <3>3, <3>4
  <2>2. ASSUME call' = [call EXCEPT ![e].at = "stored"]
        PROVE  FALSE
    <3>1. e = d
      BY <1>1, <2>2
    <3>2. PICK n : n = [c EXCEPT !.at = "stored"]
      OBVIOUS
    <3>3. n.at = "stored"
      BY <3>2 DEF Calls
    <3>4. call'[d] = n
      BY <1>1, <1>2, <2>2, <3>1, <3>2
    <3>5. QED
      BY <1>1, <3>3, <3>4
  <2>3. QED
    BY <2>1, <2>2 DEF Store, Unlink
<1>13. SaveRecord(e)
  BY <1>4, <1>5, <1>6, <1>7, <1>8, <1>9, <1>10, <1>11, <1>12 DEF BrowserStep, ServerStep
<1>14. e = d
  <2>1. \E n : call' = [call EXCEPT ![e] = n]
    BY <1>13 DEF SaveRecord
  <2>2. QED
    BY <1>1, <2>1
<1>15. ~Fails(call[d])
  <2>1. Fails(call[d]) => call' = [call EXCEPT ![d] = NoCall]
    BY <1>13, <1>14 DEF SaveRecord
  <2>2. QED
    BY <1>1, <2>1
<1>16. QED
  BY <1>13, <1>14, <1>15

\* A form that was not taken from a copy known to be behind holds what its user was told to
\* have saved and says what its user stopped; what it sends is that, or what the handler found.
THEOREM NothingUndone == FormsSpec => FormsUndoNothing
<1> DEFINE Undoes(d) ==
      Commits(d) =>
        /\ call[d].op = "form" /\ ~call[d].behind => saved[d] \intersect row.text \subseteq row'.text
        /\ ~row.on /\ row'.on =>
             call[d].chosen \/ (family # "user" /\ (call[d].behind \/ stopper # d))
<1>1. ASSUME FormsInv, [FormsNext]_records, NEW d \in Desks, Commits(d)
      PROVE  /\ call[d].op = "form" /\ ~call[d].behind => saved[d] \intersect row.text \subseteq row'.text
             /\ ~row.on /\ row'.on =>
                  call[d].chosen \/ (family # "user" /\ (call[d].behind \/ stopper # d))
  <2>1. SaveRecord(d) /\ ~Fails(call[d])
    BY <1>1, OnlySavesCommit
  <2>2. /\ call \in [Desks -> Calls \union {NoCall}] /\ call[d] # NoCall /\ Loads(call[d])
        /\ KeepsSaved(d) /\ CallSound(d) /\ family \in Families
    BY <1>1 DEF Commits, Ready, Loads, FormsInv, FormsTypeOK, DeskSound
  <2>3. PICK c \in Calls : c = call[d]
    BY <2>2
  <2>4. row' = RowAfter(c)
    BY <2>1, <2>3 DEF SaveRecord
  <2>5. /\ row'.text = IF c.op = "form" THEN Text(c) ELSE row.text
        /\ row'.on = IF (c.op = "form" /\ Holds("switch")) \/ c.op = "switch"
                     THEN (IF c.on = c.row.on THEN row.on ELSE c.on) ELSE row.on
    BY <1>1, <2>3, <2>4, RowAfterIs
  <2>6. c.op = "form" => ContentKeepsOwn(d, c)
    BY <2>2, <2>3 DEF KeepsSaved
  <2>7. ASSUME c.op = "form", ~c.behind
        PROVE  saved[d] \intersect row.text \subseteq row'.text
    <3>1. family # "preferences" => saved[d] \subseteq c.text
      BY <2>6, <2>7 DEF ContentKeepsOwn
    <3>2. /\ family = "pairs" => Text(c) = (row.text \ c.row.text) \union c.text
          /\ family = "invoice" => Text(c) = c.text
          /\ family = "preferences" => Text(c) = row.text \union c.text
          /\ family \notin {"pairs", "invoice", "preferences"} =>
               Text(c) = IF c.text = c.row.text THEN row.text ELSE c.text
      BY <1>1, <2>2, <2>3, TextIs
    <3>3. saved[d] \intersect row.text \subseteq Text(c)
      BY <3>1, <3>2
    <3>4. QED
      BY <2>5, <2>7, <3>3
  <2>8. ASSUME ~row.on, row'.on
        PROVE  c.chosen \/ (family # "user" /\ (c.behind \/ stopper # d))
    <3>1. c.on /\ ((c.op = "form" /\ Holds("switch")) \/ c.op = "switch")
      BY <2>5, <2>8
    <3>2. CASE c.op = "switch"
      BY <2>2, <2>3, <3>2 DEF CallSound
    <3>3. CASE c.op = "form" /\ Holds("switch")
      <4>1. family # "user"
        BY <2>2, <3>3, LayoutIs
      <4>2. ~c.behind /\ ~c.chosen => stopper # d
        BY <2>6, <3>1, <3>3 DEF ContentKeepsOwn
      <4>3. QED
        BY <4>1, <4>2
    <3>4. QED
      BY <3>1, <3>2, <3>3
  <2>9. QED
    BY <2>3, <2>7, <2>8
<1>2. FormsInv /\ [FormsNext]_records => \A d \in Desks : Undoes(d)
  BY <1>1
<1>3. FormsInv /\ [FormsNext]_records => [\A d \in Desks : Undoes(d)]_records
  BY <1>2
<1>4. QED
  BY <1>3, FormsInvariance, PTL DEF FormsSpec, FormsUndoNothing

\* An editor of a day loses what is typed only to a month that comes back.
LEMMA OnlyMonthsRelay ==
  ASSUME FormsInv, [FormsNext]_records, NEW d \in Desks, family = "day",
         form[d] # NoForm, form'[d] # NoForm, ~(form[d].typed \subseteq form'[d].text)
  PROVE  \E k \in Keys : Land(d, k)
<1>1. /\ form \in [Desks -> Forms \union {NoForm}] /\ FormSound(d) /\ form'[d] # form[d]
      /\ ~Holds("switch") /\ ~Holds("file")
  BY LayoutIs DEF FormsInv, FormsTypeOK, DeskSound, FormSound
<1>2. ~(UNCHANGED records) /\ ~Use
  BY <1>1 DEF records, Use
<1>3. PICK e \in Desks : BrowserStep(e) \/ ServerStep(e)
  BY <1>2 DEF FormsNext
<1>4. ~(ServerStep(e))
  BY <1>1 DEF ServerStep, Read, Fetch, Store, Unlink, SaveRecord
<1>5. ~Submit(e) /\ ~Switch(e) /\ ~Remove(e) /\ ~SetOn(e) /\ ~Attach(e)
  BY <1>1 DEF Submit, Switch, Remove, Sends, SetOn, Attach
<1>6. ~(\E young \in BOOLEAN : OpenForm(e, young) \/ \E p \in Keys : Visit(e, p, young))
  <2>1. ~(\E young \in BOOLEAN, p \in Keys : Visit(e, p, young))
    BY <1>1 DEF Visit
  <2>2. ASSUME NEW young, OpenForm(e, young)
        PROVE  FALSE
    <3>1. form[e] = NoForm /\ \E f : form' = [form EXCEPT ![e] = f]
      BY <2>2 DEF OpenForm
    <3>2. QED
      BY <1>1, <3>1
  <2>3. QED
    BY <2>1, <2>2
<1>7. ~Leave(e) /\ ~CloseForm(e)
  BY <1>1 DEF Leave, CloseForm
<1>8. ~Answer(e)
  <2>1. SUFFICES ASSUME Answer(e)
                 PROVE  FALSE
    OBVIOUS
  <2>2. form' = [form EXCEPT ![e] = form[e]]
    BY <2>1 DEF Answer, FormAfter
  <2>3. QED
    BY <1>1, <2>2
<1>9. ~(\E x \in Edits : TypeIn(e, x))
  <2>1. SUFFICES ASSUME NEW x \in Edits, TypeIn(e, x)
                 PROVE  FALSE
    OBVIOUS
  <2>2. form' = [form EXCEPT ![e] = WithEdit(e, x)] /\ form[e] # NoForm
    BY <2>1, TypedInto DEF TypeIn
  <2>3. e = d
    BY <1>1, <2>2
  <2>4. PICK b \in BOOLEAN : b <=> form[d].behind \/ (Asks /\ ~form[d].touched /\ Behind(d, "own"))
    OBVIOUS
  <2>5. PICK t : t = Before(d) \union {x}
    OBVIOUS
  <2>6. form[d].typed \subseteq Before(d)
    BY BeforeIs
  <2>7. form[d] \in Forms /\ form'[d] = WithEdit(d, x)
    BY <1>1, <2>2, <2>3
  <2>8. WithEdit(d, x).text = t
    BY <2>5, <2>7 DEF WithEdit, Forms
  <2>9. QED
    BY <2>5, <2>6, <2>7, <2>8
<1>10. PICK k \in Keys : Land(e, k)
  BY <1>3, <1>4, <1>5, <1>6, <1>7, <1>8, <1>9 DEF BrowserStep
<1>11. e = d
  <2>1. form' = form \/ \E f : form' = [form EXCEPT ![e] = f]
    BY <1>10 DEF Land
  <2>2. QED
    BY <1>1, <2>1
<1>12. QED
  BY <1>10, <1>11

\* daily-words/page.tsx: a month that comes back while a save is under way has that save, or
\* what another window put over it; while none is, an editor that was laid out on what its
\* month said has no month on its way.
THEOREM TypingStays == FormsSpec => TypingSurvives
<1> DEFINE Stays(d) ==
      family = "day" /\ form[d] # NoForm /\ form'[d] # NoForm =>
        \/ form[d].typed \subseteq form'[d].text
        \/ form[d].behind
        \/ form'[d].text \ Known(d) # {}
<1>1. ASSUME FormsInv, [FormsNext]_records, NEW d \in Desks
      PROVE  Stays(d)
  <2>1. SUFFICES ASSUME family = "day", form[d] # NoForm, form'[d] # NoForm,
                        ~(form[d].typed \subseteq form'[d].text), ~form[d].behind
                 PROVE  form'[d].text \ Known(d) # {}
    OBVIOUS
  <2>2. PICK k \in Keys : Land(d, k)
    BY <1>1, <2>1, OnlyMonthsRelay
  <2>3. /\ DaySound(d) /\ FormSound(d) /\ CacheSound(d) /\ family \in Families
        /\ form \in [Desks -> Forms \union {NoForm}]
        /\ cache[d][k].fetch = "answered"
    BY <1>1, <2>2 DEF FormsInv, FormsTypeOK, DeskSound, Land
  <2>4. k = "list"
    <3>1. k # "own"
      BY <2>3 DEF CacheSound
    <3>2. k \in Pages(family)
      BY <2>3, <3>1 DEF CacheSound
    <3>3. QED
      BY <2>1, <2>3, <3>2, PagesAre
  <2>5. call[d].at = "settling" /\ call[d] # NoCall
    <3>1. call[d].at = "settling"
      BY <2>1, <2>3, <2>4 DEF DaySound
    <3>2. QED
      BY <3>1 DEF NoCall
  <2>6. Pending(d)
    BY <2>1, <2>3, <2>5 DEF DaySound, Typed
  <2>7. PICK r : r = CHOOSE s \in cache[d][k].reply : TRUE
    OBVIOUS
  <2>8. r \in cache[d][k].reply
    <3>1. k # "own"
      BY <2>4
    <3>2. cache[d][k].reply # {}
      BY <2>3, <3>1 DEF CacheSound
    <3>3. QED
      BY <2>7, <3>2
  <2>9. News(d, r.text)
    BY <2>3, <2>4, <2>5, <2>6, <2>8 DEF Pending
  <2>10. form'[d].text = r.text
    <3>1. form'[d] = form[d] \/ form'[d] = Relaid(d, r)
      BY <2>2, <2>3, <2>7 DEF Land
    <3>2. form'[d] # form[d]
      BY <2>1, <2>3 DEF FormSound
    <3>3. Relaid(d, r) = form[d] \/ Relaid(d, r).text = r.text
      BY DEF Relaid, FormOf
    <3>4. QED
      BY <3>1, <3>2, <3>3
  <2>11. r.text # form[d].text
    BY <2>1, <2>3, <2>10 DEF FormSound
  <2>12. QED
    BY <2>9, <2>10, <2>11 DEF News
<1>2. FormsInv /\ [FormsNext]_records => \A d \in Desks : Stays(d)
  BY <1>1
<1>3. FormsInv /\ [FormsNext]_records => [\A d \in Desks : Stays(d)]_records
  BY <1>2
<1>4. QED
  BY <1>3, FormsInvariance, PTL DEF FormsSpec, TypingSurvives
=============================================================================
