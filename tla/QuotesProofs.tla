----------------------------- MODULE QuotesProofs ----------------------------
(***************************************************************************)
(* Proofs about Quotes, for any number of visitors, of staff, of requests  *)
(* and of projects, answers lost and handlers that die included.           *)
(***************************************************************************)
EXTENDS Quotes, SequenceTheorems, TLAPS

-----------------------------------------------------------------------------
(* Tables are sequences.                                                   *)

LEMMA TableOf ==
  ASSUME NEW S, NEW t \in Seq(S), NEW f \in [DOMAIN t -> S]
  PROVE  f \in Seq(S) /\ Len(f) = Len(t) /\ DOMAIN f = DOMAIN t
<1>1. Len(t) \in Nat /\ DOMAIN t = 1..Len(t)
  BY LenProperties
<1>2. ASSUME NEW n \in Nat, NEW g \in [1..n -> S]
      PROVE  g \in Seq(S) /\ Len(g) = n
  BY <1>2, SMT
<1> QED BY <1>1, <1>2

LEMMA Insert ==
  ASSUME NEW S, NEW t \in Seq(S), NEW e \in S
  PROVE  /\ Append(t, e) \in Seq(S)
         /\ Len(Append(t, e)) = Len(t) + 1
         /\ Len(t) + 1 \notin DOMAIN t /\ Len(t) + 1 # 0
         /\ DOMAIN Append(t, e) = DOMAIN t \union {Len(t) + 1}
         /\ Append(t, e)[Len(t) + 1] = e
         /\ \A i \in DOMAIN t : Append(t, e)[i] = t[i]
  BY LenProperties, SMT

LEMMA Save ==
  ASSUME NEW S, NEW t \in Seq(S), NEW i \in DOMAIN t, NEW e \in S
  PROVE  /\ [t EXCEPT ![i] = e] \in Seq(S)
         /\ Len([t EXCEPT ![i] = e]) = Len(t)
         /\ DOMAIN [t EXCEPT ![i] = e] = DOMAIN t
         /\ [t EXCEPT ![i] = e][i] = e
         /\ \A j \in DOMAIN t : j # i => [t EXCEPT ![i] = e][j] = t[j]
  BY ExceptSeq, LenProperties

LEMMA NoneIsNone ==
  ASSUME TypeOK
  PROVE  None \notin Requests /\ None \notin Projects /\ None \notin Prices
  BY LenProperties, PriceAssumption DEF TypeOK, Requests, Projects, None

-----------------------------------------------------------------------------
(* Rows only move on.                                                      *)

\* What a step may do to the rows for the pages and the calls of others to stay sound.
RowsMoveOn == \A i \in Requests : i \in Requests' /\ NotBefore(quotes'[i], quotes[i])

\* A page and a call that a step leaves alone.
LEMMA OthersSound ==
  ASSUME IInv, RowsMoveOn, NEW s \in Desk, calls'[s] = calls[s], pages'[s] = pages[s]
  PROVE  /\ CallSound(s)'
         /\ pages'[s].on # None /\ (pages'[s].shown.answered \/ pages'[s].shown.status \in QuotedStatuses)
              => quotes'[pages'[s].on].answered
<1>1. calls[s].id \in Requests \union {None} /\ pages[s].on \in Requests \union {None}
  BY DEF IInv, TypeOK
<1>2. pages[s].on # None /\ (pages[s].shown.answered \/ pages[s].shown.status \in QuotedStatuses)
        => quotes[pages[s].on].answered
  BY DEF IInv, PagesSound
<1>3. pages[s].on # None => (quotes[pages[s].on].answered => quotes'[pages[s].on].answered)
  BY <1>1 DEF RowsMoveOn, NotBefore
<1>4. CallSound(s)
  BY DEF IInv
<1>5. calls[s].step = "let in" => NotBefore(quotes'[calls[s].id], calls[s].kept)
  BY <1>1, <1>4 DEF CallSound, RowsMoveOn, NotBefore
<1>6. CallSound(s)'
  BY <1>4, <1>5 DEF CallSound
<1> QED BY <1>2, <1>3, <1>6

\* An idle call.
LEMMA IdleSound ==
  /\ Idle \in CallRow /\ Idle.id = None /\ Idle.step = "idle" /\ Idle.op = "none"
  /\ Closed \in PageRow /\ Closed.on = None
  BY PriceAssumption DEF Idle, Call, Row, Closed, Shown, CallRow, PageRow, QuoteRow, Statuses, None

\* A handler that is through: its desk has nothing in flight, and its page shows what the
\* handler left, if the answer arrived.
LEMMA AnswerKeeps ==
  ASSUME IInv, NEW s \in Desk, calls[s].step # "idle", Answer(s),
         RowsMoveOn, quotes' \in Seq(QuoteRow), Requests' = Requests,
         \A i \in Requests : Priced(quotes'[i])
  PROVE  /\ calls' \in [Desk -> CallRow] /\ pages' \in [Desk -> PageRow] /\ lost' \in 0 .. MaxLost
         /\ \A u \in Desk : {calls'[u].id, pages'[u].on} \subseteq Requests \union {None}
         /\ calls'[s] = Idle /\ \A u \in Desk \ {s} : calls'[u] = calls[u] /\ pages'[u] = pages[u]
         /\ PagesSound' /\ \A u \in Desk : CallSound(u)'
<1>1. /\ calls[s].id \in Requests /\ pages[s].on = calls[s].id /\ pages[s] \in PageRow
  BY DEF IInv, TypeOK, CallSound
<1>2. calls' \in [Desk -> CallRow] /\ calls'[s] = Idle /\ \A u \in Desk \ {s} : calls'[u] = calls[u]
  BY IdleSound DEF Answer, IInv, TypeOK
<1>3. lost' \in 0 .. MaxLost
  BY BoundsAssumption DEF Answer, IInv, TypeOK
<1>4. quotes'[calls[s].id] \in QuoteRow
  BY <1>1, LenProperties DEF Requests
<1>5. PICK next \in PageRow :
        /\ pages' = [pages EXCEPT ![s] = next]
        /\ next.on \in {None, calls[s].id}
        /\ \/ next.on = None \/ next = pages[s]
           \/ next.shown = Shown(quotes'[calls[s].id])
  <2>1. CASE pages' = pages
    <3>1. pages' = [pages EXCEPT ![s] = pages[s]]
      BY <2>1 DEF IInv, TypeOK
    <3> QED BY <1>1, <3>1
  <2>2. CASE pages' = [pages EXCEPT ![s] = Closed]
    BY <2>2, IdleSound
  <2>3. CASE pages' = [pages EXCEPT ![s] = [@ EXCEPT !.shown = Shown(quotes'[calls[s].id])]]
    <3> DEFINE next == [pages[s] EXCEPT !.shown = Shown(quotes'[calls[s].id])]
    <3>1. /\ next \in PageRow /\ next.on = pages[s].on
          /\ next.shown = Shown(quotes'[calls[s].id])
      BY <1>1, <1>4 DEF PageRow, QuoteRow, Shown
    <3>2. pages' = [pages EXCEPT ![s] = next]
      BY <2>3 DEF IInv, TypeOK
    <3> HIDE DEF next
    <3> QED BY <1>1, <3>1, <3>2
  <2> QED BY <2>1, <2>2, <2>3 DEF Answer
<1>6. /\ pages' \in [Desk -> PageRow] /\ pages'[s] = next
      /\ \A u \in Desk \ {s} : pages'[u] = pages[u]
  BY <1>5 DEF IInv, TypeOK
<1>7. \A u \in Desk : {calls'[u].id, pages'[u].on} \subseteq Requests \union {None}
  BY <1>1, <1>2, <1>5, <1>6, IdleSound DEF IInv, TypeOK
<1>8. CallSound(s)'
  BY <1>2, IdleSound DEF CallSound
<1>9. next.on # None /\ (next.shown.answered \/ next.shown.status \in QuotedStatuses)
        => quotes'[next.on].answered
  <2>1. CASE next = pages[s]
    BY <1>1, <2>1 DEF IInv, PagesSound, RowsMoveOn, NotBefore
  <2>2. CASE next.shown = Shown(quotes'[calls[s].id])
    BY <1>1, <1>5, <2>2 DEF Shown, Priced
  <2> QED BY <1>5, <2>1, <2>2
<1>10. PagesSound'
  BY <1>2, <1>6, <1>9, OthersSound DEF PagesSound
<1>11. \A u \in Desk \ {s} : CallSound(u)'
  BY <1>2, <1>6, OthersSound
<1> QED BY <1>2, <1>3, <1>6, <1>7, <1>8, <1>10, <1>11

-----------------------------------------------------------------------------
(* A save of one row.                                                      *)

\* What a save does to the table, and what is still one of each after it: a save that
\* overtook another changes nothing that a request not overtaken is promised.
LEMMA RowSaved ==
  ASSUME IInv, NEW s \in Desk, calls[s].step # "idle", NEW q \in QuoteRow,
         quotes' = [quotes EXCEPT ![calls[s].id] = q],
         q.ref = quotes[calls[s].id].ref,
         NotBefore(q, quotes[calls[s].id]), Priced(q),
         q.project # None => q.answered,
         Overtakes(s)
  PROVE  /\ quotes' \in Seq(QuoteRow) /\ Len(quotes') = Len(quotes) /\ Requests' = Requests
         /\ quotes'[calls[s].id] = q
         /\ \A i \in Requests : i # calls[s].id => quotes'[i] = quotes[i]
         /\ \A i \in Requests : quotes'[i].ref = quotes[i].ref
         /\ RowsMoveOn /\ RowsPriced' /\ ReferenceForever'
         /\ overtaken \subseteq overtaken' /\ overtaken' \subseteq Requests
         /\ calls[s].id \notin overtaken' => calls[s].kept = quotes[calls[s].id]
<1>1. calls[s].id \in Requests
  BY DEF IInv, TypeOK, CallSound
<1>2. /\ quotes' \in Seq(QuoteRow) /\ Len(quotes') = Len(quotes) /\ Requests' = Requests
      /\ quotes'[calls[s].id] = q
      /\ \A i \in Requests : i # calls[s].id => quotes'[i] = quotes[i]
  BY <1>1, Save DEF Requests, IInv, TypeOK
<1>3. RowsMoveOn
  BY <1>1, <1>2 DEF RowsMoveOn, NotBefore
<1>4. RowsPriced'
  BY <1>1, <1>2 DEF RowsPriced, IInv
<1>5. \A i \in Requests : quotes'[i].ref = quotes[i].ref
  BY <1>1, <1>2
<1>6. ReferenceForever'
  BY <1>2, <1>5 DEF ReferenceForever, OneOfEach, IInv
<1>7. /\ overtaken \subseteq overtaken' /\ overtaken' \subseteq Requests
      /\ calls[s].id \notin overtaken' => calls[s].kept = quotes[calls[s].id]
  BY <1>1 DEF Overtakes, IInv, TypeOK
<1> QED BY <1>2, <1>3, <1>4, <1>5, <1>6, <1>7

\* A save that leaves the link to the project alone.
LEMMA BridgeKept ==
  ASSUME IInv, NEW i \in Requests, NEW q, projects' = projects, Requests' = Requests,
         quotes'[i] = q, \A j \in Requests : j # i => quotes'[j] = quotes[j],
         overtaken \subseteq overtaken',
         q.project = quotes[i].project,
         i \notin overtaken' => /\ q.status = "converted" <=> q.project # None
                                /\ q.deleted => q.project = None
  PROVE  BridgeHolds' /\ ProjectsPriced'
<1>1. \A j : Became(j)' = Became(j)
  BY DEF Became, Projects
<1>2. ASSUME NEW j \in Requests, j \notin overtaken'
      PROVE  /\ Became(j)' = {quotes'[j].project} \ {None}
             /\ quotes'[j].status = "converted" <=> quotes'[j].project # None
             /\ quotes'[j].deleted => quotes'[j].project = None
  <2>1. /\ Became(j) = {quotes[j].project} \ {None}
        /\ quotes[j].status = "converted" <=> quotes[j].project # None
        /\ quotes[j].deleted => quotes[j].project = None
    BY <1>2 DEF IInv, OneOfEach, BridgeHolds
  <2>2. CASE j = i
    BY <1>1, <1>2, <2>1, <2>2
  <2>3. CASE j # i
    BY <1>1, <2>1, <2>3
  <2> QED BY <2>2, <2>3
<1>3. BridgeHolds'
  BY <1>2 DEF BridgeHolds
<1>4. ProjectsPriced'
  BY DEF ProjectsPriced, Projects, IInv
<1> QED BY <1>3, <1>4

\* A call that was let in, and the row it loaded.
LEMMA InFlight ==
  ASSUME IInv, NEW s \in Desk, calls[s].step # "idle"
  PROVE  /\ calls[s].id \in Requests /\ calls[s].id # None /\ pages[s].on = calls[s].id
         /\ calls[s] \in CallRow /\ calls[s].kept \in QuoteRow
         /\ quotes[calls[s].id] \in QuoteRow /\ quotes[calls[s].id].ref \in References
         /\ quotes[calls[s].id].project \in Projects \union {None}
         /\ Priced(quotes[calls[s].id])
         /\ quotes[calls[s].id].project # None => quotes[calls[s].id].answered
         /\ CallSound(s)
<1>1. CallSound(s) /\ calls[s] \in CallRow /\ calls[s].id \in Requests
  BY DEF IInv, TypeOK, CallSound
<1>2. quotes[calls[s].id] \in QuoteRow /\ quotes[calls[s].id].ref \in References
      /\ quotes[calls[s].id].project \in Projects \union {None}
  BY <1>1, LenProperties DEF IInv, TypeOK, Requests
<1>3. Priced(quotes[calls[s].id]) /\ (quotes[calls[s].id].project # None => quotes[calls[s].id].answered)
  BY <1>1 DEF IInv, RowsPriced
<1>4. calls[s].id # None /\ pages[s].on = calls[s].id
  BY <1>1 DEF CallSound
<1>5. calls[s].kept \in QuoteRow
  BY <1>1 DEF CallRow
<1> QED BY <1>1, <1>2, <1>3, <1>4, <1>5

\* Eloquent's save, column by column, of a move or a conversion.
LEMMA WrittenIs ==
  ASSUME IInv, NEW s \in Desk, calls[s].step # "idle", NEW status \in Statuses
  PROVE  LET q == Written(s, status, calls[s].kept.price, FALSE)
         IN  /\ q \in QuoteRow
             /\ q.status = IF status = calls[s].kept.status THEN quotes[calls[s].id].status ELSE status
             /\ q.price = quotes[calls[s].id].price
             /\ q.answered = quotes[calls[s].id].answered
             /\ q.ref = quotes[calls[s].id].ref /\ q.project = quotes[calls[s].id].project
             /\ q.deleted = quotes[calls[s].id].deleted
  BY InFlight DEF Written, QuoteRow

\* The parts of a step in which a call ends with its answer.
LEMMA Ending ==
  ASSUME IInv, NEW s \in Desk, calls[s].step # "idle", Answer(s), UNCHANGED <<forms, moves, pricings, unanswered>>,
         quotes' \in Seq(QuoteRow), Len(quotes') = Len(quotes), Requests' = Requests,
         \A i \in Requests : quotes'[i].ref = quotes[i].ref,
         RowsMoveOn, RowsPriced',
         projects' \in Seq(ProjectRow), \A p \in Projects' : projects'[p].from \in Requests,
         \A i \in Requests : quotes'[i].project \in Projects' \union {None},
         mailed' \in Seq(Prices \union {None}), Len(mailed') = Len(mailed),
         unsent' \union overtaken' \subseteq Requests
  PROVE  /\ TypeOK' /\ FormsFilled' /\ OneRequestPerForm'
         /\ PagesSound' /\ \A u \in Desk : CallSound(u)'
         /\ \A i \in Requests : Mailing(i) /\ (calls[s].step = "saved" => i # calls[s].id) => Mailing(i)'
<1>1. \A i \in Requests : Priced(quotes'[i])
  BY DEF RowsPriced
<1>2. /\ calls' \in [Desk -> CallRow] /\ pages' \in [Desk -> PageRow] /\ lost' \in 0 .. MaxLost
      /\ \A u \in Desk : {calls'[u].id, pages'[u].on} \subseteq Requests \union {None}
      /\ calls'[s] = Idle /\ \A u \in Desk \ {s} : calls'[u] = calls[u] /\ pages'[u] = pages[u]
      /\ PagesSound' /\ \A u \in Desk : CallSound(u)'
  BY <1>1, AnswerKeeps
<1>3. TypeOK'
  BY <1>2 DEF IInv, TypeOK
<1>4. FormsFilled' /\ OneRequestPerForm'
  BY DEF IInv, OneOfEach, FormsFilled, OneRequestPerForm
<1>5. ASSUME NEW i \in Requests, Mailing(i), calls[s].step = "saved" => i # calls[s].id
      PROVE  Mailing(i)'
  <2>1. PICK u \in Desk : At(u, {"respond"}, "saved") /\ calls[u].id = i
    BY <1>5 DEF Mailing
  <2>2. u # s
    BY <1>5, <2>1 DEF At
  <2> QED BY <1>2, <2>1, <2>2 DEF Mailing, At
<1> QED BY <1>2, <1>3, <1>4, <1>5

LEMMA SaveMoveKeeps ==
  ASSUME IInv, NEW s \in Desk, SaveMove(s)
  PROVE  IInv'
<1> DEFINE c == calls[s]  cur == quotes[c.id]  q == Written(s, c.op, c.kept.price, FALSE)
<1>1. /\ c.step = "let in" /\ c.op \in Moves /\ c.step # "idle"
      /\ quotes' = [quotes EXCEPT ![c.id] = q] /\ Overtakes(s) /\ Answer(s)
      /\ UNCHANGED <<projects, forms, mailed, unsent, unanswered, moves, pricings>>
  BY DEF SaveMove, At
<1>2. c.op \in Statuses /\ c.op # "new" /\ c.op # "converted" /\ c.kept.price \in Prices \union {None}
  BY <1>1, InFlight DEF Moves, Statuses, QuoteRow
<1>3. /\ q \in QuoteRow /\ q.status = IF c.op = c.kept.status THEN cur.status ELSE c.op
      /\ q.price = cur.price /\ q.answered = cur.answered
      /\ q.ref = cur.ref /\ q.project = cur.project /\ q.deleted = cur.deleted
  BY <1>1, <1>2, WrittenIs
<1>4. /\ c.id \in Requests /\ Priced(cur) /\ MayMove(c.kept, c.op)
      /\ NotBefore(cur, c.kept) /\ (cur.project # None => cur.answered)
      /\ cur.project \in Projects \union {None}
  BY <1>1, InFlight DEF CallSound
<1> HIDE DEF q
<1>5. NotBefore(q, cur)
  BY <1>2, <1>3, <1>4 DEF NotBefore
<1>6. Priced(q)
  BY <1>1, <1>2, <1>3, <1>4 DEF Priced, NotBefore, MayMove, HasQuote, QuotedStatuses, Moves
<1>7. /\ quotes' \in Seq(QuoteRow) /\ Len(quotes') = Len(quotes) /\ Requests' = Requests
      /\ quotes'[c.id] = q /\ \A i \in Requests : i # c.id => quotes'[i] = quotes[i]
      /\ \A i \in Requests : quotes'[i].ref = quotes[i].ref
      /\ RowsMoveOn /\ RowsPriced' /\ ReferenceForever'
      /\ overtaken \subseteq overtaken' /\ overtaken' \subseteq Requests
      /\ c.id \notin overtaken' => c.kept = cur
  BY <1>1, <1>3, <1>4, <1>5, <1>6, RowSaved
<1>8. BridgeHolds' /\ ProjectsPriced'
  <2>1. ASSUME c.id \notin overtaken'
        PROVE  (q.status = "converted" <=> q.project # None) /\ (q.deleted => q.project = None)
    <3>1. c.id \notin overtaken /\ cur = c.kept
      BY <1>7, <2>1
    <3>2. (cur.status = "converted" <=> cur.project # None) /\ (cur.deleted => cur.project = None)
      BY <1>4, <3>1 DEF IInv, OneOfEach, BridgeHolds
    <3> QED BY <1>2, <1>3, <1>4, <3>1, <3>2 DEF MayMove
  <2> HIDE DEF c, cur
  <2> QED BY <1>1, <1>3, <1>4, <1>7, <2>1, BridgeKept DEF c, cur
<1>9. \A i \in Requests : quotes'[i].project = quotes[i].project /\ quotes'[i].price = quotes[i].price
  BY <1>3, <1>4, <1>7
<1>10. /\ TypeOK' /\ FormsFilled' /\ OneRequestPerForm' /\ PagesSound' /\ \A u \in Desk : CallSound(u)'
       /\ \A i \in Requests : Mailing(i) => Mailing(i)'
  <2>1. \A i \in Requests : quotes'[i].project \in Projects' \union {None}
    BY <1>1, <1>9 DEF Projects, IInv, TypeOK
  <2>2. projects' \in Seq(ProjectRow) /\ \A p \in Projects' : projects'[p].from \in Requests
    BY <1>1 DEF Projects, IInv, TypeOK
  <2>3. /\ mailed' \in Seq(Prices \union {None}) /\ Len(mailed') = Len(mailed)
        /\ unsent' \union overtaken' \subseteq Requests
    BY <1>1, <1>7 DEF IInv, TypeOK
  <2> QED BY <1>1, <1>7, <2>1, <2>2, <2>3, Ending
<1>11. MailsMatch'
  BY <1>1, <1>7, <1>9, <1>10 DEF MailsMatch, IInv
<1> QED BY <1>7, <1>8, <1>10, <1>11 DEF IInv, OneOfEach

\* A pricing: the row has the price, and either the mail is still to go out or it is known
\* that there is none.
LEMMA SaveRespondKeeps ==
  ASSUME IInv, NEW s \in Desk, SaveRespond(s)
  PROVE  IInv'
<1> DEFINE c == calls[s]  cur == quotes[c.id]  q == Written(s, Repriced(c.kept.status), c.price, TRUE)
<1>1. /\ c.step = "let in" /\ c.op = "respond" /\ c.step # "idle"
      /\ quotes' = [quotes EXCEPT ![c.id] = q] /\ Overtakes(s)
      /\ UNCHANGED <<projects, forms, mailed, unanswered, moves, pricings>>
      /\ \/ Answer(s) /\ unsent' = unsent \union {c.id}
         \/ /\ calls' = [calls EXCEPT ![s] = Call(c.op, c.id, c.price, TRUE, "saved")]
            /\ UNCHANGED <<pages, unsent, lost>>
  BY DEF SaveRespond, At
<1>2. /\ c.id \in Requests /\ c.id # None /\ pages[s].on = c.id /\ Priced(cur) /\ MayRespond(c.kept)
      /\ c.price # None /\ c.price \in Prices \union {None} /\ c.kept \in QuoteRow
      /\ NotBefore(cur, c.kept) /\ cur.project \in Projects \union {None} /\ cur \in QuoteRow
      /\ c \in CallRow
  BY <1>1, InFlight DEF CallSound, CallRow
<1>3. /\ q \in QuoteRow
      /\ q.status = cur.status \/ q.status = "quoted"
      /\ q.status = cur.status => c.kept.status # "new" \/ q.status # "new"
      /\ q.price = IF c.price = c.kept.price THEN cur.price ELSE c.price
      /\ q.answered = TRUE
      /\ q.ref = cur.ref /\ q.project = cur.project /\ q.deleted = cur.deleted
      /\ c.kept.status = "new" => q.status = "quoted"
  BY <1>1, <1>2, ZenonT(40) DEF Written, QuoteRow, Repriced, Statuses
<1>4. cur.status = "converted" /\ cur = c.kept => q.status = "converted"
  BY <1>2 DEF MayRespond
<1>5. cur = c.kept => q.status # "converted"
  BY <1>2, <1>3 DEF MayRespond
<1> HIDE DEF q
<1>6. NotBefore(q, cur)
  BY <1>2, <1>3 DEF NotBefore
<1>7. Priced(q)
  <2>1. q.price # None
    BY <1>2, <1>3 DEF NotBefore
  <2>2. q.status # "new"
    BY <1>2, <1>3 DEF NotBefore
  <2> QED BY <1>3, <2>1, <2>2 DEF Priced
<1>8. /\ quotes' \in Seq(QuoteRow) /\ Len(quotes') = Len(quotes) /\ Requests' = Requests
      /\ quotes'[c.id] = q /\ \A i \in Requests : i # c.id => quotes'[i] = quotes[i]
      /\ \A i \in Requests : quotes'[i].ref = quotes[i].ref
      /\ RowsMoveOn /\ RowsPriced' /\ ReferenceForever'
      /\ overtaken \subseteq overtaken' /\ overtaken' \subseteq Requests
      /\ c.id \notin overtaken' => c.kept = cur
  BY <1>1, <1>3, <1>6, <1>7, RowSaved
<1>9. BridgeHolds' /\ ProjectsPriced'
  <2>1. ASSUME c.id \notin overtaken'
        PROVE  (q.status = "converted" <=> q.project # None) /\ (q.deleted => q.project = None)
    <3>1. c.id \notin overtaken /\ cur = c.kept
      BY <1>8, <2>1
    <3>2. (cur.status = "converted" <=> cur.project # None) /\ (cur.deleted => cur.project = None)
      BY <1>2, <3>1 DEF IInv, OneOfEach, BridgeHolds
    <3> QED BY <1>2, <1>3, <1>5, <3>1, <3>2 DEF MayRespond
  <2> HIDE DEF c, cur
  <2> QED BY <1>1, <1>2, <1>3, <1>8, <2>1, BridgeKept DEF c, cur
<1>10. \A i \in Requests : /\ quotes'[i].project = quotes[i].project
                           /\ i # c.id => quotes'[i].price = quotes[i].price
  BY <1>2, <1>3, <1>8
<1>11. /\ \A i \in Requests : quotes'[i].project \in Projects' \union {None}
       /\ projects' \in Seq(ProjectRow) /\ \A p \in Projects' : projects'[p].from \in Requests
       /\ mailed' \in Seq(Prices \union {None}) /\ Len(mailed') = Len(mailed)
  BY <1>1, <1>10 DEF Projects, IInv, TypeOK
<1>12. CASE Answer(s) /\ unsent' = unsent \union {c.id}
  <2>1. unsent' \union overtaken' \subseteq Requests
    BY <1>2, <1>8, <1>12 DEF IInv, TypeOK
  <2>2. /\ TypeOK' /\ FormsFilled' /\ OneRequestPerForm' /\ PagesSound' /\ \A u \in Desk : CallSound(u)'
        /\ \A i \in Requests : Mailing(i) => Mailing(i)'
    BY <1>1, <1>8, <1>11, <1>12, <2>1, Ending
  <2>3. MailsMatch'
    BY <1>1, <1>8, <1>10, <1>12, <2>2 DEF MailsMatch, IInv
  <2> QED BY <1>8, <1>9, <2>2, <2>3 DEF IInv, OneOfEach
<1>13. CASE /\ calls' = [calls EXCEPT ![s] = Call(c.op, c.id, c.price, TRUE, "saved")]
            /\ UNCHANGED <<pages, unsent, lost>>
  <2> DEFINE next == Call(c.op, c.id, c.price, TRUE, "saved")
  <2>1. /\ next \in CallRow /\ next.id = c.id /\ next.step = "saved" /\ next.op = "respond"
    BY <1>1, <1>2 DEF Call, CallRow, Row, QuoteRow, Statuses, None
  <2> HIDE DEF next
  <2>2. calls' \in [Desk -> CallRow] /\ calls'[s] = next /\ \A u \in Desk \ {s} : calls'[u] = calls[u]
    BY <1>13, <2>1 DEF IInv, TypeOK, next
  <2>3. TypeOK'
    <3>1. /\ Requests' = Requests /\ Len(quotes') = Len(quotes)
          /\ UNCHANGED <<forms, unsent, unanswered, moves, pricings, lost, pages>>
          /\ unsent' \union overtaken' \union unanswered' \subseteq Requests
      BY <1>1, <1>8, <1>13 DEF IInv, TypeOK
    <3>2. \A u \in Desk : calls'[u].id \in Requests \union {None}
      BY <1>2, <2>1, <2>2 DEF IInv, TypeOK
    <3>3. \A i \in Requests : quotes'[i].ref \in References
      BY <1>8 DEF IInv, TypeOK
    <3> HIDE DEF c, cur
    <3> QED BY <1>8, <1>11, <2>2, <3>1, <3>2, <3>3 DEF IInv, TypeOK
  <2>4. FormsFilled' /\ OneRequestPerForm'
    <3>1. Requests' = Requests /\ UNCHANGED <<forms, unanswered>>
      BY <1>1, <1>8
    <3> HIDE DEF c, cur
    <3> QED BY <3>1 DEF IInv, OneOfEach, FormsFilled, OneRequestPerForm
  <2>5. CallSound(s)'
    BY <1>2, <1>13, <2>1, <2>2 DEF CallSound
  <2>6. \A u \in Desk \ {s} : CallSound(u)'
    BY <1>8, <1>13, <2>2, OthersSound
  <2>7. PagesSound'
    <3>1. ASSUME NEW u \in Desk, pages[u].on # None,
                 pages[u].shown.answered \/ pages[u].shown.status \in QuotedStatuses
          PROVE  quotes'[pages[u].on].answered
      <4>1. quotes[pages[u].on].answered /\ pages[u].on \in Requests
        BY <3>1 DEF IInv, PagesSound, TypeOK
      <4> QED BY <1>8, <4>1 DEF RowsMoveOn, NotBefore
    <3> QED BY <1>13, <3>1 DEF PagesSound
  <2>8. MailsMatch'
    <3>1. \A i \in Requests : i = c.id => Mailing(i)'
      BY <2>1, <2>2 DEF Mailing, At
    <3>2. \A i \in Requests : Mailing(i) => Mailing(i)'
      BY <1>1, <2>2 DEF Mailing, At
    <3>3. Requests' = Requests /\ UNCHANGED <<mailed, unsent>>
      BY <1>1, <1>8, <1>13
    <3> HIDE DEF c, cur
    <3> QED BY <1>10, <3>1, <3>2, <3>3 DEF MailsMatch, IInv
  <2> QED BY <1>8, <1>9, <2>3, <2>4, <2>5, <2>6, <2>7, <2>8 DEF IInv, OneOfEach
<1> QED BY <1>1, <1>12, <1>13

LEMMA SaveDeleteKeeps ==
  ASSUME IInv, NEW s \in Desk, SaveDelete(s)
  PROVE  IInv'
<1> DEFINE c == calls[s]  cur == quotes[c.id]  q == [cur EXCEPT !.deleted = TRUE]
<1>1. /\ c.step = "let in" /\ c.op = "delete" /\ c.step # "idle" /\ Overtakes(s) /\ Answer(s)
      /\ quotes' = [quotes EXCEPT ![c.id] = q]
      /\ UNCHANGED <<projects, forms, mailed, unsent, unanswered, moves, pricings>>
  BY DEF SaveDelete, At
<1>2. /\ c.id \in Requests /\ Priced(cur) /\ c.kept.project = None
      /\ (cur.project # None => cur.answered)
      /\ cur.project \in Projects \union {None} /\ cur \in QuoteRow
  BY <1>1, InFlight DEF CallSound
<1>3. /\ q \in QuoteRow /\ q.status = cur.status /\ q.price = cur.price /\ q.answered = cur.answered
      /\ q.ref = cur.ref /\ q.project = cur.project
  BY <1>2 DEF QuoteRow
<1> HIDE DEF q
<1>4. NotBefore(q, cur) /\ Priced(q)
  BY <1>2, <1>3 DEF NotBefore, Priced
<1>5. /\ quotes' \in Seq(QuoteRow) /\ Len(quotes') = Len(quotes) /\ Requests' = Requests
      /\ quotes'[c.id] = q /\ \A i \in Requests : i # c.id => quotes'[i] = quotes[i]
      /\ \A i \in Requests : quotes'[i].ref = quotes[i].ref
      /\ RowsMoveOn /\ RowsPriced' /\ ReferenceForever'
      /\ overtaken \subseteq overtaken' /\ overtaken' \subseteq Requests
      /\ c.id \notin overtaken' => c.kept = cur
  BY <1>1, <1>2, <1>3, <1>4, RowSaved
<1>6. BridgeHolds' /\ ProjectsPriced'
  <2>1. ASSUME c.id \notin overtaken'
        PROVE  (q.status = "converted" <=> q.project # None) /\ (q.deleted => q.project = None)
    <3>1. c.id \notin overtaken /\ cur = c.kept
      BY <1>5, <2>1
    <3>2. cur.status = "converted" <=> cur.project # None
      BY <1>2, <3>1 DEF IInv, OneOfEach, BridgeHolds
    <3> QED BY <1>2, <1>3, <3>1, <3>2
  <2> HIDE DEF c, cur
  <2> QED BY <1>1, <1>2, <1>3, <1>5, <2>1, BridgeKept DEF c, cur
<1>7. \A i \in Requests : quotes'[i].project = quotes[i].project /\ quotes'[i].price = quotes[i].price
  BY <1>2, <1>3, <1>5
<1>8. /\ TypeOK' /\ FormsFilled' /\ OneRequestPerForm' /\ PagesSound' /\ \A u \in Desk : CallSound(u)'
      /\ \A i \in Requests : Mailing(i) => Mailing(i)'
  <2>1. /\ \A i \in Requests : quotes'[i].project \in Projects' \union {None}
        /\ projects' \in Seq(ProjectRow) /\ \A p \in Projects' : projects'[p].from \in Requests
        /\ mailed' \in Seq(Prices \union {None}) /\ Len(mailed') = Len(mailed)
        /\ unsent' \union overtaken' \subseteq Requests
    BY <1>1, <1>5, <1>7 DEF Projects, IInv, TypeOK
  <2> QED BY <1>1, <1>5, <2>1, Ending
<1>9. MailsMatch'
  BY <1>1, <1>5, <1>7, <1>8 DEF MailsMatch, IInv
<1> QED BY <1>5, <1>6, <1>8, <1>9 DEF IInv, OneOfEach

-----------------------------------------------------------------------------
(* The project.                                                            *)

LEMMA SaveConvertKeeps ==
  ASSUME IInv, NEW s \in Desk, SaveConvert(s)
  PROVE  IInv'
<1> DEFINE c == calls[s]  cur == quotes[c.id]  n == Len(projects) + 1
           w == Written(s, "converted", c.kept.price, FALSE)
           q == [w EXCEPT !.project = n]
           made == [from |-> c.id, price |-> ProjectPrice(c), standing |-> TRUE]
<1>1. /\ c.step = "let in" /\ c.op = "convert" /\ c.step # "idle" /\ Overtakes(s) /\ Answer(s)
      /\ quotes' = [quotes EXCEPT ![c.id] = q] /\ projects' = Append(projects, made)
      /\ UNCHANGED <<forms, mailed, unsent, unanswered, moves, pricings>>
  BY DEF SaveConvert, At
<1>2. /\ c.id \in Requests /\ c.id \in Nat /\ Priced(cur) /\ Priced(c.kept) /\ NotBefore(cur, c.kept)
      /\ c.kept.project = None /\ c.kept.answered /\ ~c.kept.deleted
      /\ c \in CallRow /\ c.kept \in QuoteRow /\ cur \in QuoteRow
  BY <1>1, InFlight DEF CallSound, CallRow
<1>3. n \in Nat /\ n # None /\ n \notin Projects
  BY LenProperties DEF IInv, TypeOK, Projects, None
<1>4. /\ w \in QuoteRow /\ w.status = IF "converted" = c.kept.status THEN cur.status ELSE "converted"
      /\ w.price = cur.price /\ w.answered = cur.answered
      /\ w.ref = cur.ref /\ w.deleted = cur.deleted
  BY <1>1, WrittenIs DEF Statuses
<1> HIDE DEF w
<1>5. /\ q \in QuoteRow /\ q.status = w.status /\ q.price = cur.price /\ q.answered = cur.answered
      /\ q.ref = cur.ref /\ q.deleted = cur.deleted /\ q.project = n
  BY <1>3, <1>4 DEF QuoteRow
<1>6. made \in ProjectRow /\ made.from = c.id /\ made.standing = TRUE /\ made.price # None
  BY <1>2 DEF ProjectRow, ProjectPrice, CallRow, QuoteRow, Priced
<1> HIDE DEF q, n, made
<1>7. NotBefore(q, cur) /\ Priced(q) /\ q.answered
  BY <1>2, <1>4, <1>5 DEF NotBefore, Priced
<1>8. /\ quotes' \in Seq(QuoteRow) /\ Len(quotes') = Len(quotes) /\ Requests' = Requests
      /\ quotes'[c.id] = q /\ \A i \in Requests : i # c.id => quotes'[i] = quotes[i]
      /\ \A i \in Requests : quotes'[i].ref = quotes[i].ref
      /\ RowsMoveOn /\ RowsPriced' /\ ReferenceForever'
      /\ overtaken \subseteq overtaken' /\ overtaken' \subseteq Requests
      /\ c.id \notin overtaken' => c.kept = cur
  BY <1>1, <1>5, <1>7, RowSaved
<1>9. /\ projects' \in Seq(ProjectRow) /\ Projects' = Projects \union {n}
      /\ projects'[n] = made /\ \A p \in Projects : projects'[p] = projects[p]
  <2>1. projects \in Seq(ProjectRow) /\ projects' = Append(projects, made)
    BY <1>1 DEF IInv, TypeOK
  <2> HIDE DEF c
  <2> QED BY <1>6, <2>1, Insert DEF Projects, n
<1>10. BridgeHolds'
  <2>1. ASSUME NEW j \in Requests, j \notin overtaken'
        PROVE  /\ {p \in Projects' : projects'[p].from = j /\ projects'[p].standing}
                    = {quotes'[j].project} \ {None}
               /\ quotes'[j].status = "converted" <=> quotes'[j].project # None
               /\ quotes'[j].deleted => quotes'[j].project = None
    <3>1. /\ {p \in Projects : projects[p].from = j /\ projects[p].standing}
               = {quotes[j].project} \ {None}
          /\ quotes[j].status = "converted" <=> quotes[j].project # None
          /\ quotes[j].deleted => quotes[j].project = None
      BY <1>8, <2>1 DEF IInv, OneOfEach, BridgeHolds, Became
    <3>2. CASE j # c.id
      <4>1. {p \in Projects' : projects'[p].from = j /\ projects'[p].standing}
              = {p \in Projects : projects[p].from = j /\ projects[p].standing}
        BY <1>3, <1>6, <1>9, <3>2
      <4> QED BY <1>8, <3>1, <3>2, <4>1
    <3>3. CASE j = c.id
      <4>1. cur = c.kept /\ cur.project = None /\ q.status = "converted" /\ ~q.deleted
        BY <1>2, <1>4, <1>5, <1>8, <2>1, <3>1, <3>3
      <4>2. {p \in Projects : projects[p].from = j /\ projects[p].standing} = {}
        BY <3>1, <3>3, <4>1
      <4>3. {p \in Projects' : projects'[p].from = j /\ projects'[p].standing} = {n}
        BY <1>6, <1>9, <3>3, <4>2
      <4> QED BY <1>3, <1>5, <1>8, <3>3, <4>1, <4>3
    <3> QED BY <3>2, <3>3
  <2> QED BY <1>8, <2>1 DEF BridgeHolds, Became
<1>11. ProjectsPriced'
  BY <1>6, <1>9 DEF ProjectsPriced, IInv
<1>12. \A i \in Requests : quotes'[i].price = quotes[i].price
  BY <1>5, <1>8
<1>13. /\ TypeOK' /\ FormsFilled' /\ OneRequestPerForm' /\ PagesSound' /\ \A u \in Desk : CallSound(u)'
       /\ \A i \in Requests : Mailing(i) => Mailing(i)'
  <2>1. /\ \A i \in Requests : quotes'[i].project \in Projects' \union {None}
        /\ projects' \in Seq(ProjectRow) /\ \A p \in Projects' : projects'[p].from \in Requests
    BY <1>2, <1>5, <1>6, <1>8, <1>9 DEF IInv, TypeOK
  <2>2. /\ mailed' \in Seq(Prices \union {None}) /\ Len(mailed') = Len(mailed)
        /\ unsent' \union overtaken' \subseteq Requests
    BY <1>1, <1>8 DEF IInv, TypeOK
  <2> QED BY <1>1, <1>8, <2>1, <2>2, Ending
<1>14. MailsMatch'
  <2>1. Requests' = Requests /\ UNCHANGED <<mailed, unsent>>
    BY <1>1, <1>8
  <2> QED BY <1>12, <1>13, <2>1 DEF MailsMatch, IInv
<1> QED BY <1>8, <1>10, <1>11, <1>13, <1>14 DEF IInv, OneOfEach

\* A deleted project hands its request back, whoever has its page open.
LEMMA DestroyKeeps ==
  ASSUME IInv, NEW p \in Projects, Destroy(p)
  PROVE  IInv'
<1> DEFINE Row2(i) == IF quotes[i].project = p /\ ~quotes[i].deleted THEN HandedBack(quotes[i]) ELSE quotes[i]
<1>1. /\ quotes' = [i \in Requests |-> Row2(i)]
      /\ projects' = [projects EXCEPT ![p].standing = FALSE]
      /\ UNCHANGED <<calls, pages, forms, hist, moves, pricings, lost>>
  BY DEF Destroy
<1>2. p # None
  BY NoneIsNone DEF IInv
<1>3. ASSUME NEW i \in Requests
      PROVE  /\ quotes[i] \in QuoteRow /\ Row2(i) \in QuoteRow
             /\ Row2(i).ref = quotes[i].ref /\ Row2(i).price = quotes[i].price
             /\ Row2(i).answered = quotes[i].answered /\ Row2(i).deleted = quotes[i].deleted
             /\ \/ Row2(i).project = quotes[i].project /\ Row2(i).status = quotes[i].status
                   /\ (quotes[i].project = p => quotes[i].deleted)
                \/ Row2(i).project = None /\ Row2(i).status = "accepted"
                   /\ quotes[i].project = p /\ ~quotes[i].deleted
  <2>1. quotes[i] \in QuoteRow
    BY <1>3, LenProperties DEF IInv, TypeOK, Requests
  <2> QED BY <2>1 DEF HandedBack, QuoteRow, Statuses, None
<1>4. \A i \in Requests : quotes'[i] = Row2(i)
  BY <1>1
<1>5. quotes' \in Seq(QuoteRow) /\ Len(quotes') = Len(quotes) /\ Requests' = Requests
  <2>1. quotes' \in [Requests -> QuoteRow]
    BY <1>1, <1>3
  <2> QED BY <2>1, TableOf DEF Requests, IInv, TypeOK
<1> HIDE DEF Row2
<1>6. RowsPriced' /\ RowsMoveOn
  BY <1>2, <1>3, <1>4, <1>5 DEF RowsPriced, RowsMoveOn, Priced, NotBefore, IInv, QuotedStatuses
<1>7. /\ projects' \in Seq(ProjectRow) /\ Projects' = Projects
      /\ \A r \in Projects : /\ projects'[r].from = projects[r].from
                             /\ projects'[r].price = projects[r].price
                             /\ projects'[r].standing = IF r = p THEN FALSE ELSE projects[r].standing
  <2>1. projects[p] \in ProjectRow
    BY LenProperties DEF IInv, TypeOK, Projects
  <2>2. [projects[p] EXCEPT !.standing = FALSE] \in ProjectRow
    BY <2>1 DEF ProjectRow
  <2>3. projects' = [projects EXCEPT ![p] = [projects[p] EXCEPT !.standing = FALSE]]
    BY <1>1
  <2>4. /\ [projects[p] EXCEPT !.standing = FALSE].from = projects[p].from
        /\ [projects[p] EXCEPT !.standing = FALSE].price = projects[p].price
        /\ [projects[p] EXCEPT !.standing = FALSE].standing = FALSE
    BY <2>1 DEF ProjectRow
  <2> QED BY <2>2, <2>3, <2>4, Save DEF IInv, TypeOK, Projects
<1>8. ReferenceForever'
  BY <1>3, <1>4, <1>5 DEF ReferenceForever, IInv, OneOfEach
<1>9. BridgeHolds'
  <2>1. ASSUME NEW j \in Requests, j \notin overtaken
        PROVE  /\ {r \in Projects : projects'[r].from = j /\ projects'[r].standing}
                    = {quotes'[j].project} \ {None}
               /\ quotes'[j].status = "converted" <=> quotes'[j].project # None
               /\ quotes'[j].deleted => quotes'[j].project = None
    <3>1. /\ {r \in Projects : projects[r].from = j /\ projects[r].standing}
               = {quotes[j].project} \ {None}
          /\ quotes[j].status = "converted" <=> quotes[j].project # None
          /\ quotes[j].deleted => quotes[j].project = None
      BY <2>1 DEF IInv, OneOfEach, BridgeHolds, Became
    <3>2. {r \in Projects : projects'[r].from = j /\ projects'[r].standing}
            = {r \in Projects : projects[r].from = j /\ projects[r].standing} \ {p}
      BY <1>7
    <3>3. CASE quotes[j].project = p
      BY <1>2, <1>3, <1>4, <3>1, <3>2, <3>3
    <3>4. CASE quotes[j].project # p
      BY <1>3, <1>4, <3>1, <3>2, <3>4
    <3> QED BY <3>3, <3>4
  <2>2. overtaken' = overtaken
    BY <1>1 DEF hist
  <2> QED BY <1>5, <1>7, <2>1, <2>2 DEF BridgeHolds, Became
<1>10. ProjectsPriced'
  BY <1>7 DEF ProjectsPriced, IInv
<1>11. UNCHANGED <<calls, pages, forms, mailed, unsent, overtaken, unanswered, moves, pricings, lost>>
  BY <1>1 DEF hist
<1>12. TypeOK'
  <2>1. \A i \in Requests : quotes'[i].ref \in References /\ quotes'[i].project \in Projects \union {None}
    BY <1>3, <1>4 DEF IInv, TypeOK
  <2> QED BY <1>5, <1>7, <1>11, <2>1 DEF IInv, TypeOK
<1>13. FormsFilled' /\ OneRequestPerForm'
  BY <1>5, <1>11 DEF IInv, OneOfEach, FormsFilled, OneRequestPerForm
<1>14. \A u \in Desk : CallSound(u)'
  BY <1>6, <1>11, OthersSound
<1>15. PagesSound'
  BY <1>6, <1>11, OthersSound DEF PagesSound
<1>16. MailsMatch'
  <2>1. \A i \in Requests : quotes'[i].price = quotes[i].price
    BY <1>3, <1>4
  <2>2. \A i \in Requests : Mailing(i) => Mailing(i)'
    BY <1>11 DEF Mailing, At
  <2> QED BY <1>5, <1>11, <2>1, <2>2 DEF MailsMatch, IInv
<1> QED BY <1>6, <1>8, <1>9, <1>10, <1>12, <1>13, <1>14, <1>15, <1>16 DEF IInv, OneOfEach

-----------------------------------------------------------------------------
(* The mail.                                                               *)

\* A handler that ends after its save, with the mail sent or not.
LEMMA MailKeeps ==
  ASSUME IInv, NEW s \in Desk, Notify(s) \/ Die(s)
  PROVE  IInv'
<1>1. /\ calls[s].op = "respond" /\ calls[s].step = "saved" /\ calls[s].step # "idle"
      /\ UNCHANGED <<rows, forms, overtaken, unanswered, moves, pricings>>
  BY DEF Notify, Die, At
<1>2. calls[s].id \in Requests
  BY <1>1, InFlight
<1>3. RowsMoveOn /\ RowsPriced' /\ Requests' = Requests /\ Projects' = Projects
      /\ UNCHANGED <<quotes, projects>>
  BY <1>1 DEF RowsMoveOn, NotBefore, RowsPriced, IInv, rows, Projects, Requests
<1>4. ReferenceForever' /\ BridgeHolds' /\ ProjectsPriced'
  BY <1>1, <1>3 DEF ReferenceForever, BridgeHolds, Became, ProjectsPriced, IInv, OneOfEach
<1>5. /\ quotes' \in Seq(QuoteRow) /\ Len(quotes') = Len(quotes)
      /\ \A i \in Requests : quotes'[i].ref = quotes[i].ref
      /\ projects' \in Seq(ProjectRow) /\ \A p \in Projects' : projects'[p].from \in Requests
      /\ \A i \in Requests : quotes'[i].project \in Projects' \union {None}
  BY <1>3 DEF IInv, TypeOK
<1>6. CASE Notify(s)
  <2>1. /\ mailed' = [mailed EXCEPT ![calls[s].id] = quotes[calls[s].id].price]
        /\ unsent' = unsent \ {calls[s].id} /\ Answer(s)
    BY <1>6 DEF Notify, MailPrice
  <2>2. calls[s].id \in DOMAIN mailed /\ DOMAIN mailed = Requests
    BY <1>2, LenProperties DEF IInv, TypeOK, Requests
  <2>3. quotes[calls[s].id].price \in Prices \union {None}
    BY <1>1, InFlight DEF QuoteRow
  <2>4. /\ mailed' \in Seq(Prices \union {None}) /\ Len(mailed') = Len(mailed)
        /\ mailed'[calls[s].id] = quotes[calls[s].id].price
        /\ \A i \in Requests : i # calls[s].id => mailed'[i] = mailed[i]
    BY <2>1, <2>2, <2>3, Save DEF IInv, TypeOK
  <2>5. unsent' \union overtaken' \subseteq Requests
    BY <1>1, <2>1 DEF IInv, TypeOK
  <2>6. /\ TypeOK' /\ FormsFilled' /\ OneRequestPerForm' /\ PagesSound' /\ \A u \in Desk : CallSound(u)'
        /\ \A i \in Requests : Mailing(i) /\ i # calls[s].id => Mailing(i)'
    BY <1>1, <1>3, <1>5, <2>1, <2>4, <2>5, Ending
  <2>7. MailsMatch'
    <3>1. ASSUME NEW i \in Requests, i \notin unsent'
          PROVE  Mailing(i)' \/ mailed'[i] = quotes'[i].price
      <4>1. CASE i = calls[s].id
        BY <1>3, <2>4, <4>1
      <4>2. CASE i # calls[s].id
        BY <1>3, <2>1, <2>4, <2>6, <3>1, <4>2 DEF MailsMatch, IInv
      <4> QED BY <4>1, <4>2
    <3> QED BY <1>3, <3>1 DEF MailsMatch
  <2> QED BY <1>3, <1>4, <2>6, <2>7 DEF IInv, OneOfEach
<1>7. CASE Die(s)
  <2>1. /\ lost < MaxLost /\ lost' = lost + 1 /\ unsent' = unsent \union {calls[s].id}
        /\ calls' = [calls EXCEPT ![s] = Idle] /\ UNCHANGED <<pages, mailed>>
    BY <1>7 DEF Die
  <2>2. /\ calls' \in [Desk -> CallRow] /\ calls'[s] = Idle
        /\ \A u \in Desk \ {s} : calls'[u] = calls[u]
    BY <2>1, IdleSound DEF IInv, TypeOK
  <2>3. lost' \in 0 .. MaxLost /\ unsent' \union overtaken' \subseteq Requests
    BY <1>1, <1>2, <2>1, BoundsAssumption DEF IInv, TypeOK
  <2>4. \A u \in Desk : calls'[u].id \in Requests \union {None}
    BY <2>2, IdleSound DEF IInv, TypeOK
  <2>5. TypeOK'
    BY <1>1, <1>3, <2>1, <2>2, <2>3, <2>4 DEF IInv, TypeOK
  <2>6. FormsFilled' /\ OneRequestPerForm' /\ PagesSound'
    BY <1>1, <1>3, <2>1 DEF IInv, OneOfEach, FormsFilled, OneRequestPerForm, PagesSound
  <2>7. \A u \in Desk \ {s} : CallSound(u)'
    BY <1>3, <2>1, <2>2, OthersSound
  <2>8. CallSound(s)'
    BY <2>2, IdleSound DEF CallSound
  <2>9. MailsMatch'
    <3>1. ASSUME NEW i \in Requests, i \notin unsent'
          PROVE  Mailing(i)' \/ mailed'[i] = quotes'[i].price
      <4>1. i # calls[s].id /\ i \notin unsent
        BY <2>1, <3>1
      <4>2. CASE Mailing(i)
        <5>1. PICK u \in Desk : At(u, {"respond"}, "saved") /\ calls[u].id = i
          BY <4>2 DEF Mailing
        <5>2. calls'[u] = calls[u]
          BY <2>2, <4>1, <5>1
        <5> QED BY <5>1, <5>2 DEF Mailing, At
      <4>3. CASE ~Mailing(i)
        BY <1>3, <2>1, <4>1, <4>3 DEF MailsMatch, IInv
      <4> QED BY <4>2, <4>3
    <3> QED BY <1>3, <3>1 DEF MailsMatch
  <2> QED BY <1>3, <1>4, <2>5, <2>6, <2>7, <2>8, <2>9 DEF IInv, OneOfEach
<1> QED BY <1>6, <1>7

-----------------------------------------------------------------------------
(* The pages and the buttons.                                              *)

\* A step that writes no row.
LEMMA NoRowWritten ==
  ASSUME IInv, UNCHANGED <<rows, forms, hist>>, moves' \in 0 .. MaxMoves, pricings' \in 0 .. MaxPricings,
         UNCHANGED lost, calls' \in [Desk -> CallRow], pages' \in [Desk -> PageRow],
         \A s \in Desk : {calls'[s].id, pages'[s].on} \subseteq Requests \union {None},
         \A i \in Requests : Mailing(i) => Mailing(i)',
         PagesSound', \A s \in Desk : CallSound(s)'
  PROVE  IInv'
<1>1. Requests' = Requests /\ Projects' = Projects
      /\ UNCHANGED <<quotes, projects, forms, mailed, unsent, overtaken, unanswered>>
  BY DEF rows, hist, Projects, Requests
<1>2. TypeOK'
  BY <1>1 DEF IInv, TypeOK
<1>3. OneOfEach' /\ FormsFilled'
  BY <1>1 DEF IInv, OneOfEach, FormsFilled, OneRequestPerForm, ReferenceForever, BridgeHolds, Became
<1>4. RowsPriced' /\ ProjectsPriced' /\ MailsMatch'
  BY <1>1 DEF IInv, RowsPriced, ProjectsPriced, MailsMatch
<1> QED BY <1>2, <1>3, <1>4 DEF IInv

LEMMA VisitKeeps ==
  ASSUME IInv, NEW s \in Desk, NEW i \in Requests, Visit(s, i)
  PROVE  IInv'
<1> DEFINE next == [on |-> i, shown |-> Shown(quotes[i]), seed |-> quotes[i].price]
<1>1. /\ calls[s] = Idle /\ pages' = [pages EXCEPT ![s] = next]
      /\ UNCHANGED <<rows, calls, hist, forms, moves, pricings, lost>>
  BY DEF Visit, Free
<1>2. quotes[i] \in QuoteRow /\ Priced(quotes[i]) /\ i \in Nat
  BY LenProperties DEF IInv, TypeOK, Requests, RowsPriced
<1>3. next \in PageRow
  BY <1>2 DEF PageRow, QuoteRow, Shown
<1>4. /\ pages' \in [Desk -> PageRow] /\ pages'[s] = next
      /\ \A u \in Desk \ {s} : pages'[u] = pages[u]
  BY <1>1, <1>3 DEF IInv, TypeOK
<1>5. RowsMoveOn
  BY <1>1 DEF RowsMoveOn, NotBefore, rows, Requests
<1>6. CallSound(s)'
  BY <1>1, IdleSound DEF CallSound
<1>7. \A u \in Desk \ {s} : CallSound(u)'
  BY <1>1, <1>4, <1>5, OthersSound
<1>8. PagesSound'
  <2>1. next.shown.answered \/ next.shown.status \in QuotedStatuses => quotes'[i].answered
    BY <1>1, <1>2 DEF Shown, Priced, rows
  <2>2. next.on = i
    OBVIOUS
  <2> HIDE DEF next
  <2> QED BY <1>1, <1>4, <1>5, <2>1, <2>2, OthersSound DEF PagesSound
<1>9. \A u \in Desk : {calls'[u].id, pages'[u].on} \subseteq Requests \union {None}
  BY <1>1, <1>4 DEF IInv, TypeOK
<1>10. \A j \in Requests : Mailing(j) => Mailing(j)'
  BY <1>1 DEF Mailing, At
<1>11. moves' \in 0 .. MaxMoves /\ pricings' \in 0 .. MaxPricings
  BY <1>1 DEF IInv, TypeOK
<1> QED BY <1>1, <1>4, <1>6, <1>7, <1>8, <1>9, <1>10, <1>11, NoRowWritten DEF IInv, TypeOK

LEMMA LetInKeeps ==
  ASSUME IInv, NEW s \in Desk, NEW price \in Prices \union {None}, NEW notify \in BOOLEAN,
         NEW op, op \in Moves \union {"respond", "convert", "delete"},
         LetIn(s, op, price, notify), op \in Offered(s),
         op = "respond" => price # None /\ pricings < MaxPricings /\ MayRespond(quotes[pages[s].on]),
         op \in Moves => MayMove(quotes[pages[s].on], op),
         op = "convert" => MayConvert(quotes[pages[s].on]),
         op = "delete" => MayDelete(quotes[pages[s].on])
  PROVE  IInv'
<1> DEFINE i == pages[s].on  next == Call(op, i, price, notify, "let in")
<1>1. /\ calls[s] = Idle /\ i # None /\ moves < MaxMoves /\ ~quotes[i].deleted
      /\ moves' = moves + 1 /\ calls' = [calls EXCEPT ![s] = next]
      /\ pricings' = IF op = "respond" THEN pricings + 1 ELSE pricings
      /\ UNCHANGED <<rows, pages, forms, hist, lost>>
  BY DEF LetIn, Free
<1>2. i \in Requests /\ pages[s] \in PageRow
  BY <1>1 DEF IInv, TypeOK
<1>3. quotes[i] \in QuoteRow /\ Priced(quotes[i]) /\ i \in Nat
  BY <1>2, LenProperties DEF IInv, TypeOK, Requests, RowsPriced
<1>4. pages[s].shown.status # "converted" /\ op \in Buttons(s, pages[s].shown)
  BY <1>1 DEF Offered
<1>5. op = "convert" => quotes[i].answered
  BY <1>1, <1>4 DEF Buttons, Moves, IInv, PagesSound, QuotedStatuses
<1>6. /\ next \in CallRow /\ next.id = i /\ next.step = "let in" /\ next.op = op
      /\ next.price = price /\ next.kept = quotes[i]
  BY <1>3 DEF Call, CallRow
<1> HIDE DEF next
<1>7. /\ calls' \in [Desk -> CallRow] /\ calls'[s] = next
      /\ \A u \in Desk \ {s} : calls'[u] = calls[u]
  BY <1>1, <1>6 DEF IInv, TypeOK
<1>8. RowsMoveOn
  BY <1>1 DEF RowsMoveOn, NotBefore, rows, Requests
<1>9. CallSound(s)'
  <2>1. quotes' = quotes /\ pages' = pages
    BY <1>1 DEF rows
  <2>2. op # "none" /\ NotBefore(quotes[i], quotes[i])
    BY DEF Moves, NotBefore
  <2> QED BY <1>1, <1>3, <1>4, <1>5, <1>6, <1>7, <2>1, <2>2
          DEF CallSound, MayConvert, MayDelete, Moves, Buttons, MayMove, HasQuote, MayRespond
<1>10. \A u \in Desk \ {s} : CallSound(u)'
  BY <1>1, <1>7, <1>8, OthersSound
<1>11. PagesSound'
  BY <1>1 DEF PagesSound, IInv, rows
<1>12. \A u \in Desk : {calls'[u].id, pages'[u].on} \subseteq Requests \union {None}
  BY <1>1, <1>2, <1>6, <1>7, ZenonT(40) DEF IInv, TypeOK
<1>13. \A j \in Requests : Mailing(j) => Mailing(j)'
  BY <1>1, <1>7, IdleSound DEF Mailing, At
<1>14. moves' \in 0 .. MaxMoves /\ pricings' \in 0 .. MaxPricings
  BY <1>1, BoundsAssumption DEF IInv, TypeOK
<1> QED BY <1>1, <1>7, <1>9, <1>10, <1>11, <1>12, <1>13, <1>14, NoRowWritten DEF IInv, TypeOK

LEMMA PressKeeps ==
  ASSUME IInv, NEW s \in Desk, PressMove(s) \/ PressDelete(s) \/ PressRespond(s) \/ PressConvert(s)
  PROVE  IInv'
<1>1. None \in Prices \union {None} /\ TRUE \in BOOLEAN /\ FALSE \in BOOLEAN
  OBVIOUS
<1>2. CASE PressMove(s)
  <2>1. PICK to \in Offered(s) \intersect Moves :
          MayMove(quotes[pages[s].on], to) /\ LetIn(s, to, None, FALSE)
    BY <1>2 DEF PressMove
  <2>2. to # "respond" /\ to # "convert" /\ to # "delete"
    BY <2>1 DEF Moves
  <2> QED BY <1>1, <2>1, <2>2, LetInKeeps
<1>3. CASE PressDelete(s)
  <2>1. LetIn(s, "delete", None, FALSE) /\ "delete" \in Offered(s) /\ MayDelete(quotes[pages[s].on])
    BY <1>3 DEF PressDelete
  <2> QED BY <1>1, <2>1, LetInKeeps DEF Moves
<1>4. CASE PressRespond(s)
  <2>1. PICK p \in Prices, notify \in BOOLEAN : LetIn(s, "respond", p, notify)
    BY <1>4 DEF PressRespond
  <2>2. "respond" \in Offered(s) /\ pricings < MaxPricings /\ MayRespond(quotes[pages[s].on])
    BY <1>4 DEF PressRespond
  <2>3. p # None
    BY NoneIsNone DEF IInv
  <2> QED BY <2>1, <2>2, <2>3, LetInKeeps DEF Moves
<1>5. CASE PressConvert(s)
  <2>1. LetIn(s, "convert", pages[s].seed, FALSE) /\ "convert" \in Offered(s) /\ MayConvert(quotes[pages[s].on])
    BY <1>5 DEF PressConvert
  <2>2. pages[s].seed \in Prices \union {None}
    BY DEF IInv, TypeOK, PageRow
  <2> QED BY <1>1, <2>1, <2>2, LetInKeeps DEF Moves
<1> QED BY <1>2, <1>3, <1>4, <1>5

-----------------------------------------------------------------------------
(* The visitor.                                                            *)

\* A step of a form that writes no row.
LEMMA FormKeeps ==
  ASSUME IInv, NEW v \in Visitors, NEW f \in FormRow, forms' = [forms EXCEPT ![v] = f],
         UNCHANGED quotes, OfficeUnchanged, lost' \in 0 .. MaxLost,
         unanswered' \subseteq Requests, f.request \in Requests \union {None},
         f.at \in {"open", "sending"} <=> f.request = None,
         \/ unanswered' = unanswered /\ f.request = forms[v].request
         \/ unanswered' = unanswered \union {forms[v].request} /\ f.request = None /\ forms[v].request # None
  PROVE  IInv'
<1>1. /\ UNCHANGED <<quotes, projects, calls, pages, mailed, unsent, overtaken, moves, pricings>>
      /\ Requests' = Requests /\ Projects' = Projects
  BY DEF OfficeUnchanged, Requests, Projects
<1>2. /\ forms' \in [Visitors -> FormRow] /\ forms'[v] = f
      /\ \A u \in Visitors \ {v} : forms'[u] = forms[u]
  BY DEF IInv, TypeOK
<1>3. TypeOK'
  <2>1. \A u \in Visitors : forms'[u].request \in Requests \union {None}
    BY <1>2 DEF IInv, TypeOK
  <2> QED BY <1>1, <1>2, <2>1 DEF IInv, TypeOK
<1>4. FormsFilled'
  BY <1>2 DEF IInv, FormsFilled
<1>5. OneRequestPerForm'
  <2>1. /\ Requests \ unanswered = {forms[u].request : u \in Visitors} \ {None}
        /\ \A u, w \in Visitors : forms[u].request = forms[w].request /\ u # w => forms[u].request = None
    BY DEF IInv, OneOfEach, OneRequestPerForm
  <2>2. \A u, w \in Visitors : forms'[u].request = forms'[w].request /\ u # w => forms'[u].request = None
    BY <1>2, <2>1
  <2>3. CASE unanswered' = unanswered /\ f.request = forms[v].request
    <3>1. \A u \in Visitors : forms'[u].request = forms[u].request
      BY <1>2, <2>3
    <3> QED BY <1>1, <2>1, <2>2, <2>3, <3>1 DEF OneRequestPerForm
  <2>4. CASE unanswered' = unanswered \union {forms[v].request} /\ f.request = None /\ forms[v].request # None
    <3>1. {forms'[u].request : u \in Visitors} \ {None}
            = ({forms[u].request : u \in Visitors} \ {None}) \ {forms[v].request}
      <4>1. \A r : r # None =>
              ((\E u \in Visitors : forms'[u].request = r)
                <=> (\E u \in Visitors : forms[u].request = r) /\ r # forms[v].request)
        BY <1>2, <2>1, <2>4
      <4> QED BY <4>1
    <3> QED BY <1>1, <2>1, <2>2, <2>4, <3>1 DEF OneRequestPerForm
  <2> QED BY <2>3, <2>4
<1>6. ReferenceForever' /\ BridgeHolds' /\ RowsPriced' /\ ProjectsPriced' /\ MailsMatch'
  BY <1>1 DEF IInv, OneOfEach, ReferenceForever, BridgeHolds, Became, RowsPriced, ProjectsPriced,
              MailsMatch, Mailing, At
<1>7. RowsMoveOn
  BY <1>1 DEF RowsMoveOn, NotBefore
<1>8. PagesSound' /\ \A s \in Desk : CallSound(s)'
  BY <1>1, <1>7, OthersSound DEF PagesSound
<1> QED BY <1>3, <1>4, <1>5, <1>6, <1>8 DEF IInv, OneOfEach

LEMMA ScreenKeeps ==
  ASSUME IInv, NEW v \in Visitors, Submit(v) \/ Receipt(v) \/ LoseReceipt(v)
  PROVE  IInv'
<1>1. /\ forms[v] \in FormRow /\ forms[v].request \in Requests \union {None}
      /\ forms[v].at \in {"open", "sending"} <=> forms[v].request = None
      /\ unanswered \subseteq Requests /\ lost \in 0 .. MaxLost /\ MaxLost \in Nat
  BY BoundsAssumption DEF IInv, TypeOK, FormsFilled
<1>2. \A at \in {"open", "sending", "stored", "receipt"}, r \in Nat :
        Form(at, r) \in FormRow /\ Form(at, r).at = at /\ Form(at, r).request = r
  BY DEF Form, FormRow
<1>3. forms[v].request \in Nat /\ None \in Nat
  BY <1>1 DEF FormRow, None
<1>4. CASE Submit(v)
  <2>1. forms[v].request = None
    BY <1>1, <1>4 DEF Submit, Submittable
  <2>2. /\ forms' = [forms EXCEPT ![v] = Form("sending", None)]
        /\ UNCHANGED <<quotes, unanswered, lost>> /\ OfficeUnchanged
    BY <1>4 DEF Submit
  <2> QED BY <1>1, <1>2, <1>3, <2>1, <2>2, FormKeeps
<1>5. CASE Receipt(v)
  <2> DEFINE f == Form("receipt", forms[v].request)
  <2>1. /\ forms' = [forms EXCEPT ![v] = f] /\ forms[v].at = "stored"
        /\ UNCHANGED <<quotes, unanswered, lost>> /\ OfficeUnchanged
    BY <1>5 DEF Receipt
  <2>2. f \in FormRow /\ f.at = "receipt" /\ f.request = forms[v].request
    BY <1>2, <1>3
  <2>3. f.at \in {"open", "sending"} <=> f.request = None
    BY <1>1, <2>1, <2>2
  <2> HIDE DEF f
  <2> QED BY <1>1, <2>1, <2>2, <2>3, FormKeeps
<1>6. CASE LoseReceipt(v)
  <2> DEFINE f == Form("open", None)
  <2>1. /\ forms' = [forms EXCEPT ![v] = f]
        /\ forms[v].at = "stored" /\ lost < MaxLost /\ lost' = lost + 1
        /\ unanswered' = unanswered \union {forms[v].request}
        /\ UNCHANGED quotes /\ OfficeUnchanged
    BY <1>6 DEF LoseReceipt
  <2>2. f \in FormRow /\ f.at = "open" /\ f.request = None
    BY <1>2, <1>3
  <2>3. forms[v].request # None /\ lost' \in 0 .. MaxLost /\ unanswered' \subseteq Requests
    BY <1>1, <2>1
  <2> HIDE DEF f
  <2> QED BY <1>1, <2>1, <2>2, <2>3, FormKeeps
<1> QED BY <1>4, <1>5, <1>6

LEMMA StoreKeeps ==
  ASSUME IInv, NEW v \in Visitors, Store(v)
  PROVE  IInv'
<1> DEFINE new == Len(quotes) + 1
<1>1. PICK ref \in References \ Used : quotes' = Append(quotes, Row(ref))
  BY DEF Store
<1>2. /\ forms[v].at = "sending" /\ mailed' = Append(mailed, None)
      /\ forms' = [forms EXCEPT ![v] = Form("stored", new)]
      /\ UNCHANGED <<projects, calls, pages, unsent, overtaken, unanswered, moves, pricings, lost>>
  BY DEF Store
<1>3. /\ Row(ref) \in QuoteRow /\ Row(ref).ref = ref /\ Row(ref).project = None /\ ~Row(ref).deleted
      /\ Row(ref).status = "new" /\ Row(ref).price = None /\ ~Row(ref).answered
  BY DEF Row, QuoteRow, Statuses, None
<1>4. /\ quotes' \in Seq(QuoteRow) /\ Len(quotes') = new /\ new \notin Requests /\ new # None
      /\ Requests' = Requests \union {new} /\ quotes'[new] = Row(ref)
      /\ \A i \in Requests : quotes'[i] = quotes[i]
  BY <1>1, <1>3, Insert DEF IInv, TypeOK, Requests, None
<1>5. /\ mailed' \in Seq(Prices \union {None}) /\ Len(mailed') = new /\ mailed'[new] = None
      /\ \A i \in Requests : mailed'[i] = mailed[i]
  <2>1. DOMAIN mailed = Requests /\ Len(mailed) = Len(quotes)
    BY LenProperties DEF IInv, TypeOK, Requests
  <2> QED BY <1>2, <2>1, Insert DEF IInv, TypeOK
<1>6. new \in Nat
  BY LenProperties DEF IInv, TypeOK
<1> HIDE DEF new
<1>7. Form("stored", new) \in FormRow /\ Form("stored", new).at = "stored" /\ Form("stored", new).request = new
  BY <1>6 DEF Form, FormRow
<1>8. /\ forms' \in [Visitors -> FormRow] /\ forms'[v] = Form("stored", new)
      /\ \A u \in Visitors \ {v} : forms'[u] = forms[u]
  BY <1>2, <1>7 DEF IInv, TypeOK
<1>9. forms[v].request = None /\ \A u \in Visitors : forms[u].request # new
  BY <1>2, <1>4 DEF IInv, FormsFilled, TypeOK
<1>10. Projects' = Projects /\ projects' = projects
  BY <1>2 DEF Projects
<1>11. TypeOK'
  <2>1. \A i \in Requests' : quotes'[i].ref \in References /\ quotes'[i].project \in Projects' \union {None}
    BY <1>3, <1>4, <1>10 DEF IInv, TypeOK
  <2>2. \A p \in Projects' : projects'[p].from \in Requests'
    BY <1>4, <1>10 DEF IInv, TypeOK
  <2>3. \A s \in Desk : {calls'[s].id, pages'[s].on} \subseteq Requests' \union {None}
    BY <1>2, <1>4 DEF IInv, TypeOK
  <2>4. \A u \in Visitors : forms'[u].request \in Requests' \union {None}
    BY <1>4, <1>7, <1>8 DEF IInv, TypeOK
  <2>5. unsent' \union overtaken' \union unanswered' \subseteq Requests'
    BY <1>2, <1>4 DEF IInv, TypeOK
  <2> QED BY <1>2, <1>4, <1>5, <1>8, <1>10, <2>1, <2>2, <2>3, <2>4, <2>5 DEF IInv, TypeOK
<1>12. FormsFilled'
  BY <1>4, <1>7, <1>8 DEF IInv, FormsFilled
<1>13. OneRequestPerForm'
  <2>1. /\ Requests \ unanswered = {forms[u].request : u \in Visitors} \ {None}
        /\ \A u, w \in Visitors : forms[u].request = forms[w].request /\ u # w => forms[u].request = None
    BY DEF IInv, OneOfEach, OneRequestPerForm
  <2>2. {forms'[u].request : u \in Visitors} \ {None} = ({forms[u].request : u \in Visitors} \ {None}) \union {new}
    <3>1. \A r : r # None =>
            ((\E u \in Visitors : forms'[u].request = r)
              <=> (\E u \in Visitors : forms[u].request = r) \/ r = new)
      BY <1>7, <1>8, <1>9
    <3> QED BY <1>4, <3>1
  <2>3. Requests' \ unanswered' = (Requests \ unanswered) \union {new}
    BY <1>2, <1>4 DEF IInv, TypeOK
  <2>4. \A u, w \in Visitors : forms'[u].request = forms'[w].request /\ u # w => forms'[u].request = None
    BY <1>7, <1>8, <1>9, <2>1
  <2> QED BY <2>1, <2>2, <2>3, <2>4 DEF OneRequestPerForm
<1>14. ReferenceForever'
  <2>1. \A i \in Requests : quotes[i].ref # ref
    BY <1>1 DEF Used
  <2> QED BY <1>3, <1>4, <2>1 DEF IInv, OneOfEach, ReferenceForever
<1>15. BridgeHolds'
  <2>1. \A p \in Projects : projects[p].from # new
    BY <1>4 DEF IInv, TypeOK
  <2>2. /\ {p \in Projects : projects[p].from = new /\ projects[p].standing} = {}
        /\ {quotes'[new].project} \ {None} = {}
    BY <1>3, <1>4, <2>1
  <2>3. ASSUME NEW i \in Requests', i \notin overtaken'
        PROVE  /\ {p \in Projects : projects[p].from = i /\ projects[p].standing} = {quotes'[i].project} \ {None}
               /\ quotes'[i].status = "converted" <=> quotes'[i].project # None
               /\ quotes'[i].deleted => quotes'[i].project = None
    <3>1. CASE i = new
      BY <1>3, <1>4, <2>2, <3>1
    <3>2. CASE i # new
      BY <1>2, <1>4, <2>3, <3>2 DEF IInv, OneOfEach, BridgeHolds, Became
    <3> QED BY <3>1, <3>2
  <2> QED BY <1>10, <2>3 DEF BridgeHolds, Became
<1>16. RowsPriced'
  BY <1>3, <1>4 DEF IInv, RowsPriced, Priced, QuotedStatuses
<1>17. ProjectsPriced'
  BY <1>10 DEF IInv, ProjectsPriced
<1>18. MailsMatch'
  <2>1. \A i \in Requests : Mailing(i) => Mailing(i)'
    BY <1>2 DEF Mailing, At
  <2> QED BY <1>2, <1>3, <1>4, <1>5, <2>1 DEF IInv, MailsMatch
<1>19. RowsMoveOn
  BY <1>4 DEF RowsMoveOn, NotBefore
<1>20. PagesSound' /\ \A s \in Desk : CallSound(s)'
  BY <1>2, <1>19, OthersSound DEF PagesSound
<1> QED BY <1>11, <1>12, <1>13, <1>14, <1>15, <1>16, <1>17, <1>18, <1>20 DEF IInv, OneOfEach

-----------------------------------------------------------------------------
(* The inductive invariant.                                                *)

LEMMA Initially == Init => IInv
<1> SUFFICES ASSUME Init PROVE IInv
  OBVIOUS
<1>1. /\ quotes = <<>> /\ projects = <<>> /\ mailed = <<>> /\ Requests = {} /\ Projects = {}
      /\ calls = [s \in Desk |-> Idle] /\ pages = [s \in Desk |-> Closed]
      /\ forms = [v \in Visitors |-> Form("open", None)]
      /\ unsent = {} /\ overtaken = {} /\ unanswered = {}
      /\ moves = 0 /\ pricings = 0 /\ lost = 0
  BY DEF Init, Requests, Projects
<1>2. Form("open", None) \in FormRow /\ Form("open", None).request = None /\ Form("open", None).at = "open"
  BY DEF Form, FormRow, None
<1>3. TypeOK
  BY <1>1, <1>2, IdleSound, BoundsAssumption DEF TypeOK
<1>4. OneOfEach /\ FormsFilled /\ RowsPriced /\ ProjectsPriced /\ MailsMatch
  BY <1>1, <1>2 DEF OneOfEach, OneRequestPerForm, ReferenceForever, BridgeHolds, FormsFilled,
                   RowsPriced, ProjectsPriced, MailsMatch
<1>5. PagesSound /\ \A s \in Desk : CallSound(s)
  BY <1>1, IdleSound DEF PagesSound, CallSound
<1> QED BY <1>3, <1>4, <1>5 DEF IInv

LEMMA Inductive == IInv /\ [Next]_vars => IInv'
<1> SUFFICES ASSUME IInv, [Next]_vars PROVE IInv'
  OBVIOUS
<1>1. ASSUME NEW v \in Visitors, Submit(v) \/ Store(v) \/ Receipt(v) \/ LoseReceipt(v) PROVE IInv'
  BY <1>1, StoreKeeps, ScreenKeeps
<1>2. ASSUME NEW s \in Desk, Office(s) PROVE IInv'
  BY <1>2, VisitKeeps, PressKeeps, SaveMoveKeeps, SaveRespondKeeps, SaveDeleteKeeps, SaveConvertKeeps,
     MailKeeps DEF Office, Handler
<1>3. ASSUME NEW p \in Projects, Destroy(p) PROVE IInv'
  BY <1>3, DestroyKeeps
<1>4. CASE UNCHANGED vars
  <2>1. UNCHANGED <<quotes, projects, calls, pages, forms, mailed, unsent, overtaken, unanswered, moves, pricings, lost>>
    BY <1>4 DEF vars, rows, hist
  <2>2. Requests' = Requests /\ Projects' = Projects
    BY <2>1 DEF Requests, Projects
  <2>3. TypeOK' /\ PagesSound' /\ \A s \in Desk : CallSound(s)'
    BY <2>1, <2>2 DEF IInv, TypeOK, PagesSound, CallSound
  <2> QED BY <2>1, <2>2, <2>3
          DEF IInv, OneOfEach, OneRequestPerForm, ReferenceForever, BridgeHolds, Became, FormsFilled,
              RowsPriced, ProjectsPriced, MailsMatch, Mailing, At
<1> QED BY <1>1, <1>2, <1>3, <1>4 DEF Next

\* Every state satisfies the inductive invariant.
THEOREM QuotesInvariance == Spec => []IInv
<1>1. Init => IInv
  BY Initially
<1>2. IInv /\ [Next]_vars => IInv'
  BY Inductive
<1> QED BY <1>1, <1>2, PTL DEF Spec

\* Rows, pages and calls have their types and their keys lead to rows that exist.
THEOREM QuotesTypeCorrect == Spec => []TypeOK
<1>1. IInv => TypeOK
  BY DEF IInv
<1> QED BY <1>1, QuotesInvariance, PTL

\* One request per form sent, one reference per request for good, and one standing project
\* per converted request, unless a call wrote over a row that changed since its check.
THEOREM OneProjectEach == Spec => []OneOfEach
<1>1. IInv => OneOfEach
  BY DEF IInv
<1> QED BY <1>1, QuotesInvariance, PTL

\* What was agreed to has a price, the project too, and the price last mailed is the row's.
THEOREM PricesAreHeld == Spec => []PricesHold
<1>1. IInv => AgreedIsPriced
  BY DEF IInv, RowsPriced, ProjectsPriced, Priced, AgreedIsPriced, HasQuote
<1>2. IInv => MailedIsOffered
  <2> SUFFICES ASSUME IInv, NEW i \in Requests \ unsent, ~Mailing(i)
               PROVE  /\ mailed[i] = quotes[i].price
                      /\ Tracked(i) = mailed[i] \/ quotes[i].deleted \/ quotes[i].status \in {"declined", "reviewing"}
    BY DEF MailedIsOffered
  <2>1. mailed[i] = quotes[i].price
    BY DEF IInv, MailsMatch
  <2>2. Priced(quotes[i])
    BY DEF IInv, RowsPriced
  <2>3. quotes[i] \in QuoteRow
    BY LenProperties DEF IInv, TypeOK, Requests
  <2>4. quotes[i].status \in Statuses
    BY <2>3 DEF QuoteRow
  <2> QED BY <2>1, <2>2, <2>4 DEF Tracked, Priced, HasQuote, QuotedStatuses, Statuses
<1> QED BY <1>1, <1>2, QuotesInvariance, PTL DEF PricesHold

-----------------------------------------------------------------------------
(* The lane.                                                               *)

\* What a step may do to the status of a request.
Moved(i) ==
  quotes'[i].status # quotes[i].status =>
    \/ <<quotes[i].status, quotes'[i].status>> \in Lane
    \/ i \in overtaken'
    \/ \E s \in Desk : calls'[s] # calls[s] /\ PressedStale(i, s)

\* A save moves one row, and what it writes follows from what it loaded.
LEMMA SavesMove ==
  ASSUME IInv, NEW s \in Desk, calls[s].step = "let in", NEW to,
         \A i \in Requests : i # calls[s].id => quotes'[i] = quotes[i],
         quotes'[calls[s].id].status = IF to = calls[s].kept.status THEN quotes[calls[s].id].status ELSE to,
         Overtakes(s), calls'[s] # calls[s],
         pages[s].shown = Shown(calls[s].kept) /\ to # calls[s].kept.status
           => <<calls[s].kept.status, to>> \in Lane
  PROVE  \A i \in Requests : Moved(i)
<1> SUFFICES ASSUME NEW i \in Requests, quotes'[i].status # quotes[i].status, i \notin overtaken',
                    pages[s].shown = Shown(calls[s].kept)
             PROVE  <<quotes[i].status, quotes'[i].status>> \in Lane
  <2>1. ~Free(s)
    BY IdleSound DEF Free
  <2>2. \A i \in Requests : quotes'[i].status # quotes[i].status => calls[s].id = i
    OBVIOUS
  <2> QED BY <2>1, <2>2 DEF Moved, PressedStale
<1>1. calls[s].id = i /\ to # calls[s].kept.status /\ quotes'[i].status = to
  OBVIOUS
<1>2. calls[s].kept = quotes[i]
  BY <1>1 DEF Overtakes
<1> QED BY <1>1, <1>2

\* No step moves a request off its lane.
LEMMA LaneStep ==
  ASSUME IInv, [Next]_vars
  PROVE  \A i \in Requests : Moved(i)
<1>1. CASE \A i \in Requests : quotes'[i].status = quotes[i].status
  BY <1>1 DEF Moved
<1>2. ASSUME NEW v \in Visitors, Store(v) PROVE \A i \in Requests : quotes'[i].status = quotes[i].status
  <2>1. PICK ref \in References \ Used : quotes' = Append(quotes, Row(ref))
    BY <1>2 DEF Store
  <2>2. Row(ref) \in QuoteRow
    BY DEF Row, QuoteRow, Statuses, None
  <2> QED BY <2>1, <2>2, Insert DEF IInv, TypeOK, Requests
<1>3. ASSUME NEW s \in Desk, SaveMove(s) PROVE \A i \in Requests : Moved(i)
  <2> DEFINE c == calls[s]  q == Written(s, c.op, c.kept.price, FALSE)
  <2>1. /\ c.step = "let in" /\ c.step # "idle" /\ c.op \in Moves /\ Overtakes(s) /\ Answer(s)
        /\ quotes' = [quotes EXCEPT ![c.id] = q]
    BY <1>3 DEF SaveMove, At
  <2>2. c.op \in Statuses /\ c.op # "new" /\ c.op # "converted"
    BY <2>1 DEF Moves, Statuses
  <2>3. q \in QuoteRow /\ q.status = IF c.op = c.kept.status THEN quotes[c.id].status ELSE c.op
    BY <2>1, <2>2, WrittenIs
  <2> HIDE DEF q
  <2>4. c.id \in Requests /\ CallSound(s) /\ c.kept \in QuoteRow
    BY <2>1, InFlight
  <2>5. quotes'[c.id] = q /\ \A i \in Requests : i # c.id => quotes'[i] = quotes[i]
    BY <2>1, <2>3, <2>4, Save DEF Requests, IInv, TypeOK
  <2>6. calls'[s] # c
    BY <2>1, IdleSound DEF Answer, IInv, TypeOK
  <2>7. pages[s].shown = Shown(c.kept) /\ c.op # c.kept.status => <<c.kept.status, c.op>> \in Lane
    <3>1. c.op \in Buttons(s, pages[s].shown) /\ MayMove(c.kept, c.op) /\ c.kept.status \in Statuses
      BY <2>1, <2>4 DEF CallSound, QuoteRow
    <3>2. ASSUME pages[s].shown = Shown(c.kept)
          PROVE  /\ c.op = "reviewing" => c.kept.status \in {"new", "declined"}
                 /\ c.op = "accepted" => c.kept.status = "quoted"
                 /\ c.op = "declined" => c.kept.status \in {"new", "reviewing", "quoted", "accepted"}
      <4>1. /\ pages[s].shown.status = c.kept.status /\ pages[s].shown.answered = c.kept.answered
        BY <3>2 DEF Shown
      <4>2. c.op = "reviewing" => c.kept.status \in {"new", "declined"}
        BY <3>1, <4>1 DEF Buttons
      <4>3. c.op = "accepted" => c.kept.status # "accepted"
        BY <3>1, <4>1 DEF Buttons
      <4>4. c.op = "declined" => c.kept.status # "declined"
        BY <3>1, <4>1 DEF Buttons
      <4> QED BY <3>1, <4>2, <4>3, <4>4 DEF MayMove, HasQuote, QuotedStatuses, Statuses
    <3> QED BY <2>1, <3>2 DEF Lane, Moves
  <2> QED BY <2>1, <2>3, <2>5, <2>6, <2>7, SavesMove
<1>4. ASSUME NEW s \in Desk, SaveRespond(s) PROVE \A i \in Requests : Moved(i)
  <2> DEFINE c == calls[s]  to == Repriced(c.kept.status)  q == Written(s, to, c.price, TRUE)
  <2>1. /\ c.step = "let in" /\ c.step # "idle" /\ c.op = "respond" /\ Overtakes(s)
        /\ quotes' = [quotes EXCEPT ![c.id] = q]
        /\ calls' = [calls EXCEPT ![s] = Call(c.op, c.id, c.price, TRUE, "saved")] \/ Answer(s)
    BY <1>4 DEF SaveRespond, At
  <2>2. c.id \in Requests /\ CallSound(s) /\ c.kept \in QuoteRow /\ quotes[c.id] \in QuoteRow /\ c \in CallRow
    BY <2>1, InFlight
  <2>3. q \in QuoteRow /\ q.status = IF to = c.kept.status THEN quotes[c.id].status ELSE to
    BY <2>2 DEF Written, QuoteRow, CallRow, Repriced, Statuses
  <2> HIDE DEF q
  <2>4. quotes'[c.id] = q /\ \A i \in Requests : i # c.id => quotes'[i] = quotes[i]
    BY <2>1, <2>2, <2>3, Save DEF Requests, IInv, TypeOK
  <2>5. calls'[s] # c
    <3>1. Idle.step # c.step /\ Call(c.op, c.id, c.price, TRUE, "saved").step # c.step
      BY <2>1, IdleSound DEF Call
    <3> QED BY <2>1, <3>1 DEF Answer, IInv, TypeOK
  <2>6. pages[s].shown = Shown(c.kept) /\ to # c.kept.status => <<c.kept.status, to>> \in Lane
    <3>1. pages[s].shown.status # "converted" /\ c.kept.status \in Statuses
      BY <2>1, <2>2 DEF CallSound, QuoteRow
    <3> QED BY <3>1 DEF Lane, Shown, Repriced, Statuses
  <2> QED BY <2>1, <2>3, <2>4, <2>5, <2>6, SavesMove
<1>5. ASSUME NEW s \in Desk, SaveConvert(s) PROVE \A i \in Requests : Moved(i)
  <2> DEFINE c == calls[s]  w == Written(s, "converted", c.kept.price, FALSE)
             q == [w EXCEPT !.project = Len(projects) + 1]
  <2>1. /\ c.step = "let in" /\ c.step # "idle" /\ c.op = "convert" /\ Overtakes(s) /\ Answer(s)
        /\ quotes' = [quotes EXCEPT ![c.id] = q]
    BY <1>5 DEF SaveConvert, At
  <2>2. c.id \in Requests /\ CallSound(s) /\ c.kept \in QuoteRow
    BY <2>1, InFlight
  <2>3. w \in QuoteRow /\ w.status = IF "converted" = c.kept.status THEN quotes[c.id].status ELSE "converted"
    BY <2>1, WrittenIs DEF Statuses
  <2>4. q \in QuoteRow /\ q.status = w.status
    <3>1. Len(projects) + 1 \in Nat
      BY LenProperties DEF IInv, TypeOK
    <3> HIDE DEF w
    <3> QED BY <2>3, <3>1 DEF QuoteRow
  <2> HIDE DEF q
  <2>5. quotes'[c.id] = q /\ \A i \in Requests : i # c.id => quotes'[i] = quotes[i]
    BY <2>1, <2>2, <2>4, Save DEF Requests, IInv, TypeOK
  <2>6. calls'[s] # c
    BY <2>1, IdleSound DEF Answer, IInv, TypeOK
  <2>7. pages[s].shown = Shown(c.kept) => <<c.kept.status, "converted">> \in Lane
    <3>1. "convert" \in Buttons(s, pages[s].shown)
      BY <2>1, <2>2 DEF CallSound
    <3> QED BY <3>1 DEF Lane, Buttons, Shown
  <2> QED BY <2>1, <2>3, <2>4, <2>5, <2>6, <2>7, SavesMove
<1>6. ASSUME NEW s \in Desk, SaveDelete(s) PROVE \A i \in Requests : quotes'[i].status = quotes[i].status
  <2>1. /\ calls[s].step # "idle"
        /\ quotes' = [quotes EXCEPT ![calls[s].id] = [quotes[calls[s].id] EXCEPT !.deleted = TRUE]]
    BY <1>6 DEF SaveDelete, At
  <2>2. calls[s].id \in Requests /\ quotes[calls[s].id] \in QuoteRow
    BY <2>1, InFlight
  <2>3. /\ [quotes[calls[s].id] EXCEPT !.deleted = TRUE] \in QuoteRow
        /\ [quotes[calls[s].id] EXCEPT !.deleted = TRUE].status = quotes[calls[s].id].status
    BY <2>2 DEF QuoteRow
  <2> QED BY <2>1, <2>2, <2>3, Save DEF Requests, IInv, TypeOK
<1>7. ASSUME NEW p \in Projects, Destroy(p) PROVE \A i \in Requests : Moved(i)
  <2>1. /\ quotes' = [i \in Requests |->
             IF quotes[i].project = p /\ ~quotes[i].deleted THEN HandedBack(quotes[i]) ELSE quotes[i]]
        /\ overtaken' = overtaken
    BY <1>7 DEF Destroy, hist
  <2> SUFFICES ASSUME NEW i \in Requests, quotes'[i].status # quotes[i].status, i \notin overtaken
               PROVE  <<quotes[i].status, quotes'[i].status>> \in Lane
    BY <2>1 DEF Moved
  <2>2. quotes[i].project = p /\ quotes'[i] = HandedBack(quotes[i])
    BY <2>1
  <2>3. p # None /\ quotes[i] \in QuoteRow
    BY NoneIsNone, LenProperties DEF IInv, TypeOK, Requests
  <2>4. quotes[i].status = "converted"
    BY <2>2, <2>3 DEF IInv, OneOfEach, BridgeHolds
  <2>5. quotes'[i].status = "accepted"
    BY <2>2, <2>3 DEF HandedBack, QuoteRow
  <2> QED BY <2>4, <2>5 DEF Lane
<1>8. ASSUME UNCHANGED quotes PROVE \A i \in Requests : quotes'[i].status = quotes[i].status
  BY <1>8
<1>9. ASSUME NEW v \in Visitors, Submit(v) \/ Receipt(v) \/ LoseReceipt(v) PROVE UNCHANGED quotes
  BY <1>9 DEF Submit, Receipt, LoseReceipt
<1>10. ASSUME NEW s \in Desk,
              (\E i \in Requests : Visit(s, i)) \/ PressMove(s) \/ PressDelete(s) \/ PressRespond(s)
                \/ PressConvert(s) \/ Notify(s) \/ Die(s)
       PROVE  UNCHANGED quotes
  BY <1>10 DEF Visit, PressMove, PressDelete, PressRespond, PressConvert, LetIn, Notify, Die, rows
<1>11. CASE UNCHANGED vars
  BY <1>1, <1>8, <1>11 DEF vars, rows
<1>12. CASE \E v \in Visitors : Submit(v) \/ Store(v) \/ Receipt(v) \/ LoseReceipt(v)
  BY <1>1, <1>2, <1>8, <1>9, <1>12
<1>13. CASE \E s \in Desk : Office(s)
  BY <1>1, <1>3, <1>4, <1>5, <1>6, <1>8, <1>10, <1>13 DEF Office, Handler
<1> QED BY <1>7, <1>11, <1>12, <1>13 DEF Next

\* A request's status follows the lane, but for calls that overtook another or were pressed
\* on a page that no longer showed it as it stood.
THEOREM StaysInLane == Spec => LaneFollowed
<1>1. IInv /\ [Next]_vars =>
        [\A i \in Requests :
           quotes'[i].status # quotes[i].status =>
             \/ <<quotes[i].status, quotes'[i].status>> \in Lane
             \/ i \in overtaken'
             \/ \E s \in Desk : calls'[s] # calls[s] /\ PressedStale(i, s)]_vars
  BY LaneStep DEF Moved
<1> QED BY <1>1, QuotesInvariance, PTL DEF Spec, LaneFollowed
=============================================================================
