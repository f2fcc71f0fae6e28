---------------------------- MODULE PortalProofs ----------------------------
(* Theorems about Portal, for every number of projects and translators.    *)
EXTENDS Portal, WellFoundedInduction, TLAPS

-----------------------------------------------------------------------------
(* Rounds.                                                                 *)

\* A non-empty set of rounds has a greatest one.
LEMMA GreatestRound ==
  ASSUME NEW S \in SUBSET Rounds, S # {}
  PROVE  \E v \in S : \A w \in S : w <= v
<1> DEFINE T == {MaxRounds - v : v \in S}
           Less == {ss \in Nat \X Nat : ss[1] < ss[2]}
<1>1. \A v \in S : v \in Int /\ 1 <= v /\ v <= MaxRounds
  BY BoundsAssumption DEF Rounds
<1>2. T \subseteq Nat
  BY <1>1, BoundsAssumption
<1>3. T # {}
  OBVIOUS
<1>4. IsWellFoundedOn(Less, Nat)
  BY NatLessThanWellFounded DEF OpToRel
<1>5. PICK x \in T : \A y \in T : ~(<<y, x>> \in Less)
  <2> HIDE DEF T, Less
  <2> QED BY <1>2, <1>3, <1>4, WFMin
<1>6. ASSUME NEW y \in T PROVE x <= y
  <2>1. x \in Nat /\ y \in Nat
    <3> HIDE DEF T
    <3> QED BY <1>2
  <2>2. ~(y < x)
    BY <1>5, <2>1
  <2> QED BY <2>1, <2>2
<1>7. PICK v \in S : x = MaxRounds - v
  OBVIOUS
<1>8. ASSUME NEW w \in S PROVE w <= v
  <2>1. MaxRounds - w \in T
    OBVIOUS
  <2>2. MaxRounds - v <= MaxRounds - w
    BY <1>6, <1>7, <2>1
  <2> HIDE DEF T
  <2> QED BY <1>1, <2>2, BoundsAssumption
<1> QED BY <1>7, <1>8

\* max('version') is the version of one of the project's deliverables, and none has
\* a greater one.
LEMMA NewestIsGreatest ==
  ASSUME TypeOK, NEW p \in Projects, files[p] # {}
  PROVE  /\ Newest(p) \in Rounds
         /\ \E f \in files[p] : f.version = Newest(p)
         /\ \A f \in files[p] : f.version <= Newest(p)
<1> DEFINE V == {f.version : f \in files[p]}
<1>1. V \in SUBSET Rounds /\ V # {}
  BY DEF TypeOK
<1>2. PICK v \in V : \A w \in V : w <= v
  <2> HIDE DEF V
  <2> QED BY <1>1, GreatestRound
<1>3. \E u \in Rounds : /\ \E f \in files[p] : f.version = u
                        /\ \A f \in files[p] : f.version <= u
  BY <1>1, <1>2
<1> QED BY <1>3 DEF Newest

-----------------------------------------------------------------------------
(* The state machine.                                                      *)

\* What the matrix allows, in the terms the invariants need.
LEMMA MatrixFacts ==
  ASSUME NEW from, NEW to, NEW actor, NEW noted, Permitted(from, to, actor, noted)
  PROVE  /\ to \in Statuses
         /\ to = "claimed" => from = "available"
         /\ to = "available" => from \in {"draft", "claimed"}
         /\ to \in HandedOver /\ to # "delivered" => from \in HandedOver
         /\ from \in HandedOver => to \in HandedOver \union {"cancelled"}
<1>1. PICK r \in Matrix : r.from = from /\ r.to = to
  BY DEF Permitted
<1> QED BY <1>1 DEF Matrix, Rules, Rule, Statuses, HandedOver

\* A row that is delivered is a row of some project and translator.
LEMMA DeliveredRow ==
  ASSUME TypeOK, NEW a \in AsgIds, asg[a].status \in {"active", "delivered", "withdrawn"}
  PROVE  asg[a] \in AsgRow /\ asg[a].project \in Projects
BY DEF TypeOK, AsgRow, Unused

-----------------------------------------------------------------------------
(* The inductive invariant.                                                *)

LEMMA InitInv == Init => IInv
<1> SUFFICES ASSUME Init PROVE IInv
  OBVIOUS
<1>1. \A a \in AsgIds : asg[a] = Unused /\ asg[a].status = "unused"
  BY DEF Init, Unused
<1>2. TypeOK
  BY DEF Init, TypeOK, Statuses
<1> QED BY <1>1, <1>2, NoneAssumption
    DEF Init, IInv, OneActive, Active, ClaimedHasHolder, HandedOverIsBacked, HandedOver,
        DeletedNeverClaimed, DeliveredStay, InFlightRefers

\* A step that changes a status and nothing else.
LEMMA OnlyStatusInv ==
  ASSUME IInv, NEW p \in Projects, NEW to, to \notin {"claimed", "delivered"},
         NEW actor, NEW noted, OnlyStatus(p, to, actor, noted)
  PROVE  IInv'
<1> USE DEF OnlyStatus, Transition
<1>1. /\ to \in Statuses
      /\ to \in HandedOver => status[p] \in HandedOver
      /\ status[p] \in HandedOver => to \in HandedOver \union {"cancelled"}
  BY MatrixFacts
<1>2. TypeOK'
  BY <1>1 DEF IInv, TypeOK
<1>3. OneActive'
  BY DEF IInv, OneActive, Active
<1>4. ClaimedHasHolder'
  BY DEF IInv, TypeOK, ClaimedHasHolder, ActiveOn, Active
<1>5. HandedOverIsBacked'
  BY <1>1 DEF IInv, TypeOK, HandedOverIsBacked, AssignedTo
<1>6. DeletedNeverClaimed'
  BY DEF IInv, DeletedNeverClaimed, AssignedTo
<1>7. DeliveredStay'
  <2>1. ASSUME NEW a \in AsgIds, asg[a].status = "delivered"
        PROVE  status'[asg[a].project] \in HandedOver \union {"cancelled"}
    <3>1. asg[a].project \in Projects
      BY <2>1, DeliveredRow DEF IInv
    <3>2. status[asg[a].project] \in HandedOver \union {"cancelled"}
      BY <2>1 DEF IInv, DeliveredStay
    <3>3. status[p] # "cancelled"
      BY DEF Permitted, Matrix, Rules, Rule
    <3> QED BY <1>1, <3>1, <3>2, <3>3 DEF IInv, TypeOK
  <2> QED BY <2>1 DEF DeliveredStay
<1>8. InFlightRefers'
  BY DEF IInv, InFlightRefers
<1> QED BY <1>2, <1>3, <1>4, <1>5, <1>6, <1>7, <1>8 DEF IInv

\* claim(), its transaction.
LEMMA ClaimInv ==
  ASSUME IInv, NEW t \in Translators, NEW p \in Projects, NEW a \in AsgIds, Claim(t, p, a)
  PROVE  IInv'
<1> USE DEF Claim, Transition
<1>1. TypeOK'
  BY DEF IInv, TypeOK, Row, AsgRow, Statuses
<1>2. /\ asg'[a] = Row(p, t)
      /\ \A b \in AsgIds : b # a => asg'[b] = asg[b]
  BY DEF IInv, TypeOK
<1>3. OneActive'
  BY <1>2 DEF IInv, OneActive, Active, Row, ActiveOf, ActiveOn
<1>4. ClaimedHasHolder'
  <2>1. ASSUME NEW q \in Projects, status'[q] = "claimed"
        PROVE  ActiveOn(q)' # {}
    <3>1. CASE q = p
      BY <1>2, <3>1 DEF ActiveOn, Active, Row
    <3>2. CASE q # p
      <4>1. status[q] = "claimed"
        BY <2>1, <3>2 DEF IInv, TypeOK
      <4>2. PICK b \in AsgIds : Active(b) /\ asg[b].project = q
        BY <4>1 DEF IInv, ClaimedHasHolder, ActiveOn
      <4>3. b # a
        BY <4>2 DEF Active, Unused
      <4> QED BY <1>2, <4>2, <4>3 DEF ActiveOn, Active
    <3> QED BY <3>1, <3>2
  <2> QED BY <2>1 DEF ClaimedHasHolder
<1>5. HandedOverIsBacked'
  <2>1. ASSUME NEW q \in Projects, status'[q] \in HandedOver
        PROVE  /\ files'[q] # {}
               /\ \E b \in AssignedTo(q)' : asg'[b].status = "delivered"
    <3>1. status[q] \in HandedOver
      BY <2>1 DEF IInv, TypeOK, HandedOver
    <3>2. PICK b \in AssignedTo(q) : asg[b].status = "delivered"
      BY <3>1 DEF IInv, HandedOverIsBacked
    <3>3. b \in AsgIds /\ b # a
      BY <3>2 DEF AssignedTo, Unused
    <3>4. files[q] # {}
      BY <3>1 DEF IInv, HandedOverIsBacked
    <3> QED BY <1>2, <3>2, <3>3, <3>4 DEF AssignedTo
  <2> QED BY <2>1 DEF HandedOverIsBacked
<1>6. DeletedNeverClaimed'
  BY <1>2 DEF IInv, DeletedNeverClaimed, AssignedTo, Row
<1>7. DeliveredStay'
  <2>1. ASSUME NEW b \in AsgIds, asg'[b].status = "delivered"
        PROVE  status'[asg'[b].project] \in HandedOver \union {"cancelled"}
    <3>1. b # a
      BY <1>2, <2>1 DEF Row
    <3>2. asg[b].status = "delivered" /\ asg'[b].project = asg[b].project
      BY <1>2, <2>1, <3>1
    <3>3. status[asg[b].project] \in HandedOver \union {"cancelled"}
      BY <3>2 DEF IInv, DeliveredStay
    <3>4. asg[b].project # p
      BY <3>3 DEF HandedOver
    <3>5. asg[b].project \in Projects
      BY <3>2, DeliveredRow DEF IInv
    <3> QED BY <3>2, <3>3, <3>4, <3>5 DEF IInv, TypeOK
  <2> QED BY <2>1 DEF DeliveredStay
<1>8. InFlightRefers'
  BY <1>2 DEF IInv, TypeOK, InFlightRefers, NoAsg, Row, Unused
<1> QED BY <1>1, <1>3, <1>4, <1>5, <1>6, <1>7, <1>8 DEF IInv

\* deliver(), under the lock.
LEMMA DeliverInv ==
  ASSUME IInv, NEW a \in AsgIds, NEW S \in SUBSET FileIds, Deliver(a, S)
  PROVE  IInv'
<1> DEFINE p == asg[a].project
           v == Newest(p) + 1
<1>1. /\ a \in delivering
      /\ status[p] \in {"claimed", "revision_requested"}
      /\ v \in Rounds
      /\ S # {}
      /\ status' = [status EXCEPT ![p] = "delivered"]
      /\ files' = [files EXCEPT ![p] = @ \union Upload(v, S)]
      /\ asg' = [asg EXCEPT ![a].status = "delivered"]
      /\ delivering' \subseteq delivering
      /\ UNCHANGED <<deleted, claiming, withdrawing>>
  BY DEF Deliver, Transition
<1>2. asg[a] \in AsgRow /\ p \in Projects
  BY <1>1 DEF IInv, InFlightRefers, TypeOK, AsgRow
<1> HIDE DEF v
<1>3. TypeOK'
  <2>1. Upload(v, S) \subseteq [version : Rounds, name : FileIds]
    BY <1>1 DEF Upload
  <2>2. files' \in [Projects -> SUBSET [version : Rounds, name : FileIds]]
    BY <1>1, <1>2, <2>1 DEF IInv, TypeOK
  <2>3. asg' \in [AsgIds -> AsgRow \union {Unused}]
    BY <1>1, <1>2 DEF IInv, TypeOK, AsgRow
  <2> QED BY <1>1, <1>2, <2>2, <2>3 DEF IInv, TypeOK, Statuses
<1>4. /\ asg'[a].status = "delivered"
      /\ \A b \in AsgIds : /\ asg'[b].project = asg[b].project
                           /\ asg'[b].translator = asg[b].translator
                           /\ b # a => asg'[b] = asg[b]
  BY <1>1, <1>2 DEF IInv, TypeOK, AsgRow
<1> HIDE DEF p
<1>5. OneActive'
  BY <1>4 DEF IInv, OneActive, Active
<1>6. ClaimedHasHolder'
  <2>1. ASSUME NEW q \in Projects, status'[q] = "claimed"
        PROVE  ActiveOn(q)' # {}
    <3>1. q # p /\ status[q] = "claimed"
      BY <1>1, <2>1 DEF IInv, TypeOK
    <3>2. PICK b \in AsgIds : Active(b) /\ asg[b].project = q
      BY <3>1 DEF IInv, ClaimedHasHolder, ActiveOn
    <3>3. b # a
      BY <3>1, <3>2 DEF p
    <3> QED BY <1>4, <3>2, <3>3 DEF ActiveOn, Active
  <2> QED BY <2>1 DEF ClaimedHasHolder
<1>7. HandedOverIsBacked'
  <2>1. ASSUME NEW q \in Projects, status'[q] \in HandedOver
        PROVE  /\ files'[q] # {}
               /\ \E b \in AssignedTo(q)' : asg'[b].status = "delivered"
    <3>1. CASE q = p
      <4>1. files'[q] = files[p] \union Upload(v, S)
        BY <1>1, <1>2, <3>1 DEF IInv, TypeOK
      <4>2. PICK n \in S : [version |-> v, name |-> n] \in Upload(v, S)
        BY <1>1 DEF Upload
      <4> QED BY <1>4, <3>1, <4>1, <4>2 DEF AssignedTo, p
    <3>2. CASE q # p
      <4>1. status[q] \in HandedOver /\ files'[q] = files[q]
        BY <1>1, <2>1, <3>2 DEF IInv, TypeOK
      <4>2. PICK b \in AssignedTo(q) : asg[b].status = "delivered"
        BY <4>1 DEF IInv, HandedOverIsBacked
      <4> QED BY <1>4, <4>1, <4>2 DEF IInv, HandedOverIsBacked, AssignedTo
    <3> QED BY <3>1, <3>2
  <2> QED BY <2>1 DEF HandedOverIsBacked
<1>8. DeletedNeverClaimed'
  BY <1>1, <1>4 DEF IInv, DeletedNeverClaimed, AssignedTo
<1>9. DeliveredStay'
  <2>1. ASSUME NEW b \in AsgIds, asg'[b].status = "delivered"
        PROVE  status'[asg'[b].project] \in HandedOver \union {"cancelled"}
    <3>1. CASE asg[b].project = p
      BY <1>1, <1>2, <1>4, <3>1 DEF IInv, TypeOK, HandedOver
    <3>2. CASE asg[b].project # p
      <4>1. b # a
        BY <3>2 DEF p
      <4>2. asg[b].status = "delivered"
        BY <1>4, <2>1, <4>1
      <4>3. status[asg[b].project] \in HandedOver \union {"cancelled"}
        BY <4>2 DEF IInv, DeliveredStay
      <4>4. asg[b].project \in Projects
        BY <4>2, DeliveredRow DEF IInv
      <4> QED BY <1>1, <1>4, <3>2, <4>3, <4>4 DEF IInv, TypeOK
    <3> QED BY <3>1, <3>2
  <2> QED BY <2>1 DEF DeliveredStay
<1>10. InFlightRefers'
  <2>1. \A b \in AsgIds : asg[b] # Unused => asg'[b] # Unused
    BY <1>4 DEF Unused
  <2> QED BY <1>1, <1>4, <2>1 DEF IInv, TypeOK, InFlightRefers
<1> QED BY <1>3, <1>5, <1>6, <1>7, <1>8, <1>9, <1>10 DEF IInv

\* A correction of a delivery: one project's deliverables change and some remain.
LEMMA CorrectionInv ==
  ASSUME IInv, NEW p \in Projects,
         NEW F \in SUBSET [version : Rounds, name : FileIds], F # {},
         files' = [files EXCEPT ![p] = F],
         UNCHANGED <<status, deleted, asg, claiming, delivering, withdrawing>>
  PROVE  IInv'
<1>1. TypeOK'
  BY DEF IInv, TypeOK
<1>2. HandedOverIsBacked'
  BY DEF IInv, TypeOK, HandedOverIsBacked, AssignedTo
<1> QED BY <1>1, <1>2
    DEF IInv, OneActive, Active, ClaimedHasHolder, ActiveOn, DeletedNeverClaimed,
        AssignedTo, DeliveredStay, InFlightRefers

\* Under the lock of a delivered project there is a newest round to correct.
LEMMA AmendableRound ==
  ASSUME IInv, NEW t, NEW p \in Projects, Amendable(t, p)
  PROVE  /\ Newest(p) \in Rounds
         /\ RoundFiles(p) # {}
         /\ files[p] \in SUBSET [version : Rounds, name : FileIds]
<1>1. files[p] # {}
  BY DEF IInv, HandedOverIsBacked, HandedOver, Amendable
<1>2. TypeOK
  BY DEF IInv
<1> QED BY <1>1, <1>2, NewestIsGreatest DEF RoundFiles, TypeOK

LEMMA ReplaceInv ==
  ASSUME IInv, NEW t \in Translators, NEW p \in Projects, NEW f \in files[p],
         NEW n \in FileIds, ReplaceDelivered(t, p, f, n)
  PROVE  IInv'
<1> DEFINE F == (files[p] \ {f}) \union Upload(Newest(p), {n})
<1>1. Amendable(t, p)
  BY DEF ReplaceDelivered
<1>2. [version |-> Newest(p), name |-> n] \in Upload(Newest(p), {n})
  BY DEF Upload
<1>3. Upload(Newest(p), {n}) \subseteq [version : Rounds, name : FileIds]
  BY <1>1, AmendableRound DEF Upload
<1>4. F \in SUBSET [version : Rounds, name : FileIds] /\ F # {}
  BY <1>1, <1>2, <1>3, AmendableRound
<1> HIDE DEF F
<1> QED BY <1>4, CorrectionInv DEF ReplaceDelivered, F

LEMMA AddInv ==
  ASSUME IInv, NEW t \in Translators, NEW p \in Projects, NEW S \in SUBSET FileIds,
         AddDelivered(t, p, S)
  PROVE  IInv'
<1> DEFINE F == files[p] \union Upload(Newest(p), S)
<1>1. Amendable(t, p)
  BY DEF AddDelivered
<1>2. files[p] # {}
  BY <1>1, AmendableRound DEF RoundFiles
<1>3. F \in SUBSET [version : Rounds, name : FileIds] /\ F # {}
  BY <1>1, <1>2, AmendableRound DEF Upload
<1> HIDE DEF F
<1> QED BY <1>3, CorrectionInv DEF AddDelivered, F

LEMMA RemoveInv ==
  ASSUME IInv, NEW t \in Translators, NEW p \in Projects, NEW f \in files[p],
         RemoveDelivered(t, p, f)
  PROVE  IInv'
<1> DEFINE F == files[p] \ {f}
<1>1. Amendable(t, p) /\ f \in RoundFiles(p) /\ RoundFiles(p) # {f}
  BY DEF RemoveDelivered
<1>2. PICK g \in RoundFiles(p) : g # f
  BY <1>1
<1>3. F \in SUBSET [version : Rounds, name : FileIds] /\ F # {}
  BY <1>1, <1>2, AmendableRound DEF RoundFiles
<1> HIDE DEF F
<1> QED BY <1>3, CorrectionInv DEF RemoveDelivered, F

\* withdraw(), its transition and the update of the assignment it had read.
LEMMA WithdrawInv ==
  ASSUME IInv, NEW p \in Projects, NEW a \in AsgIds \union {NoAsg}, Withdraw(p, a)
  PROVE  IInv'
<1>1. /\ <<p, a>> \in withdrawing
      /\ status' = [status EXCEPT ![p] = "available"]
      /\ asg' = IF a = NoAsg THEN asg ELSE [asg EXCEPT ![a].status = "withdrawn"]
      /\ withdrawing' \subseteq withdrawing
      /\ UNCHANGED <<deleted, files, claiming, delivering>>
  BY DEF Withdraw, Transition
<1>2. status[p] \in {"draft", "claimed"}
  BY MatrixFacts DEF Withdraw, Transition
<1>3. a # NoAsg => a \in AsgIds /\ asg[a] \in AsgRow /\ asg[a].project = p
  <2>1. ASSUME a # NoAsg PROVE asg[a] # Unused /\ asg[a].project = p
    <3>1. <<p, a>>[1] = p /\ <<p, a>>[2] = a
      OBVIOUS
    <3> QED BY <1>1, <2>1, <3>1 DEF IInv, InFlightRefers
  <2> QED BY <2>1 DEF IInv, TypeOK
<1>4. \A b \in AsgIds : /\ asg'[b].project = asg[b].project
                        /\ asg'[b].translator = asg[b].translator
                        /\ b # a => asg'[b] = asg[b]
                        /\ b = a => asg'[b].status = "withdrawn"
  BY <1>1, <1>3 DEF IInv, TypeOK, AsgRow, NoAsg, AsgIds
<1>5. TypeOK'
  <2>1. asg' \in [AsgIds -> AsgRow \union {Unused}]
    BY <1>1, <1>3 DEF IInv, TypeOK, AsgRow
  <2> QED BY <1>1, <2>1 DEF IInv, TypeOK, Statuses
<1>6. OneActive'
  BY <1>4 DEF IInv, OneActive, Active
<1>7. ClaimedHasHolder'
  <2>1. ASSUME NEW q \in Projects, status'[q] = "claimed"
        PROVE  ActiveOn(q)' # {}
    <3>1. q # p /\ status[q] = "claimed"
      BY <1>1, <2>1 DEF IInv, TypeOK
    <3>2. PICK b \in AsgIds : Active(b) /\ asg[b].project = q
      BY <3>1 DEF IInv, ClaimedHasHolder, ActiveOn
    <3>3. b # a
      BY <1>3, <3>1, <3>2 DEF NoAsg, AsgIds
    <3> QED BY <1>4, <3>2, <3>3 DEF ActiveOn, Active
  <2> QED BY <2>1 DEF ClaimedHasHolder
<1>8. HandedOverIsBacked'
  <2>1. ASSUME NEW q \in Projects, status'[q] \in HandedOver
        PROVE  /\ files'[q] # {}
               /\ \E b \in AssignedTo(q)' : asg'[b].status = "delivered"
    <3>1. q # p /\ status[q] \in HandedOver
      BY <1>1, <2>1 DEF IInv, TypeOK, HandedOver
    <3>2. PICK b \in AssignedTo(q) : asg[b].status = "delivered"
      BY <3>1 DEF IInv, HandedOverIsBacked
    <3>3. b \in AsgIds /\ b # a
      BY <1>3, <3>1, <3>2 DEF AssignedTo, NoAsg, AsgIds
    <3> QED BY <1>1, <1>4, <3>1, <3>2, <3>3 DEF IInv, HandedOverIsBacked, AssignedTo
  <2> QED BY <2>1 DEF HandedOverIsBacked
<1>9. DeletedNeverClaimed'
  BY <1>1, <1>4 DEF IInv, DeletedNeverClaimed, AssignedTo
<1>10. DeliveredStay'
  <2>1. ASSUME NEW b \in AsgIds, asg'[b].status = "delivered"
        PROVE  status'[asg'[b].project] \in HandedOver \union {"cancelled"}
    <3>1. asg[b].status = "delivered" /\ asg'[b].project = asg[b].project
      BY <1>4, <2>1
    <3>2. status[asg[b].project] \in HandedOver \union {"cancelled"}
      BY <3>1 DEF IInv, DeliveredStay
    <3>3. asg[b].project # p /\ asg[b].project \in Projects
      BY <1>2, <3>1, <3>2, DeliveredRow DEF IInv, HandedOver
    <3> QED BY <1>1, <3>1, <3>2, <3>3 DEF IInv, TypeOK
  <2> QED BY <2>1 DEF DeliveredStay
<1>11. InFlightRefers'
  <2>1. \A b \in AsgIds : asg[b] # Unused => asg'[b] # Unused
    BY <1>4 DEF Unused
  <2>2. \A w \in withdrawing : w[2] # NoAsg => w[2] \in AsgIds
    BY DEF IInv, TypeOK
  <2> QED BY <1>1, <1>4, <2>1, <2>2 DEF IInv, TypeOK, InFlightRefers
<1> QED BY <1>5, <1>6, <1>7, <1>8, <1>9, <1>10, <1>11 DEF IInv

\* destroy(): nobody ever held the project.
LEMMA DestroyInv ==
  ASSUME IInv, NEW p \in Projects, Destroy(p)
  PROVE  IInv'
BY DEF Destroy, IInv, TypeOK, OneActive, Active, ClaimedHasHolder, ActiveOn,
       HandedOverIsBacked, AssignedTo, DeletedNeverClaimed, DeliveredStay, InFlightRefers

\* A request starts or is given up: the tables do not change.
LEMMA InFlightInv ==
  ASSUME IInv, UNCHANGED <<status, deleted, asg, files>>,
         claiming' \subseteq Translators \X Projects,
         delivering' \subseteq AsgIds,
         withdrawing' \subseteq Projects \X (AsgIds \union {NoAsg}),
         InFlightRefers'
  PROVE  IInv'
BY DEF IInv, TypeOK, OneActive, Active, ClaimedHasHolder, ActiveOn,
       HandedOverIsBacked, AssignedTo, DeletedNeverClaimed, DeliveredStay

LEMMA StartInv ==
  ASSUME IInv, NEW p \in Projects,
         \/ \E t \in Translators : StartClaim(t, p)
         \/ \E t \in Translators, a \in AsgIds : StartDeliver(t, a)
         \/ \E a \in AsgIds \union {NoAsg} : StartWithdraw(p, a)
  PROVE  IInv'
<1>1. CASE \E t \in Translators : StartClaim(t, p)
  BY <1>1, InFlightInv DEF StartClaim, IInv, TypeOK, InFlightRefers
<1>2. ASSUME NEW t \in Translators, NEW a \in AsgIds, StartDeliver(t, a)
      PROVE  IInv'
  <2>1. asg[a] # Unused
    BY <1>2 DEF StartDeliver, IsLatest, Workable, ActiveOf, Active, Unused
  <2>2. InFlightRefers'
    BY <1>2, <2>1 DEF StartDeliver, IInv, InFlightRefers
  <2> QED BY <1>2, <2>2, InFlightInv DEF StartDeliver, IInv, TypeOK
<1>3. ASSUME NEW a \in AsgIds \union {NoAsg}, StartWithdraw(p, a)
      PROVE  IInv'
  <2>1. a # NoAsg => asg[a] # Unused /\ asg[a].project = p
    BY <1>3 DEF StartWithdraw, ActiveOn, Active, Unused
  <2>2. InFlightRefers'
    BY <1>3, <2>1 DEF StartWithdraw, IInv, InFlightRefers
  <2> QED BY <1>3, <2>2, InFlightInv DEF StartWithdraw, IInv, TypeOK
<1> QED BY <1>1, <1>2, <1>3

LEMMA AbortInv ==
  ASSUME IInv,
         \/ \E t \in Translators, p \in Projects : AbortClaim(t, p)
         \/ \E a \in AsgIds : AbortDeliver(a)
         \/ \E p \in Projects, a \in AsgIds \union {NoAsg} : AbortWithdraw(p, a)
  PROVE  IInv'
<1>1. /\ UNCHANGED <<status, deleted, asg, files>>
      /\ claiming' \subseteq claiming
      /\ delivering' \subseteq delivering
      /\ withdrawing' \subseteq withdrawing
  BY DEF AbortClaim, AbortDeliver, AbortWithdraw
<1>2. InFlightRefers'
  BY <1>1 DEF IInv, InFlightRefers
<1> QED BY <1>1, <1>2, InFlightInv DEF IInv, TypeOK

-----------------------------------------------------------------------------
LEMMA TranslatorStepInv == IInv /\ TranslatorStep => IInv'
<1> SUFFICES ASSUME IInv, TranslatorStep PROVE IInv'
  OBVIOUS
<1>1. ASSUME NEW t \in Translators, NEW p \in Projects,
             \/ StartClaim(t, p)
             \/ AbortClaim(t, p)
             \/ \E a \in AsgIds : Claim(t, p, a)
             \/ \E f \in files[p], n \in FileIds : ReplaceDelivered(t, p, f, n)
             \/ \E S \in SUBSET FileIds : AddDelivered(t, p, S)
             \/ \E f \in files[p] : RemoveDelivered(t, p, f)
      PROVE  IInv'
  BY <1>1, StartInv, AbortInv, ClaimInv, ReplaceInv, AddInv, RemoveInv
<1>2. ASSUME NEW a \in AsgIds,
             \/ AbortDeliver(a)
             \/ \E t \in Translators : StartDeliver(t, a)
             \/ \E S \in SUBSET FileIds : Deliver(a, S)
      PROVE  IInv'
  <2>1. CASE AbortDeliver(a)
    BY <2>1, AbortInv
  <2>2. ASSUME NEW t \in Translators, StartDeliver(t, a)
        PROVE  IInv'
    <3>1. asg[a].project \in Projects
      BY <2>2, DeliveredRow DEF StartDeliver, IsLatest, Workable, ActiveOf, Active, IInv
    <3> QED BY <2>2, <3>1, StartInv
  <2>3. CASE \E S \in SUBSET FileIds : Deliver(a, S)
    BY <2>3, DeliverInv
  <2> QED BY <1>2, <2>1, <2>2, <2>3
<1> QED BY <1>1, <1>2 DEF TranslatorStep

LEMMA OfficeStepInv == IInv /\ OfficeStep => IInv'
<1> SUFFICES ASSUME IInv, NEW p \in Projects,
                    \/ Publish(p)
                    \/ Open(p)
                    \/ RequestRevision(p)
                    \/ Approve(p)
                    \/ Complete(p)
                    \/ Archive(p)
                    \/ Destroy(p)
                    \/ \E actor \in Managers : Cancel(p, actor)
                    \/ \E a \in AsgIds \union {NoAsg} :
                         StartWithdraw(p, a) \/ Withdraw(p, a) \/ AbortWithdraw(p, a)
             PROVE  IInv'
  BY DEF OfficeStep
<1>1. CASE \/ Publish(p) \/ Open(p) \/ RequestRevision(p) \/ Approve(p)
           \/ Complete(p) \/ Archive(p) \/ \E actor \in Managers : Cancel(p, actor)
  BY <1>1, OnlyStatusInv
     DEF Publish, Open, RequestRevision, Approve, Complete, Archive, Cancel
<1>2. CASE Destroy(p)
  BY <1>2, DestroyInv
<1>3. CASE \E a \in AsgIds \union {NoAsg} :
             StartWithdraw(p, a) \/ Withdraw(p, a) \/ AbortWithdraw(p, a)
  BY <1>3, StartInv, WithdrawInv, AbortInv
<1> QED BY <1>1, <1>2, <1>3

\* The invariant is inductive, so it holds of every behaviour.
THEOREM Invariance == Spec => []IInv
<1>1. IInv /\ UNCHANGED vars => IInv'
  BY DEF vars, IInv, TypeOK, OneActive, Active, ClaimedHasHolder, ActiveOn,
         HandedOverIsBacked, AssignedTo, DeletedNeverClaimed, DeliveredStay, InFlightRefers
<1>2. IInv /\ [Next]_vars => IInv'
  BY <1>1, TranslatorStepInv, OfficeStepInv DEF Next
<1> QED BY InitInv, <1>2, PTL DEF Spec

\* Every variable keeps its type.
THEOREM TypeCorrect == Spec => []TypeOK
<1>1. IInv => TypeOK
  BY DEF IInv
<1> QED BY <1>1, Invariance, PTL

\* claim() never double-books a project or a translator.
THEOREM NoDoubleBooking == Spec => []OneActive
<1>1. IInv => OneActive
  BY DEF IInv
<1> QED BY <1>1, Invariance, PTL

\* A claimed project always has somebody working on it.
THEOREM ClaimedIsHeld == Spec => []ClaimedHasHolder
<1>1. IInv => ClaimedHasHolder
  BY DEF IInv
<1> QED BY <1>1, Invariance, PTL

\* What was handed over keeps a file to review and an assignment to return it to.
THEOREM HandedOverBacked == Spec => []HandedOverIsBacked
<1>1. IInv => HandedOverIsBacked
  BY DEF IInv
<1> QED BY <1>1, Invariance, PTL

\* No project anybody ever claimed is deleted.
THEOREM NoClaimedProjectDeleted == Spec => []DeletedNeverClaimed
<1>1. IInv => DeletedNeverClaimed
  BY DEF IInv
<1> QED BY <1>1, Invariance, PTL

\* Claimed work has its holder, delivered work its delivery, and neither is deleted.
THEOREM EveryStatusBacked == Spec => []StatusIsBacked
<1>1. IInv => StatusIsBacked
  BY DEF IInv, StatusIsBacked
<1> QED BY <1>1, Invariance, PTL

-----------------------------------------------------------------------------
(* What a step may never do.                                               *)

\* A delivered row changes only in an update of its own, and both updates leave it:
\* withdraw() needs a claimed project, deliver() writes the status it has.
LEMMA DeliveredRowStays ==
  ASSUME IInv, Next, NEW a \in AsgIds, asg[a].status = "delivered"
  PROVE  asg'[a] = asg[a]
<1>1. asg[a].project \in Projects /\ asg[a] \in AsgRow
  BY DeliveredRow DEF IInv
<1>2. status[asg[a].project] \notin {"draft", "claimed"}
  BY DEF IInv, DeliveredStay, HandedOver
<1>3. ASSUME NEW t \in Translators, NEW p \in Projects, NEW b \in AsgIds, Claim(t, p, b)
      PROVE  asg'[a] = asg[a]
  BY <1>3 DEF Claim, Unused, IInv, TypeOK
<1>4. ASSUME NEW b \in AsgIds, NEW S \in SUBSET FileIds, Deliver(b, S)
      PROVE  asg'[a] = asg[a]
  BY <1>1, <1>4 DEF Deliver, IInv, TypeOK, AsgRow
<1>5. ASSUME NEW p \in Projects, NEW b \in AsgIds \union {NoAsg}, Withdraw(p, b)
      PROVE  asg'[a] = asg[a]
  <2>1. status[p] \in {"draft", "claimed"}
    BY <1>5, MatrixFacts DEF Withdraw, Transition
  <2>2. b # NoAsg => asg[b].project = p
    <3>1. <<p, b>>[1] = p /\ <<p, b>>[2] = b
      OBVIOUS
    <3> QED BY <1>5, <3>1 DEF Withdraw, IInv, InFlightRefers
  <2>3. b # NoAsg => b # a
    BY <1>2, <2>1, <2>2
  <2> QED BY <1>5, <2>3 DEF Withdraw, IInv, TypeOK
<1> QED BY <1>3, <1>4, <1>5
    DEF Next, TranslatorStep, OfficeStep, StartClaim, AbortClaim, ReplaceDelivered,
        AddDelivered, RemoveDelivered, AbortDeliver, StartDeliver, Publish, Open,
        RequestRevision, Approve, Complete, Archive, Destroy, Cancel, OnlyStatus,
        StartWithdraw, AbortWithdraw

\* A delivery never leaves the translator's record.
THEOREM DeliveriesAreFinal == Spec => DeliveryIsFinal
<1>1. IInv /\ [Next]_vars =>
        [\A a \in AsgIds : asg[a].status = "delivered" => asg[a]' = asg[a]]_vars
  BY DeliveredRowStays
<1> QED BY <1>1, Invariance, PTL DEF Spec, DeliveryIsFinal

\* The version all others are below is the one Newest chooses, before a step and after.
LEMMA VersionChosen ==
  ASSUME NEW F \in SUBSET [version : Rounds, name : FileIds], NEW v \in Rounds,
         \E f \in F : f.version = v, \A f \in F : f.version <= v
  PROVE  (IF F = {} THEN 0
          ELSE CHOOSE u \in Rounds : /\ \E f \in F : f.version = u
                                     /\ \A f \in F : f.version <= u) = v
<1> DEFINE Greatest(u) == (\E f \in F : f.version = u) /\ (\A f \in F : f.version <= u)
<1>1. F # {} /\ Greatest(v)
  OBVIOUS
<1>2. ASSUME NEW u \in Rounds, Greatest(u) PROVE u = v
  <2>1. PICK f \in F : f.version = u
    BY <1>2
  <2>2. PICK g \in F : g.version = v
    BY <1>1
  <2>3. u <= v /\ v <= u
    BY <1>2, <2>1, <2>2
  <2> QED BY <2>3, BoundsAssumption DEF Rounds
<1> HIDE DEF Greatest
<1>3. (CHOOSE u \in Rounds : Greatest(u)) = v
  BY <1>1, <1>2
<1> QED BY <1>1, <1>3 DEF Greatest

\* The version of every deliverable is the newest or below it.
LEMMA VersionBounds ==
  ASSUME TypeOK, NEW p \in Projects
  PROVE  /\ Newest(p) \in 0..MaxRounds
         /\ \A f \in files[p] : f.version <= Newest(p) /\ f.version \in Rounds
         /\ files[p] # {} => \E f \in files[p] : f.version = Newest(p)
<1>1. \A f \in files[p] : f.version \in Rounds
  BY DEF TypeOK
<1>2. CASE files[p] = {}
  BY <1>2, BoundsAssumption DEF Newest
<1>3. CASE files[p] # {}
  BY <1>1, <1>3, NewestIsGreatest, BoundsAssumption DEF Rounds
<1> QED BY <1>2, <1>3

\* deliver() opens the next round.
LEMMA DeliverOpensRound ==
  ASSUME IInv, NEW a \in AsgIds, NEW S \in SUBSET FileIds, Deliver(a, S),
         NEW q \in Projects, files'[q] # files[q]
  PROVE  /\ status[q] \in {"claimed", "revision_requested"}
         /\ status'[q] = "delivered"
         /\ files[q] \subseteq files'[q]
         /\ Newest(q)' = Newest(q) + 1
<1> DEFINE p == asg[a].project
           v == Newest(p) + 1
<1>1. p \in Projects
  BY DEF Deliver, IInv, InFlightRefers, TypeOK, AsgRow
<1>2. /\ files' = [files EXCEPT ![p] = @ \union Upload(v, S)]
      /\ status' = [status EXCEPT ![p] = "delivered"]
      /\ v \in Rounds /\ S # {}
      /\ status[p] \in {"claimed", "revision_requested"}
  BY DEF Deliver, Transition
<1>3. q = p
  BY <1>1, <1>2 DEF IInv, TypeOK
<1>4. files'[p] = files[p] \union Upload(v, S) /\ status'[p] = "delivered"
  BY <1>1, <1>2 DEF IInv, TypeOK
<1>5. files'[p] \in SUBSET [version : Rounds, name : FileIds]
  BY <1>1, <1>2, <1>4 DEF IInv, TypeOK, Upload
<1>6. \E f \in files'[p] : f.version = v
  <2>1. PICK n \in S : [version |-> v, name |-> n] \in Upload(v, S)
    BY <1>2 DEF Upload
  <2> QED BY <1>4, <2>1
<1>7. \A f \in files'[p] : f.version <= v
  BY <1>1, <1>2, <1>4, VersionBounds, BoundsAssumption DEF Upload, IInv, Rounds
<1> HIDE DEF v
<1> HIDE DEF p
<1>8. Newest(q)' = v
  BY <1>2, <1>3, <1>5, <1>6, <1>7, VersionChosen DEF Newest
<1> QED BY <1>2, <1>3, <1>4, <1>8 DEF v

\* What a correction leaves of the newest round has a file: the round keeps its number,
\* and what is not in it is left alone.
LEMMA RoundKept ==
  ASSUME IInv, NEW p \in Projects, NEW gone \in SUBSET RoundFiles(p),
         NEW names \in SUBSET FileIds, files[p] # {},
         gone # RoundFiles(p) \/ names # {},
         files' = [files EXCEPT ![p] = (@ \ gone) \union Upload(Newest(p), names)]
  PROVE  /\ Newest(p)' = Newest(p)
         /\ (files[p] \ RoundFiles(p))' = files[p] \ RoundFiles(p)
<1> DEFINE v == Newest(p)
<1>1. /\ v \in Rounds
      /\ \A f \in files[p] : f.version <= v /\ f.version \in Rounds
  BY NewestIsGreatest, VersionBounds DEF IInv
<1>2. files'[p] = (files[p] \ gone) \union Upload(v, names)
  BY DEF IInv, TypeOK
<1>3. files'[p] \in SUBSET [version : Rounds, name : FileIds]
  BY <1>1, <1>2 DEF IInv, TypeOK, Upload
<1>4. \E f \in files'[p] : f.version = v
  <2>1. CASE gone # RoundFiles(p)
    BY <1>2, <2>1 DEF RoundFiles
  <2>2. ASSUME NEW n \in names PROVE \E f \in files'[p] : f.version = v
    <3>1. [version |-> v, name |-> n] \in Upload(v, names)
      BY DEF Upload
    <3> QED BY <1>2, <3>1
  <2> QED BY <2>1, <2>2
<1>5. \A f \in files'[p] : f.version <= v
  BY <1>1, <1>2, BoundsAssumption DEF Upload, Rounds
<1> HIDE DEF v
<1>6. Newest(p)' = v
  BY <1>1, <1>3, <1>4, <1>5, VersionChosen DEF Newest
<1>7. RoundFiles(p)' = {f \in files'[p] : f.version = v}
  BY <1>6 DEF RoundFiles
<1>8. RoundFiles(p) = {f \in files[p] : f.version = v}
  BY DEF RoundFiles, v
<1>9. \A f \in Upload(v, names) : f.version = v
  BY DEF Upload
<1> QED BY <1>2, <1>6, <1>7, <1>8, <1>9 DEF v

\* The corrections of a delivery, under the lock.
LEMMA CorrectionKeepsRound ==
  ASSUME IInv, NEW t \in Translators, NEW p \in Projects, NEW q \in Projects,
         files'[q] # files[q],
         \/ \E f \in files[p], n \in FileIds : ReplaceDelivered(t, p, f, n)
         \/ \E S \in SUBSET FileIds : AddDelivered(t, p, S)
         \/ \E f \in files[p] : RemoveDelivered(t, p, f)
  PROVE  /\ status[q] = "delivered" /\ status'[q] = "delivered"
         /\ Newest(q)' = Newest(q)
         /\ (files[q] \ RoundFiles(q))' = files[q] \ RoundFiles(q)
<1>1. status[p] = "delivered" /\ UNCHANGED status
  BY DEF ReplaceDelivered, AddDelivered, RemoveDelivered, Amendable
<1>2. files[p] # {}
  BY <1>1 DEF IInv, HandedOverIsBacked, HandedOver
<1>3. ASSUME NEW f \in files[p], NEW n \in FileIds, ReplaceDelivered(t, p, f, n)
      PROVE  p = q /\ Newest(p)' = Newest(p)
             /\ (files[p] \ RoundFiles(p))' = files[p] \ RoundFiles(p)
  <2>1. /\ {f} \in SUBSET RoundFiles(p) /\ {n} \in SUBSET FileIds /\ {n} # {}
        /\ files' = [files EXCEPT ![p] = (@ \ {f}) \union Upload(Newest(p), {n})]
    BY <1>3 DEF ReplaceDelivered
  <2> QED BY <1>2, <2>1, RoundKept DEF IInv, TypeOK
<1>4. ASSUME NEW S \in SUBSET FileIds, AddDelivered(t, p, S)
      PROVE  p = q /\ Newest(p)' = Newest(p)
             /\ (files[p] \ RoundFiles(p))' = files[p] \ RoundFiles(p)
  <2>1. /\ {} \in SUBSET RoundFiles(p) /\ S # {}
        /\ files' = [files EXCEPT ![p] = (@ \ {}) \union Upload(Newest(p), S)]
    BY <1>4 DEF AddDelivered
  <2> QED BY <1>2, <2>1, RoundKept DEF IInv, TypeOK
<1>5. ASSUME NEW f \in files[p], RemoveDelivered(t, p, f)
      PROVE  p = q /\ Newest(p)' = Newest(p)
             /\ (files[p] \ RoundFiles(p))' = files[p] \ RoundFiles(p)
  <2>1. Upload(Newest(p), {}) = {}
    BY DEF Upload
  <2>2. /\ {f} \in SUBSET RoundFiles(p) /\ {f} # RoundFiles(p) /\ {} \in SUBSET FileIds
        /\ files' = [files EXCEPT ![p] = (@ \ {f}) \union Upload(Newest(p), {})]
    BY <1>5, <2>1 DEF RemoveDelivered
  <2> QED BY <1>2, <2>2, RoundKept DEF IInv, TypeOK
<1> QED BY <1>1, <1>3, <1>4, <1>5

\* A round opens only with a delivery, a correction stays within the newest round, and
\* nothing else touches the files.
THEOREM RoundsKeepOrder == Spec => RoundsFollowDeliveries
<1> DEFINE Follows ==
      \A p \in Projects : files[p]' # files[p] =>
       \/ /\ status[p] \in {"claimed", "revision_requested"}
          /\ status[p]' = "delivered"
          /\ files[p] \subseteq files[p]'
          /\ Newest(p)' = Newest(p) + 1
       \/ /\ status[p] = "delivered" /\ status[p]' = "delivered"
          /\ Newest(p)' = Newest(p)
          /\ (files[p] \ RoundFiles(p))' = files[p] \ RoundFiles(p)
<1>1. ASSUME IInv, TranslatorStep PROVE Follows
  <2>1. ASSUME NEW t \in Translators, NEW p \in Projects,
               \/ \E f \in files[p], n \in FileIds : ReplaceDelivered(t, p, f, n)
               \/ \E S \in SUBSET FileIds : AddDelivered(t, p, S)
               \/ \E f \in files[p] : RemoveDelivered(t, p, f)
        PROVE  Follows
    BY <1>1, <2>1, CorrectionKeepsRound
  <2>2. ASSUME NEW a \in AsgIds, NEW S \in SUBSET FileIds, Deliver(a, S)
        PROVE  Follows
    BY <1>1, <2>2, DeliverOpensRound
  <2>3. CASE UNCHANGED files
    BY <2>3
  <2> HIDE DEF Follows
  <2> QED BY <1>1, <2>1, <2>2, <2>3
          DEF TranslatorStep, StartClaim, AbortClaim, Claim, AbortDeliver, StartDeliver
<1>2. ASSUME OfficeStep PROVE UNCHANGED files
  BY <1>2 DEF OfficeStep, Publish, Open, RequestRevision, Approve, Complete, Archive, Destroy,
              Cancel, OnlyStatus, StartWithdraw, Withdraw, AbortWithdraw
<1>3. IInv /\ [Next]_vars => [Follows]_vars
  BY <1>1, <1>2 DEF Next
<1> QED BY <1>3, Invariance, PTL DEF Spec, RoundsFollowDeliveries

-----------------------------------------------------------------------------
(* The client's view.                                                      *)

LEMMA MatrixStages ==
  ASSUME NEW from, NEW to, NEW actor, NEW noted, Permitted(from, to, actor, noted)
  PROVE  \/ ClientStage(to) = ClientStage(from)
         \/ ClientStage(to) \in View!Follows(ClientStage(from))
<1>1. PICK r \in Matrix : r.from = from /\ r.to = to
  BY DEF Permitted
<1> QED BY <1>1 DEF Matrix, Rules, Rule, ClientStage, View!Follows

\* Every step moves one project's status along the matrix, or none.
LEMMA StatusSteps ==
  ASSUME IInv, Next
  PROVE  \/ UNCHANGED status
         \/ \E p \in Projects : \E to, actor, noted : Transition(p, to, actor, noted)
<1>1. ASSUME NEW a \in AsgIds, NEW S \in SUBSET FileIds, Deliver(a, S)
      PROVE  \E p \in Projects : \E to, actor, noted : Transition(p, to, actor, noted)
  <2>1. asg[a].project \in Projects
    BY <1>1 DEF Deliver, IInv, InFlightRefers, TypeOK, AsgRow
  <2> QED BY <1>1, <2>1 DEF Deliver
<1>2. ASSUME NEW t \in Translators, NEW p \in Projects, NEW a \in AsgIds, Claim(t, p, a)
      PROVE  Transition(p, "claimed", "translator", FALSE)
  BY <1>2 DEF Claim
<1>3. ASSUME NEW p \in Projects, NEW a \in AsgIds \union {NoAsg}, Withdraw(p, a)
      PROVE  Transition(p, "available", "project_manager", TRUE)
  BY <1>3 DEF Withdraw
<1>4. ASSUME NEW p \in Projects,
             \/ Publish(p) \/ Open(p) \/ RequestRevision(p) \/ Approve(p)
             \/ Complete(p) \/ Archive(p) \/ \E actor \in Managers : Cancel(p, actor)
      PROVE  \E to, actor, noted : Transition(p, to, actor, noted)
  BY <1>4 DEF Publish, Open, RequestRevision, Approve, Complete, Archive, Cancel, OnlyStatus
<1>5. CASE TranslatorStep
  BY <1>1, <1>2, <1>5
     DEF TranslatorStep, StartClaim, AbortClaim, ReplaceDelivered, AddDelivered,
         RemoveDelivered, AbortDeliver, StartDeliver
<1>6. CASE OfficeStep
  BY <1>3, <1>4, <1>6 DEF OfficeStep, Destroy, StartWithdraw, AbortWithdraw
<1> QED BY <1>5, <1>6 DEF Next

\* The portal implements the client's view: each step is one stage forward for one
\* project, or nothing the client can see.
THEOREM ImplementsClientView == Spec => ClientViewHolds
<1> DEFINE stage == [p \in Projects |-> ClientStage(status[p])]
<1>1. Init => View!Init
  BY DEF Init, View!Init, ClientStage
<1>2. IInv /\ [Next]_vars => [View!Next]_stage
  <2>1. ASSUME IInv, NEW p \in Projects, NEW to, NEW actor, NEW noted,
               Transition(p, to, actor, noted)
        PROVE  View!Next \/ UNCHANGED stage
    <3>1. stage' = [stage EXCEPT ![p] = ClientStage(to)]
      BY <2>1 DEF Transition, IInv, TypeOK
    <3>2. \/ ClientStage(to) = stage[p]
          \/ ClientStage(to) \in View!Follows(stage[p])
      BY <2>1, MatrixStages DEF Transition
    <3>3. CASE ClientStage(to) = stage[p]
      BY <3>1, <3>3
    <3>4. CASE ClientStage(to) \in View!Follows(stage[p])
      BY <3>1, <3>4 DEF View!Next, View!Advance
    <3> QED BY <3>2, <3>3, <3>4
  <2>2. CASE IInv /\ UNCHANGED status
    BY <2>2
  <2> QED BY <2>1, <2>2, StatusSteps DEF vars
<1>3. View!Spec <=> View!Init /\ [][View!Next]_stage
  BY DEF View!Spec
<1> QED BY <1>1, <1>2, <1>3, Invariance, PTL DEF Spec, ClientViewHolds
=============================================================================
