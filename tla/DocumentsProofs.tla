-------------------------- MODULE DocumentsProofs --------------------------
(***************************************************************************)
(* Theorems about what hangs off a project, for any number of managers,    *)
(* files, requests and crashes: what the office asks the client for        *)
(* (Documents) and, at the end, who owns the draft and what it is made of  *)
(* (Intake).                                                               *)
(***************************************************************************)
EXTENDS Documents, SequenceTheorems, TLAPS

-----------------------------------------------------------------------------
(* Tables.                                                                 *)

\* A column of a row is written, or every row is: the table keeps its length.
LEMMA RowWritten ==
  ASSUME NEW S, NEW q \in Seq(S), NEW i \in DOMAIN q, NEW v \in S
  PROVE  /\ [q EXCEPT ![i] = v] \in Seq(S) /\ DOMAIN [q EXCEPT ![i] = v] = DOMAIN q
         /\ [q EXCEPT ![i] = v][i] = v
         /\ \A j \in DOMAIN q : j # i => [q EXCEPT ![i] = v][j] = q[j]
<1>1. DOMAIN q = 1..Len(q)
  BY LenProperties
<1>2. [q EXCEPT ![i] = v] \in Seq(S)
  BY <1>1, ExceptSeq
<1> QED BY <1>2

LEMMA RowsWritten ==
  ASSUME NEW S, NEW q \in Seq(S), NEW g, g = [i \in DOMAIN q |-> g[i]],
         \A i \in DOMAIN q : g[i] \in S
  PROVE  g \in Seq(S) /\ DOMAIN g = DOMAIN q
<1>1. DOMAIN q = 1..Len(q) /\ Len(q) \in Nat
  BY LenProperties
<1>2. g \in [1..Len(q) -> S]
  BY <1>1
<1> QED BY <1>1, <1>2, SeqDef

\* A row is added at the end.
LEMMA RowAdded ==
  ASSUME NEW S, NEW q \in Seq(S), NEW v \in S
  PROVE  /\ Append(q, v) \in Seq(S)
         /\ DOMAIN Append(q, v) = DOMAIN q \union {Len(q) + 1}
         /\ Len(q) + 1 \notin DOMAIN q /\ Append(q, v)[Len(q) + 1] = v
         /\ \A j \in DOMAIN q : Append(q, v)[j] = q[j]
<1>1. DOMAIN q = 1..Len(q) /\ Len(q) \in Nat
  BY LenProperties
<1>2. /\ Append(q, v) \in Seq(S) /\ Len(Append(q, v)) = Len(q) + 1
      /\ \A j \in 1..Len(q) : Append(q, v)[j] = q[j]
      /\ Append(q, v)[Len(q) + 1] = v
  BY AppendProperties
<1>3. DOMAIN Append(q, v) = 1..(Len(q) + 1)
  BY <1>2, LenProperties
<1> QED BY <1>1, <1>2, <1>3

\* A file is sent.
LEMMA FileAdded ==
  ASSUME TypeOK, NEW v \in FileRow, files' = Append(files, v)
  PROVE  \E n : /\ n = Len(files) + 1 /\ n \notin Files /\ n \in Nat
                /\ files' \in Seq(FileRow) /\ Files' = Files \union {n}
                /\ files'[n] = v /\ \A f \in Files : files'[f] = files[f]
<1> DEFINE n == Len(files) + 1
<1>1. files \in Seq(FileRow)
  BY DEF TypeOK
<1>2. /\ files' \in Seq(FileRow) /\ DOMAIN files' = DOMAIN files \union {n}
      /\ n \notin DOMAIN files /\ files'[n] = v
      /\ \A f \in DOMAIN files : files'[f] = files[f]
  BY <1>1, RowAdded
<1>3. n \in Nat
  BY <1>1, LenProperties
<1> QED BY <1>2, <1>3 DEF Files

\* A document is asked for.
LEMMA AskAdded ==
  ASSUME TypeOK, NEW v \in AskRow, requests' = Append(requests, v)
  PROVE  \E n : /\ n = Len(requests) + 1 /\ n \notin Requests /\ n \in Nat
                /\ requests' \in Seq(AskRow) /\ Requests' = Requests \union {n}
                /\ requests'[n] = v /\ \A r \in Requests : requests'[r] = requests[r]
<1> DEFINE n == Len(requests) + 1
<1>1. requests \in Seq(AskRow)
  BY DEF TypeOK
<1>2. /\ requests' \in Seq(AskRow) /\ DOMAIN requests' = DOMAIN requests \union {n}
      /\ n \notin DOMAIN requests /\ requests'[n] = v
      /\ \A r \in DOMAIN requests : requests'[r] = requests[r]
  BY <1>1, RowAdded
<1>3. n \in Nat
  BY <1>1, LenProperties
<1> QED BY <1>2, <1>3 DEF Requests

\* What the types say of rows and calls.
LEMMA Typed ==
  ASSUME TypeOK
  PROVE  /\ Requests \subseteq Nat \ {0} /\ Files \subseteq Nat \ {0}
         /\ None = 0 /\ None \notin Requests
         /\ \A r \in Requests : requests[r] \in AskRow
         /\ \A f \in Files : files[f] \in FileRow
         /\ \A a \in Actors : calls[a] \in CallRow
<1>1. /\ Requests = 1..Len(requests) /\ Files = 1..Len(files)
      /\ Len(requests) \in Nat /\ Len(files) \in Nat
  BY LenProperties DEF TypeOK, Requests, Files
<1>2. /\ \A r \in Requests : requests[r] \in AskRow
      /\ \A f \in Files : files[f] \in FileRow
  BY <1>1, ElementOfSeq DEF TypeOK
<1> QED BY <1>1, <1>2 DEF TypeOK, None

-----------------------------------------------------------------------------
(* What every step does to the rows.                                       *)

\* Nothing is undone: rows stay, and what is gone from a work file, from the disk or from
\* the files that count does not come back.
RowsGoOn ==
  /\ Requests \subseteq Requests' /\ Files \subseteq Files' /\ sources' \subseteq sources
  /\ \A r \in Requests : requests[r].about \in sources' \union {Whole} =>
       requests'[r].about = requests[r].about
  /\ \A f \in Files :
       /\ files'[f].row =>
            files[f].row /\ files'[f].req = files[f].req /\ files'[f].parent = files[f].parent
       /\ Standing(f)' => Standing(f)
  \* A file that hangs off a work file came while that was not being removed, or is noted.
  /\ \A b \in Office, f \in Files' :
       calls[b].op = "removeSource" /\ files'[f].row /\ files'[f].parent = calls[b].on =>
         (f \in Files /\ (f \in hasty => f \in hasty')) \/ f \in hasty'

LEMMA KnowsStill ==
  ASSUME TypeOK, RowsGoOn, NEW c \in CallRow, CallKnows(c)
  PROVE  CallKnows(c)'
<1>1. \A f \in c.paths : f \in Files
  BY DEF CallKnows
<1>2. c.id # None /\ c.id \in Requests \union {None} => c.id \in Requests
  OBVIOUS
<1>3. c.op = "answer" /\ c.on \in sources' \union {Whole} => c.on = requests'[c.id].about
  <2>1. SUFFICES ASSUME c.op = "answer", c.on \in sources' \union {Whole}
                 PROVE  c.on = requests'[c.id].about
    OBVIOUS
  <2>2. c.id \in Requests
    BY <1>2, <2>1 DEF CallKnows
  <2>3. sources' \subseteq sources
    BY DEF RowsGoOn
  <2>4. c.on = requests[c.id].about
    BY <2>1, <2>3 DEF CallKnows
  <2> QED BY <2>1, <2>2, <2>4 DEF RowsGoOn
<1>4. /\ \A f \in c.paths : files'[f].row => files[f].row /\ files'[f].req = files[f].req
                                              /\ files'[f].parent = files[f].parent
      /\ \A f \in c.paths : Standing(f)' => Standing(f)
      /\ c.id \in Requests' \union {None} /\ c.paths \subseteq Files'
  BY <1>1 DEF RowsGoOn, CallKnows
<1> QED BY <1>3, <1>4 DEF CallKnows, None

\* What has to be shown of one step: about the call it is a step of and the rows it adds.
LEMMA StepInv ==
  ASSUME IInv, TypeOK', RowsGoOn, NEW a \in Actors,
         \A b \in Actors : b # a => calls'[b] = calls[b],
         CallKnows(calls[a])' ,
         calls'[a].op \in {"ask", "cancel", "reopen"} => a \in Office,
         calls'[a].op = "removeSource" =>
           IF a = Client THEN calls'[a].paths = {}
           ELSE HangingOff(calls[a].on)' \ calls'[a].paths \subseteq hasty',
         \A f \in Files' \ Files : files'[f].row /\ files'[f].req # None =>
           files'[f].parent = requests'[files'[f].req].about,
         \A r \in Requests' : Fulfilled(r)' /\ Current(r)' = {} /\ r \notin hurt' =>
           \/ r \in Requests /\ Fulfilled(r) /\ Current(r) = {} /\ r \notin hurt /\ ~MendedBy(a, r)
           \/ MendedBy(a, r)',
         \A r \in Requests' : requests'[r].status = "cancelled" /\ r \notin raced' =>
           \/ \A b \in Actors \ {a} : ~LetInOn(b, r)
           \/ r \in Requests /\ requests[r].status = "cancelled" /\ r \notin raced,
         \A r \in Requests' : requests'[r].status = "cancelled" /\ r \notin raced' /\ LetInOn(a, r)' =>
           calls'[a].op = "cancel" \/ (calls'[a].op = "remove" /\ calls'[a].step # "unanswered"),
         NothingUnreachable', RowsLead'
  PROVE  IInv'
<1> USE DEF IInv
<1>1. AnswersHang'
  <2>1. \A f \in Files : files'[f].row /\ files'[f].req # None =>
          files'[f].parent = requests'[files'[f].req].about
    <3>1. SUFFICES ASSUME NEW f \in Files, files'[f].row, files'[f].req # None
                   PROVE  files'[f].parent = requests'[files'[f].req].about
      OBVIOUS
    <3>2. /\ files[f].row /\ files'[f].req = files[f].req /\ files'[f].parent = files[f].parent
          /\ f \in Files'
      BY <3>1 DEF RowsGoOn
    <3>3. files[f].req \in Requests /\ files[f].parent = requests[files[f].req].about
      BY <3>1, <3>2 DEF TypeOK, AnswersHang
    <3>4. files'[f].parent \in sources' \union {Whole}
      BY <3>1, <3>2 DEF TypeOK
    <3> QED BY <3>2, <3>3, <3>4 DEF RowsGoOn
  <2> QED BY <2>1 DEF AnswersHang
<1>2. CallsKnow'
  <2>1. SUFFICES ASSUME NEW b \in Actors, b # a
                 PROVE  /\ CallKnows(calls[b])'
                        /\ calls'[b].op \in {"ask", "cancel", "reopen"} => b \in Office
                        /\ calls'[b].op = "removeSource" =>
                             IF b = Client THEN calls'[b].paths = {}
                             ELSE HangingOff(calls[b].on)' \ calls'[b].paths \subseteq hasty'
    BY DEF CallsKnow, Actors
  <2>2. /\ calls'[b] = calls[b] /\ calls[b] \in CallRow /\ CallKnows(calls[b])
        /\ calls[b].op \in {"ask", "cancel", "reopen"} => b \in Office
        /\ calls[b].op = "removeSource" =>
             IF b = Client THEN calls[b].paths = {}
             ELSE HangingOff(calls[b].on) \ calls[b].paths \subseteq hasty
    BY <2>1, Typed DEF CallsKnow
  <2> DEFINE c == calls[b]
  <2>3. CallKnows(calls[b])'
    <3>1. PICK d \in CallRow : d = calls[b]
      BY <2>2
    <3>2. CallKnows(d)
      BY <2>2, <3>1
    <3>3. CallKnows(d)'
      BY <3>2, KnowsStill
    <3>4. calls'[b] = d
      BY <2>2, <3>1
    <3> QED BY <3>3, <3>4 DEF CallKnows
  <2>4. ASSUME c.op = "removeSource", b # Client
        PROVE  HangingOff(calls[b].on)' \ c.paths \subseteq hasty'
    <3>1. b \in Office
      BY <2>4 DEF Actors
    <3>2. SUFFICES ASSUME NEW f \in Files', files'[f].row, files'[f].parent = c.on, f \notin c.paths
                   PROVE  f \in hasty'
      BY <2>2 DEF HangingOff
    <3>3. CASE f \in Files
      <4>1. files[f].row /\ files[f].parent = c.on
        BY <3>2, <3>3 DEF RowsGoOn
      <4>2. f \in hasty
        BY <2>2, <2>4, <3>2, <3>3, <4>1 DEF HangingOff
      <4> QED BY <2>4, <3>1, <3>2, <4>2 DEF RowsGoOn
    <3>4. CASE f \notin Files
      BY <2>4, <3>1, <3>2, <3>4 DEF RowsGoOn
    <3> QED BY <3>3, <3>4
  <2> QED BY <2>2, <2>3, <2>4
<1>3. FulfilledOrMended'
  <2>1. SUFFICES ASSUME NEW r \in Requests', Fulfilled(r)', Current(r)' = {}, r \notin hurt'
                 PROVE  \E b \in Actors : MendedBy(b, r)'
    BY DEF FulfilledOrMended, Actors
  <2>2. CASE MendedBy(a, r)'
    BY <2>2
  <2>3. CASE /\ r \in Requests /\ Fulfilled(r) /\ Current(r) = {} /\ r \notin hurt
             /\ ~MendedBy(a, r)
    <3>1. PICK b \in Actors : MendedBy(b, r)
      BY <2>3 DEF FulfilledOrMended
    <3>2. calls'[b] = calls[b]
      BY <2>3, <3>1
    <3> QED BY <3>1, <3>2 DEF MendedBy, LetInOn, Subject
  <2> QED BY <2>1, <2>2, <2>3
<1>4. NobodyOnWithdrawn'
  <2>1. SUFFICES ASSUME NEW r \in Requests', NEW b \in Actors, requests'[r].status = "cancelled",
                        r \notin raced', LetInOn(b, r)'
                 PROVE  \/ calls'[b].op = "cancel"
                        \/ calls'[b].op = "remove" /\ calls'[b].step # "unanswered"
    BY DEF NobodyOnWithdrawn, Actors
  <2>2. CASE b = a
    BY <2>1, <2>2
  <2>3. CASE b # a
    <3>1. calls'[b] = calls[b]
      BY <2>3
    <3>2. LetInOn(b, r)
      BY <2>1, <3>1 DEF LetInOn, Subject
    <3> QED BY <2>1, <2>3, <3>1, <3>2 DEF NobodyOnWithdrawn
  <2> QED BY <2>2, <2>3
<1> QED BY <1>1, <1>2, <1>3, <1>4

-----------------------------------------------------------------------------
(* Steps that write no row of a request or a file.                         *)

Mending == {"row gone", "unanswered", "superseded"}

LEMMA CallStep ==
  ASSUME IInv, NEW a \in Actors, NEW c \in CallRow, calls' = [calls EXCEPT ![a] = c],
         UNCHANGED <<sources, requests, files, hasty, raced, doubled>>,
         status' \in {"draft", "running", "settled"}, due' \in BOOLEAN,
         hurt \subseteq hurt', hurt' \subseteq Requests, crashes' \in 0 .. MaxCrashes,
         CallKnows(c),
         c.op \in {"ask", "cancel", "reopen"} => a \in Office,
         c.op = "removeSource" =>
           IF a = Client THEN c.paths = {} ELSE HangingOff(c.on) \ c.paths \subseteq hasty,
         \A r \in Requests : MendedBy(a, r) /\ Unanswered(r) /\ r \notin hurt' =>
           c.id = r /\ c.step \in Mending,
         \A r \in Requests : requests[r].status = "cancelled" /\ r \notin raced /\ c.id = r =>
           c.op = "cancel" \/ (c.op = "remove" /\ c.step # "unanswered")
  PROVE  IInv'
<1> USE DEF IInv
<1>1. TypeOK'
  <2>1. calls' \in [Actors -> CallRow]
    BY DEF TypeOK
  <2>2. Requests' = Requests /\ Files' = Files
    BY DEF Requests, Files
  <2> QED BY <2>1, <2>2 DEF TypeOK
<1>2. RowsGoOn
  BY DEF RowsGoOn, Requests, Files, Standing
<1>3. calls'[a] = c /\ \A b \in Actors : b # a => calls'[b] = calls[b]
  BY DEF TypeOK
<1>4. CallKnows(calls[a])'
  <2>1. CallKnows(c)'
    BY <1>2, KnowsStill
  <2> QED BY <1>3, <2>1, ZenonT(40) DEF CallKnows
<1>5. /\ Requests' = Requests /\ Files' = Files /\ HangingOff(calls[a].on)' = HangingOff(c.on)
      /\ \A r \in Requests : /\ Fulfilled(r)' <=> Fulfilled(r)
                              /\ Current(r)' = Current(r)
  BY <1>3 DEF Requests, Files, HangingOff, Fulfilled, Current, Standing
<1>6. \A r \in Requests : /\ LetInOn(a, r)' <=> c.id = r
                          /\ c.id = r /\ c.step \in Mending => MendedBy(a, r)'
  BY <1>3, Typed DEF LetInOn, Subject, MendedBy, Mending
<1>7. NothingUnreachable' /\ RowsLead'
  BY DEF NothingUnreachable, RowsLead, Files
<1> QED BY <1>1, <1>2, <1>3, <1>4, <1>5, <1>6, <1>7, StepInv DEF Unanswered

\* Nothing is in flight in an idle browser.
LEMMA IdleKnows ==
  ASSUME TypeOK
  PROVE  /\ Idle \in CallRow /\ CallKnows(Idle)
         /\ [Idle EXCEPT !.step = "done"] \in CallRow /\ CallKnows([Idle EXCEPT !.step = "done"])
         /\ Idle.id = None /\ Idle.op = "none" /\ Idle.step = "idle" /\ Idle.paths = {}
         /\ [Idle EXCEPT !.step = "done"].id = None /\ [Idle EXCEPT !.step = "done"].op = "none"
BY DEF Idle, Call, CallRow, CallKnows, None, Abouts

\* A call is over: the office's page forgets it, the client's hears of it.
LEMMA DoneIs ==
  ASSUME NEW a, Done(a)
  PROVE  \E c \in {Idle, [Idle EXCEPT !.step = "done"]} : calls' = [calls EXCEPT ![a] = c]
<1>1. CASE a = Client
  BY <1>1 DEF Done
<1>2. CASE a # Client
  <2>1. Idle \in [op : {"none"}, id : {None}, on : {Whole}, step : {"idle"}, kept : {""}, paths : {{}}]
    BY DEF Idle, Call
  <2>2. [Idle EXCEPT !.step = "idle"] = Idle
    BY <2>1
  <2> QED BY <1>2, <2>2 DEF Done
<1> QED BY <1>1, <1>2

\* A call is let in.
LEMMA BeginInv ==
  ASSUME IInv, NEW a \in Actors, NEW op, NEW id, NEW on, NEW paths, Begin(a, op, id, on, paths),
         op \in {"ask", "answer", "send", "cancel", "reopen", "remove", "removeSource"},
         id \in Requests \union {None}, on \in Abouts, paths \subseteq Files,
         op \in {"send", "ask", "removeSource"} => id = None,
         op \in {"answer", "cancel", "reopen"} => id # None,
         op = "answer" => on = requests[id].about,
         op \in {"remove", "reopen"} => \A f \in paths : files[f].row => files[f].req = id,
         op = "removeSource" => /\ on \in Sources
                                /\ paths = IF a = Client THEN {} ELSE HangingOff(on),
         op \in {"ask", "cancel", "reopen"} => a \in Office,
         id # None /\ op \in {"answer", "reopen"} => requests[id].status # "cancelled"
  PROVE  IInv'
<1> DEFINE c == Call(op, id, on, "let in", paths)
<1>1. c = [op |-> op, id |-> id, on |-> on, step |-> "let in", kept |-> "", paths |-> paths]
  BY DEF Call
<1> HIDE DEF c
<1>2. c \in CallRow
  <2>1. id \in Nat /\ paths \in SUBSET Nat
    BY Typed DEF IInv
  <2> QED BY <1>1, <2>1 DEF CallRow
<1>3. CallKnows(c)
  BY <1>1 DEF CallKnows, HangingOff
<1>4. calls[a] = Idle /\ calls' = [calls EXCEPT ![a] = c]
      /\ UNCHANGED <<status, sources, requests, files, due, hasty, hurt, raced, doubled, crashes>>
  BY DEF Begin, c, rows, hist
<1>5. \A r \in Requests : ~MendedBy(a, r)
  BY <1>4, IdleKnows DEF IInv, MendedBy
<1>6. \A r \in Requests : requests[r].status = "cancelled" /\ r \notin raced /\ c.id = r =>
        c.op = "cancel" \/ (c.op = "remove" /\ c.step # "unanswered")
  BY <1>1, Typed DEF IInv
<1>7. c.op = "removeSource" =>
        IF a = Client THEN c.paths = {} ELSE HangingOff(c.on) \ c.paths \subseteq hasty
  BY <1>1
<1>8. c.op \in {"ask", "cancel", "reopen"} => a \in Office
  BY <1>1
<1>9. /\ status' \in {"draft", "running", "settled"} /\ due' \in BOOLEAN
      /\ hurt \subseteq hurt' /\ hurt' \subseteq Requests /\ crashes' \in 0 .. MaxCrashes
  BY <1>4 DEF IInv, TypeOK
<1> QED BY <1>2, <1>3, <1>4, <1>5, <1>6, <1>7, <1>8, <1>9, CallStep

LEMMA PressInv ==
  ASSUME IInv, NEW a \in Actors, Press(a)
  PROVE  IInv'
<1>1. /\ None \notin Requests /\ \A r \in Requests : requests[r] \in AskRow
      /\ sources \subseteq Sources /\ Whole \in Abouts /\ Sources \subseteq Abouts
      /\ \A f \in Files : files[f].req \in Requests \union {None}
  BY Typed DEF IInv, TypeOK, Abouts
<1>2. ASSUME NEW on \in sources \union {Whole}, LoadAsk(a, on) PROVE IInv'
  BY <1>1, <1>2, BeginInv DEF LoadAsk
<1>3. ASSUME NEW r \in Requests \union {None}, LoadUpload(a, r) PROVE IInv'
  <2>1. CASE r = None
    BY <1>1, <1>3, <2>1, BeginInv DEF LoadUpload
  <2>2. CASE r # None
    <3>1. /\ r \in Requests /\ requests[r].status = "pending" /\ requests[r].about \in Abouts
          /\ Begin(a, "answer", r, requests[r].about, {})
      BY <1>1, <1>3, <2>2 DEF LoadUpload, MayUpload, Pending, AskRow
    <3> QED BY <1>1, <2>2, <3>1, BeginInv
  <2> QED BY <2>1, <2>2
<1>4. ASSUME NEW r \in Requests, LoadCancel(a, r) PROVE IInv'
  BY <1>1, <1>4, BeginInv DEF LoadCancel
<1>5. ASSUME NEW r \in Requests, LoadReopen(a, r) PROVE IInv'
  <2>1. /\ Current(r) \subseteq Files /\ \A f \in Current(r) : files[f].req = r
        /\ requests[r].status = "fulfilled"
    BY <1>5 DEF Current, LoadReopen, MayReopen, Fulfilled
  <2> QED BY <1>1, <1>5, <2>1, BeginInv DEF LoadReopen
<1>6. ASSUME NEW f \in Files, LoadRemove(a, f) PROVE IInv'
  BY <1>1, <1>6, BeginInv DEF LoadRemove
<1>7. ASSUME NEW s \in sources, LoadRemoveSource(a, s) PROVE IInv'
  <2>1. Paths(a, s) \subseteq Files /\ Paths(a, s) = IF a = Client THEN {} ELSE HangingOff(s)
    BY DEF Paths, HangingOff
  <2>2. Begin(a, "removeSource", None, s, Paths(a, s)) /\ s \in Sources
    BY <1>1, <1>7 DEF LoadRemoveSource
  <2> QED BY <1>1, <2>1, <2>2, BeginInv
<1> QED BY <1>2, <1>3, <1>4, <1>5, <1>6, <1>7 DEF Press

\* The steps of a call that only move it, and what ends it without a write.
LEMMA MoveInv ==
  ASSUME IInv, NEW a \in Actors, RefreshReopen(a) \/ CheckAnswers(a)
  PROVE  IInv'
<1> USE DEF IInv
<1>1. /\ calls[a] \in CallRow /\ CallKnows(calls[a]) /\ calls \in [Actors -> CallRow]
      /\ calls[a].op \in {"ask", "cancel", "reopen"} => a \in Office
      /\ calls[a].id \in Requests \union {None}
      /\ \A r \in Requests : requests[r] \in AskRow
  BY Typed DEF CallsKnow, CallKnows, TypeOK
<1>2. /\ UNCHANGED <<status, sources, requests, files, due, hasty, hurt, raced, doubled, crashes>>
      /\ status \in {"draft", "running", "settled"} /\ due \in BOOLEAN
      /\ hurt \subseteq Requests /\ crashes \in 0 .. MaxCrashes
  BY DEF RefreshReopen, CheckAnswers, rows, hist, TypeOK
<1>3. \A r \in Requests : requests[r].status = "cancelled" /\ r \notin raced /\ calls[a].id = r =>
        calls[a].op = "cancel" \/ (calls[a].op = "remove" /\ calls[a].step # "unanswered")
  BY Typed DEF NobodyOnWithdrawn, LetInOn, Subject
<1>4. CASE RefreshReopen(a)
  <2> DEFINE c == [calls[a] EXCEPT !.step = "refreshed", !.kept = requests[calls[a].id].status]
  <2>1. calls[a].op = "reopen" /\ calls[a].step = "let in" /\ calls[a].id \in Requests
    BY <1>1, <1>4 DEF RefreshReopen, At, CallKnows
  <2>2. /\ c \in CallRow /\ c.op = "reopen" /\ c.step = "refreshed" /\ c.id = calls[a].id
        /\ c.paths = calls[a].paths /\ c.on = calls[a].on
    BY <1>1, <2>1 DEF CallRow, AskRow
  <2>3. calls' = [calls EXCEPT ![a] = c]
    BY <1>1, <1>4 DEF RefreshReopen
  <2> HIDE DEF c
  <2>4. CallKnows(c)
    BY <1>1, <2>1, <2>2 DEF CallKnows
  <2>5. \A r \in Requests : ~MendedBy(a, r)
    BY <2>1 DEF MendedBy
  <2> QED BY <1>1, <1>2, <1>3, <2>1, <2>2, <2>3, <2>4, <2>5, CallStep
<1>5. CASE CheckAnswers(a) /\ Unanswered(calls[a].id)
  <2> DEFINE c == [calls[a] EXCEPT !.step = "unanswered"]
  <2>1. calls[a].op = "remove" /\ calls[a].step = "row gone" /\ calls[a].id \in Requests
    BY <1>1, <1>5 DEF CheckAnswers, At, CallKnows
  <2>2. /\ c \in CallRow /\ c.op = "remove" /\ c.step = "unanswered" /\ c.id = calls[a].id
        /\ c.paths = calls[a].paths /\ c.on = calls[a].on
    BY <1>1, <2>1 DEF CallRow
  <2>3. calls' = [calls EXCEPT ![a] = c]
    BY <1>1, <1>5 DEF CheckAnswers, Goes
  <2> HIDE DEF c
  <2>4. CallKnows(c)
    BY <1>1, <2>1, <2>2 DEF CallKnows
  <2>5. requests[calls[a].id].status = "fulfilled"
    BY <1>5 DEF Unanswered, Fulfilled
  <2>6. \A r \in Requests : MendedBy(a, r) => c.id = r /\ c.step \in Mending
    BY <2>2 DEF MendedBy, LetInOn, Subject, Mending
  <2> QED BY <1>2, <2>2, <2>3, <2>4, <2>5, <2>6, CallStep
<1>6. CASE CheckAnswers(a) /\ ~Unanswered(calls[a].id)
  <2>1. PICK c \in {Idle, [Idle EXCEPT !.step = "done"]} : calls' = [calls EXCEPT ![a] = c]
    BY <1>6, DoneIs DEF CheckAnswers
  <2>2. c \in CallRow /\ CallKnows(c) /\ c.id = None /\ c.op = "none"
    BY <2>1, IdleKnows
  <2>3. \A r \in Requests : MendedBy(a, r) => ~Unanswered(r)
    BY <1>6 DEF MendedBy, LetInOn, Subject
  <2> QED BY <1>2, <2>1, <2>2, <2>3, Typed, CallStep
<1> QED BY <1>4, <1>5, <1>6

\* The client's page hears of what it did, or never does; the office moves the project on.
LEMMA PageInv ==
  ASSUME IInv, Succeed \/ Refetch \/ LoseAnswer \/ Publish \/ Settle \/ UNCHANGED vars
  PROVE  IInv'
<1> USE DEF IInv
<1>1. /\ Client \in Actors /\ calls[Client] \in CallRow /\ CallKnows(calls[Client])
      /\ calls \in [Actors -> CallRow]
  BY Typed DEF CallsKnow, Actors, TypeOK
<1>2. /\ UNCHANGED <<sources, requests, files, hasty, hurt, raced, doubled>>
      /\ status' \in {"draft", "running", "settled"} /\ due' \in BOOLEAN
      /\ hurt' \subseteq Requests /\ crashes' \in 0 .. MaxCrashes
  <2>1. CASE Succeed \/ Refetch
    BY <2>1 DEF Succeed, Refetch, Invalidated, rows, hist, TypeOK
  <2>2. CASE LoseAnswer
    BY <2>2, BoundsAssumption DEF LoseAnswer, rows, TypeOK
  <2>3. CASE Publish \/ Settle \/ UNCHANGED vars
    BY <2>3 DEF Publish, Settle, vars, rows, hist, TypeOK
  <2> QED BY <2>1, <2>2, <2>3
<1>3. CASE Succeed \/ LoseAnswer
  <2>1. calls' = [calls EXCEPT ![Client] = Idle] /\ calls[Client].step = "done"
    BY <1>3 DEF Succeed, LoseAnswer, Refuse
  <2>2. \A r \in Requests : ~MendedBy(Client, r)
    BY <2>1 DEF MendedBy
  <2> QED BY <1>1, <1>2, <2>1, <2>2, IdleKnows, Typed, CallStep, ZenonT(40)
<1>4. CASE Refetch \/ Publish \/ Settle \/ UNCHANGED vars
  <2> DEFINE c == calls[Client]
  <2>1. calls' = [calls EXCEPT ![Client] = c]
    BY <1>1, <1>4 DEF Refetch, Publish, Settle, vars
  <2>2. \A r \in Requests : MendedBy(Client, r) => c.id = r /\ c.step \in Mending
    BY DEF MendedBy, LetInOn, Subject, Mending
  <2>3. \A r \in Requests : requests[r].status = "cancelled" /\ r \notin raced /\ c.id = r =>
          c.op = "cancel" \/ (c.op = "remove" /\ c.step # "unanswered")
    BY <1>1, Typed DEF NobodyOnWithdrawn, LetInOn, Subject
  <2>4. /\ c.op \in {"ask", "cancel", "reopen"} => Client \in Office
        /\ c.op = "removeSource" => c.paths = {}
    BY <1>1 DEF CallsKnow
  <2> QED BY <1>1, <1>2, <2>1, <2>2, <2>3, <2>4, CallStep
<1> QED BY <1>3, <1>4

-----------------------------------------------------------------------------
(* Steps that write a request.                                             *)

\* What is known of the call whose step it is.
LEMMA CallOf ==
  ASSUME IInv, NEW a \in Actors
  PROVE  /\ calls \in [Actors -> CallRow] /\ calls[a] \in CallRow /\ CallKnows(calls[a])
         /\ calls[a].id \in Requests \union {None} /\ calls[a].paths \subseteq Files
         /\ None \notin Requests
         /\ \A r \in Requests : requests[r] \in AskRow
         /\ \A f \in Files : files[f] \in FileRow
         /\ calls[a].op \in {"ask", "cancel", "reopen"} => a \in Office
BY Typed DEF IInv, TypeOK, CallsKnow, CallKnows

\* A step is the last of its call.
LEMMA EndsIn ==
  ASSUME IInv, NEW a \in Actors, Done(a) \/ Refuse(a)
  PROVE  \E c \in CallRow : /\ calls' = [calls EXCEPT ![a] = c] /\ CallKnows(c)
                            /\ c.id = None /\ c.op = "none" /\ c.paths = {}
<1>1. PICK c \in {Idle, [Idle EXCEPT !.step = "done"]} : calls' = [calls EXCEPT ![a] = c]
  BY DoneIs DEF Refuse
<1>2. c \in CallRow /\ CallKnows(c) /\ c.id = None /\ c.op = "none" /\ c.paths = {}
  BY <1>1, IdleKnows DEF IInv, Idle, Call
<1> QED BY <1>1, <1>2

\* A request is withdrawn or open again, at the end of the call that was let in on it.
LEMMA RequestStep ==
  ASSUME IInv, NEW a \in Actors, NEW r \in Requests, NEW v \in AskRow,
         requests' = [requests EXCEPT ![r] = v], v.about = requests[r].about,
         v.status \in {"pending", "cancelled"}, Done(a), calls[a].id = r,
         UNCHANGED <<status, sources, files, due, hasty, hurt, doubled, crashes>>,
         raced \subseteq raced', raced' \subseteq Requests,
         v.status = "cancelled" /\ r \notin raced' => \A b \in Actors \ {a} : ~LetInOn(b, r)
  PROVE  IInv'
<1> USE DEF IInv
<1>1. PICK c \in CallRow : /\ calls' = [calls EXCEPT ![a] = c] /\ CallKnows(c)
                          /\ c.id = None /\ c.op = "none" /\ c.paths = {}
  BY EndsIn
<1>2. /\ requests' \in Seq(AskRow) /\ Requests' = Requests /\ requests'[r] = v
      /\ \A q \in Requests : q # r => requests'[q] = requests[q]
  BY RowWritten DEF TypeOK, Requests
<1>3. Files' = Files
  BY DEF Files
<1>4. calls'[a] = c /\ (\A b \in Actors : b # a => calls'[b] = calls[b]) /\ calls' \in [Actors -> CallRow]
  BY <1>1 DEF TypeOK
<1>5. \A q \in Requests : requests'[q].about = requests[q].about
  BY <1>2
<1>6. TypeOK'
  BY <1>2, <1>3, <1>4, <1>5 DEF TypeOK
<1>7. RowsGoOn
  BY <1>2, <1>3, <1>5 DEF RowsGoOn, Standing
<1>8. CallKnows(calls[a])'
  <2>1. CallKnows(c)'
    BY <1>1, <1>7, KnowsStill
  <2> QED BY <1>4, <2>1 DEF CallKnows
<1>9. \A q \in Requests : ~LetInOn(a, q)'
  BY <1>1, <1>4, Typed DEF LetInOn, Subject
<1>10. \A q \in Requests : Fulfilled(q)' /\ Current(q)' = {} /\ q \notin hurt' =>
         Fulfilled(q) /\ Current(q) = {} /\ q \notin hurt /\ ~MendedBy(a, q)
  <2>1. \A q \in Requests : Current(q)' = Current(q)
    BY <1>3 DEF Current, Standing
  <2>2. \A q \in Requests : q # r => ~MendedBy(a, q)
    BY DEF MendedBy, LetInOn, Subject
  <2> QED BY <1>2, <2>1, <2>2 DEF Fulfilled
<1>11. \A q \in Requests : requests'[q].status = "cancelled" /\ q \notin raced' =>
         \/ \A b \in Actors \ {a} : ~LetInOn(b, q)
         \/ requests[q].status = "cancelled" /\ q \notin raced
  BY <1>2
<1>12. NothingUnreachable' /\ RowsLead'
  BY <1>3 DEF NothingUnreachable, RowsLead
<1> QED BY <1>1, <1>2, <1>3, <1>4, <1>6, <1>7, <1>8, <1>9, <1>10, <1>11, <1>12, StepInv

LEMMA SaveCancelInv ==
  ASSUME IInv, NEW a \in Actors, SaveCancel(a)
  PROVE  IInv'
<1> DEFINE r == calls[a].id
           v == [requests[r] EXCEPT !.status = "cancelled"]
<1>1. r \in Requests
  BY CallOf DEF SaveCancel, At, CallKnows
<1>2. requests' = [requests EXCEPT ![r] = v]
  BY <1>1 DEF SaveCancel
<1>3. /\ v \in AskRow /\ v.about = requests[r].about /\ v.status = "cancelled"
  BY <1>1, CallOf DEF AskRow
<1>4. /\ UNCHANGED <<status, sources, files, due, hasty, hurt, doubled, crashes>> /\ Done(a)
      /\ raced' = raced \union IF \E b \in Actors \ {a} : LetInOn(b, r) THEN {r} ELSE {}
  BY DEF SaveCancel
<1>5. raced' \subseteq Requests
  BY <1>1, <1>4 DEF IInv, TypeOK
<1>6. r \notin raced' => \A b \in Actors \ {a} : ~LetInOn(b, r)
  BY <1>4
<1> HIDE DEF v
<1> QED BY <1>1, <1>2, <1>3, <1>4, <1>5, <1>6, RequestStep

\* Open again.
LEMMA OpenInv ==
  ASSUME IInv, NEW a \in Actors, NEW r \in Requests, calls[a].id = r, Open(r), Done(a),
         UNCHANGED <<status, sources, files, due, hasty, hurt, raced, doubled, crashes>>
  PROVE  IInv'
<1> DEFINE v == [requests[r] EXCEPT !.status = "pending", !.again = TRUE]
<1>1. requests' = [requests EXCEPT ![r] = v]
  BY DEF Open
<1>2. v \in AskRow /\ v.about = requests[r].about /\ v.status = "pending"
  BY CallOf DEF AskRow
<1>3. raced' \subseteq Requests
  BY DEF IInv, TypeOK
<1> HIDE DEF v
<1> QED BY <1>1, <1>2, <1>3, RequestStep

LEMMA ReopenEndsInv ==
  ASSUME IInv, NEW a \in Actors, SaveReopen(a) \/ SaveUnanswered(a)
  PROVE  IInv'
<1>1. calls[a].id \in Requests
  BY CallOf DEF SaveReopen, SaveUnanswered, At, CallKnows
<1>2. CASE SaveUnanswered(a)
  BY <1>1, <1>2, OpenInv DEF SaveUnanswered, hist
<1>3. CASE SaveReopen(a) /\ calls[a].kept # "pending"
  BY <1>1, <1>3, OpenInv DEF SaveReopen
<1>4. CASE SaveReopen(a) /\ calls[a].kept = "pending"
  <2>1. PICK c \in CallRow : /\ calls' = [calls EXCEPT ![a] = c] /\ CallKnows(c)
                            /\ c.id = None /\ c.op = "none" /\ c.paths = {}
    BY <1>4, EndsIn DEF SaveReopen
  <2>2. /\ UNCHANGED <<status, sources, requests, files, due, hasty, raced, doubled, crashes>>
        /\ hurt' = hurt \union IF Unanswered(calls[a].id) THEN {calls[a].id} ELSE {}
    BY <1>4 DEF SaveReopen
  <2>3. \A r \in Requests : MendedBy(a, r) /\ Unanswered(r) => r \in hurt'
    BY <2>2 DEF MendedBy, LetInOn, Subject
  <2>4. /\ status' \in {"draft", "running", "settled"} /\ due' \in BOOLEAN
        /\ hurt' \subseteq Requests /\ crashes' \in 0 .. MaxCrashes
    BY <1>1, <2>2 DEF IInv, TypeOK
  <2> QED BY <2>1, <2>2, <2>3, <2>4, CallOf, CallStep
<1> QED BY <1>2, <1>3, <1>4

\* A request is made, or its work file went.
LEMMA CreateAskInv ==
  ASSUME IInv, NEW a \in Actors, CreateAsk(a)
  PROVE  IInv'
<1> USE DEF IInv
<1>1. PICK c \in CallRow : /\ calls' = [calls EXCEPT ![a] = c] /\ CallKnows(c)
                          /\ c.id = None /\ c.op = "none" /\ c.paths = {}
  BY EndsIn DEF CreateAsk
<1>2. UNCHANGED <<status, sources, files, due, hasty, hurt, raced, crashes>>
  BY DEF CreateAsk
<1>3. \A r \in Requests : ~MendedBy(a, r)
  BY CallOf DEF CreateAsk, At, CallKnows, MendedBy, LetInOn, Subject
<1>4. CASE UNCHANGED <<requests, doubled>>
  <2>1. /\ status' \in {"draft", "running", "settled"} /\ due' \in BOOLEAN
        /\ hurt' \subseteq Requests /\ crashes' \in 0 .. MaxCrashes
    BY <1>2 DEF TypeOK
  <2> QED BY <1>1, <1>2, <1>3, <1>4, <2>1, CallOf, CallStep
<1>5. CASE /\ requests' = Append(requests, Ask(calls[a].on)) /\ calls[a].on \in sources \union {Whole}
           /\ doubled' = doubled \union IF Meanwhile(a) THEN {Len(requests) + 1} ELSE {}
  <2> DEFINE v == Ask(calls[a].on)
             n == Len(requests) + 1
  <2>1. v \in AskRow /\ v.status = "pending" /\ v.about = calls[a].on
    BY CallOf DEF Ask, AskRow, CallRow
  <2> HIDE DEF v
  <2>2. /\ requests' \in Seq(AskRow) /\ Requests' = Requests \union {n} /\ n \notin Requests
        /\ requests'[n] = v /\ \A r \in Requests : requests'[r] = requests[r]
        /\ doubled' \subseteq Requests \union {n}
    BY <1>5, <2>1, RowAdded DEF TypeOK, Requests, v
  <2> HIDE DEF n
  <2>3. Files' = Files
    BY <1>2 DEF Files
  <2>4. calls'[a] = c /\ (\A b \in Actors : b # a => calls'[b] = calls[b]) /\ calls' \in [Actors -> CallRow]
    BY <1>1 DEF TypeOK
  <2>5. TypeOK'
    BY <1>2, <1>5, <2>1, <2>2, <2>3, <2>4 DEF TypeOK
  <2>6. RowsGoOn
    BY <1>2, <2>2, <2>3 DEF RowsGoOn, Standing
  <2>7. CallKnows(calls[a])'
    <3>1. CallKnows(c)'
      BY <1>1, <2>6, KnowsStill
    <3> QED BY <2>4, <3>1 DEF CallKnows
  <2>8. \A q \in Requests' : ~LetInOn(a, q)'
    BY <1>1, <2>4, <2>5, Typed DEF LetInOn, Subject
  <2>9. \A q \in Requests' : Fulfilled(q)' /\ Current(q)' = {} /\ q \notin hurt' =>
          q \in Requests /\ Fulfilled(q) /\ Current(q) = {} /\ q \notin hurt /\ ~MendedBy(a, q)
    BY <1>2, <1>3, <2>1, <2>2, <2>3 DEF Fulfilled, Current, Standing
  <2>10. \A q \in Requests' : requests'[q].status = "cancelled" /\ q \notin raced' =>
           q \in Requests /\ requests[q].status = "cancelled" /\ q \notin raced
    BY <1>2, <2>1, <2>2
  <2>11. NothingUnreachable' /\ RowsLead'
    BY <1>2, <2>3 DEF NothingUnreachable, RowsLead
  <2> QED BY <1>1, <2>3, <2>4, <2>5, <2>6, <2>7, <2>8, <2>9, <2>10, <2>11, StepInv
<1> QED BY <1>4, <1>5 DEF CreateAsk

-----------------------------------------------------------------------------
(* Steps that write files.                                                 *)

\* Files are superseded or removed, by a call that is in the right place.
LEMMA FilesStep ==
  ASSUME IInv, NEW a \in Actors, NEW c \in CallRow, calls' = [calls EXCEPT ![a] = c],
         UNCHANGED <<status, sources, requests, due, raced, doubled>>,
         hurt \subseteq hurt', hurt' \subseteq Requests, crashes' \in 0 .. MaxCrashes,
         hasty' \subseteq hasty, files' = [f \in Files |-> files'[f]],
         \A f \in Files :
           /\ files'[f] \in FileRow /\ files'[f].req \in Requests \union {None}
           /\ files'[f].row => /\ files[f].row /\ files'[f].req = files[f].req
                               /\ files'[f].parent = files[f].parent
                               /\ f \in hasty => f \in hasty'
           /\ Standing(f)' => Standing(f)
           /\ files'[f].blob /\ ~files'[f].row => f \in hasty'
           /\ files'[f].row /\ ~files'[f].blob => files'[f].req \in hurt' \union {None},
         CallKnows(c)', c.op \in {"none", "reopen", "remove"}, c.op = "reopen" => a \in Office,
         \A r \in Requests : Fulfilled(r) /\ Current(r)' = {} /\ r \notin hurt' =>
           \/ Current(r) = {} /\ r \notin hurt /\ ~MendedBy(a, r)
           \/ c.id = r /\ c.step \in Mending,
         \A r \in Requests : requests[r].status = "cancelled" /\ r \notin raced /\ c.id = r =>
           c.op = "cancel" \/ (c.op = "remove" /\ c.step # "unanswered")
  PROVE  IInv'
<1> USE DEF IInv
<1>1. files' \in Seq(FileRow) /\ Files' = Files
  BY RowsWritten DEF TypeOK, Files
<1>2. Requests' = Requests
  BY DEF Requests
<1>3. calls'[a] = c /\ (\A b \in Actors : b # a => calls'[b] = calls[b]) /\ calls' \in [Actors -> CallRow]
  BY DEF TypeOK
<1>4. TypeOK'
  <2>1. \A f \in Files : files'[f].row => files'[f].parent \in sources \union {Whole}
    BY DEF TypeOK
  <2> QED BY <1>1, <1>2, <1>3, <2>1 DEF TypeOK
<1>5. RowsGoOn
  BY <1>1, <1>2 DEF RowsGoOn
<1>6. CallKnows(calls[a])'
  BY <1>3 DEF CallKnows
<1>7. \A r \in Requests : /\ LetInOn(a, r)' <=> c.id = r
                          /\ c.id = r /\ c.step \in Mending => MendedBy(a, r)'
  BY <1>3, Typed DEF LetInOn, Subject, MendedBy, Mending
<1>8. NothingUnreachable' /\ RowsLead'
  BY <1>1 DEF NothingUnreachable, RowsLead
<1>9. \A r \in Requests' : Fulfilled(r)' /\ Current(r)' = {} /\ r \notin hurt' =>
        \/ r \in Requests /\ Fulfilled(r) /\ Current(r) = {} /\ r \notin hurt /\ ~MendedBy(a, r)
        \/ MendedBy(a, r)'
  BY <1>2, <1>7 DEF Fulfilled
<1> QED BY <1>1, <1>2, <1>3, <1>4, <1>5, <1>6, <1>7, <1>8, <1>9, StepInv

\* The manager's rejection supersedes every file that stands, and opens the request next.
LEMMA SupersedeInv ==
  ASSUME IInv, NEW a \in Actors, Supersede(a)
  PROVE  IInv'
<1> DEFINE r == calls[a].id
<1>1. /\ calls[a].op = "reopen" /\ calls[a].step = "refreshed" /\ r \in Requests
      /\ calls[a] \in CallRow /\ CallKnows(calls[a]) /\ a \in Office
  BY CallOf DEF Supersede, At, CallKnows
<1>2. PICK c \in CallRow :
        /\ c = [calls[a] EXCEPT !.step = "superseded"]
        /\ c.op = "reopen" /\ c.step = "superseded" /\ c.id = r
        /\ c.paths = calls[a].paths /\ c.on = calls[a].on
  <2>1. [calls[a] EXCEPT !.step = "superseded"] \in CallRow
    BY <1>1 DEF CallRow
  <2> QED BY <1>1, <2>1 DEF CallRow
<1>3. calls' = [calls EXCEPT ![a] = c] /\ UNCHANGED <<status, sources, requests, due, hasty, hurt, raced, doubled, crashes>>
  BY <1>2, CallOf DEF Supersede, Goes, hist
<1>4. /\ files' = [f \in Files |-> files'[f]]
      /\ \A f \in Files :
           /\ f \in Current(r) => files'[f] = [files[f] EXCEPT !.superseded = TRUE]
           /\ f \notin Current(r) => files'[f] = files[f]
  BY DEF Supersede, Superseded
<1>5. \A f \in Files : /\ files'[f] \in FileRow /\ files'[f].req = files[f].req
                       /\ files'[f].row = files[f].row /\ files'[f].blob = files[f].blob
                       /\ files'[f].parent = files[f].parent
                       /\ Standing(f)' <=> Standing(f) /\ f \notin Current(r)
  <2>1. SUFFICES ASSUME NEW f \in Files
                 PROVE  /\ files'[f] \in FileRow /\ files'[f].req = files[f].req
                        /\ files'[f].row = files[f].row /\ files'[f].blob = files[f].blob
                        /\ files'[f].parent = files[f].parent
                        /\ Standing(f)' <=> Standing(f) /\ f \notin Current(r)
    OBVIOUS
  <2>2. files[f] \in FileRow
    BY CallOf
  <2>3. CASE f \in Current(r)
    BY <1>4, <2>2, <2>3 DEF FileRow, Standing
  <2>4. CASE f \notin Current(r)
    BY <1>4, <2>2, <2>4 DEF Standing
  <2> QED BY <2>3, <2>4
<1>6. Files' = Files /\ Requests' = Requests
  <2>1. DOMAIN files' = Files
    BY <1>4
  <2> QED BY <1>3, <2>1 DEF Files, Requests
<1>7. CallKnows(c)'
  <2>1. \A f \in c.paths : ~Standing(f)'
    BY <1>1, <1>2, <1>5 DEF CallKnows, Current, Standing
  <2>2. \A f \in c.paths : files'[f].row => files'[f].req = c.id
    BY <1>1, <1>2, <1>5 DEF CallKnows
  <2> QED BY <1>1, <1>2, <1>6, <2>1, <2>2, CallOf DEF CallKnows
<1>8. \A q \in Requests : q # r => Current(q)' = Current(q) /\ ~MendedBy(a, q)
  BY <1>5, <1>6 DEF Current, MendedBy, LetInOn, Subject
<1>9. /\ hurt \subseteq hurt' /\ hurt' \subseteq Requests /\ crashes' \in 0 .. MaxCrashes
      /\ hasty' \subseteq hasty
  BY <1>3 DEF IInv, TypeOK
<1>10. \A f \in Files :
         /\ files'[f] \in FileRow /\ files'[f].req \in Requests \union {None}
         /\ files'[f].row => /\ files[f].row /\ files'[f].req = files[f].req
                             /\ files'[f].parent = files[f].parent
                             /\ f \in hasty => f \in hasty'
         /\ Standing(f)' => Standing(f)
         /\ files'[f].blob /\ ~files'[f].row => f \in hasty'
         /\ files'[f].row /\ ~files'[f].blob => files'[f].req \in hurt' \union {None}
  BY <1>3, <1>5 DEF IInv, TypeOK, NothingUnreachable, RowsLead
<1>11. \A q \in Requests : Fulfilled(q) /\ Current(q)' = {} /\ q \notin hurt' =>
         \/ Current(q) = {} /\ q \notin hurt /\ ~MendedBy(a, q)
         \/ c.id = q /\ c.step \in Mending
  BY <1>2, <1>3, <1>8 DEF Mending
<1>12. \A q \in Requests : requests[q].status = "cancelled" /\ q \notin raced => c.id # q
  BY <1>1, <1>2, CallOf DEF IInv, NobodyOnWithdrawn, LetInOn, Subject
<1> QED BY <1>1, <1>2, <1>3, <1>4, <1>7, <1>9, <1>10, <1>11, <1>12, FilesStep, ZenonT(40)

\* What is left of a file.
LEMMA Leftovers ==
  /\ Stray \in FileRow /\ Gone \in FileRow /\ ~Stray.row /\ ~Gone.row /\ ~Gone.blob
  /\ Stray.req = None /\ Gone.req = None
BY DEF Stray, Gone, Sent, FileRow, Abouts, Actors, None

\* A file goes, and whoever took it looks next whether the request is still answered.
LEMMA DeleteFileInv ==
  ASSUME IInv, NEW a \in Actors, DeleteFile(a)
  PROVE  IInv'
<1> DEFINE r == calls[a].id
<1>1. /\ calls[a].op = "remove" /\ calls[a].step = "let in"
      /\ calls[a] \in CallRow /\ CallKnows(calls[a]) /\ calls[a].paths \subseteq Files
  BY CallOf DEF DeleteFile, At
<1>2. /\ UNCHANGED <<status, sources, requests, due, hurt, raced, doubled, crashes>>
      /\ hasty' = hasty \ calls[a].paths
      /\ files' = [f \in Files |-> IF f \in calls[a].paths THEN Gone ELSE files[f]]
  BY DEF DeleteFile
<1>3. /\ files' = [f \in Files |-> files'[f]]
      /\ \A f \in Files : /\ f \in calls[a].paths => files'[f] = Gone
                          /\ f \notin calls[a].paths => files'[f] = files[f]
  BY <1>2
<1>4. Files' = Files /\ Requests' = Requests
  <2>1. DOMAIN files' = Files
    BY <1>3
  <2> QED BY <1>2, <2>1 DEF Files, Requests
<1>5. \A f \in Files :
        /\ files'[f] \in FileRow /\ files'[f].req \in Requests \union {None}
        /\ files'[f].row => /\ files[f].row /\ files'[f].req = files[f].req
                            /\ files'[f].parent = files[f].parent
                            /\ f \in hasty => f \in hasty'
        /\ Standing(f)' => Standing(f)
        /\ files'[f].blob /\ ~files'[f].row => f \in hasty'
        /\ files'[f].row /\ ~files'[f].blob => files'[f].req \in hurt' \union {None}
  <2>1. SUFFICES ASSUME NEW f \in Files
                 PROVE  /\ files'[f] \in FileRow /\ files'[f].req \in Requests \union {None}
                        /\ files'[f].row => /\ files[f].row /\ files'[f].req = files[f].req
                                            /\ files'[f].parent = files[f].parent
                                            /\ f \in hasty => f \in hasty'
                        /\ Standing(f)' => Standing(f)
                        /\ files'[f].blob /\ ~files'[f].row => f \in hasty'
                        /\ files'[f].row /\ ~files'[f].blob => files'[f].req \in hurt' \union {None}
    OBVIOUS
  <2>2. CASE f \in calls[a].paths
    BY <1>3, <2>2, Leftovers DEF Standing
  <2>3. CASE f \notin calls[a].paths
    BY <1>2, <1>3, <2>3, CallOf DEF Standing, IInv, TypeOK, NothingUnreachable, RowsLead
  <2> QED BY <2>2, <2>3
<1>6. \A q \in Requests : Current(q)' = {} /\ Current(q) # {} => q = r
  <2>1. SUFFICES ASSUME NEW q \in Requests, Current(q)' = {}, NEW f \in Current(q) PROVE q = r
    OBVIOUS
  <2>2. f \in Files /\ Standing(f) /\ files[f].req = q
    BY DEF Current
  <2>3. f \in calls[a].paths
    BY <1>3, <1>4, <2>1, <2>2 DEF Current, Standing
  <2> QED BY <1>1, <2>2, <2>3 DEF CallKnows, Standing
<1>7. \A q \in Requests : ~MendedBy(a, q)
  BY <1>1 DEF MendedBy
<1>8. /\ hurt \subseteq hurt' /\ hurt' \subseteq Requests /\ crashes' \in 0 .. MaxCrashes
      /\ hasty' \subseteq hasty
  BY <1>2 DEF IInv, TypeOK
<1>9. CASE r = None
  <2>1. PICK c \in CallRow : /\ calls' = [calls EXCEPT ![a] = c] /\ CallKnows(c)
                            /\ c.id = None /\ c.op = "none" /\ c.paths = {}
    BY <1>9, EndsIn DEF DeleteFile
  <2>2. CallKnows(c)'
    BY <1>2, <1>4, <2>1 DEF CallKnows
  <2>3. \A q \in Requests : Current(q)' = {} => Current(q) = {}
    BY <1>6, <1>9, CallOf
  <2>4. \A q \in Requests : c.id # q
    BY <2>1, CallOf
  <2>5. \A q \in Requests : Fulfilled(q) /\ Current(q)' = {} /\ q \notin hurt' =>
          \/ Current(q) = {} /\ q \notin hurt /\ ~MendedBy(a, q)
          \/ c.id = q /\ c.step \in Mending
    BY <1>2, <1>7, <2>3
  <2> QED BY <1>2, <1>3, <1>5, <1>8, <2>1, <2>2, <2>4, <2>5, FilesStep
<1>10. CASE r # None
  <2>1. r \in Requests
    BY <1>10, CallOf
  <2>2. PICK c \in CallRow :
          /\ c = [calls[a] EXCEPT !.step = "row gone", !.paths = {}]
          /\ c.op = "remove" /\ c.step = "row gone" /\ c.id = r /\ c.paths = {}
          /\ c.on = calls[a].on
    <3>1. [calls[a] EXCEPT !.step = "row gone", !.paths = {}] \in CallRow
      BY <1>1 DEF CallRow
    <3> QED BY <1>1, <3>1 DEF CallRow
  <2>3. calls' = [calls EXCEPT ![a] = c]
    BY <1>10, <2>2, CallOf DEF DeleteFile
  <2>4. CallKnows(c)'
    BY <1>4, <2>1, <2>2, CallOf DEF CallKnows
  <2>5. \A q \in Requests : Fulfilled(q) /\ Current(q)' = {} /\ q \notin hurt' =>
          \/ Current(q) = {} /\ q \notin hurt /\ ~MendedBy(a, q)
          \/ c.id = q /\ c.step \in Mending
    BY <1>2, <1>6, <1>7, <2>2 DEF Mending
  <2> QED BY <1>2, <1>3, <1>5, <1>8, <2>2, <2>3, <2>4, <2>5, FilesStep
<1> QED BY <1>9, <1>10

\* An upload that fails once its bytes are on the disk leaves them there.
LEMMA StrayStep ==
  ASSUME IInv, NEW a \in Actors, calls[a].op \in Uploads, calls[a].step = "let in", Refuse(a),
         files' = Append(files, Stray), hasty' = hasty \union {Len(files) + 1},
         UNCHANGED <<status, sources, requests, due, raced, doubled>>,
         hurt \subseteq hurt', hurt' \subseteq Requests, crashes' \in 0 .. MaxCrashes
  PROVE  IInv'
<1> USE DEF IInv
<1>1. PICK c \in CallRow : /\ calls' = [calls EXCEPT ![a] = c] /\ CallKnows(c)
                          /\ c.id = None /\ c.op = "none" /\ c.paths = {}
  BY EndsIn
<1>2. PICK new : /\ new = Len(files) + 1 /\ new \notin Files
                 /\ files' \in Seq(FileRow) /\ Files' = Files \union {new}
                 /\ files'[new] = Stray /\ \A f \in Files : files'[f] = files[f]
  BY FileAdded, Leftovers
<1>3. /\ files' \in Seq(FileRow) /\ Files' = Files \union {new} /\ new \notin Files
      /\ ~files'[new].row /\ files'[new].req = None /\ \A f \in Files : files'[f] = files[f]
      /\ hasty' = hasty \union {new}
  BY <1>2, Leftovers
<1>4. Requests' = Requests
  BY DEF Requests
<1>5. calls'[a] = c /\ (\A b \in Actors : b # a => calls'[b] = calls[b]) /\ calls' \in [Actors -> CallRow]
  BY <1>1 DEF TypeOK
<1>6. TypeOK'
  BY <1>3, <1>4, <1>5 DEF TypeOK
<1>7. RowsGoOn
  BY <1>3, <1>4 DEF RowsGoOn, Standing
<1>8. CallKnows(calls[a])'
  <2>1. CallKnows(c)'
    BY <1>1, <1>7, KnowsStill
  <2> QED BY <1>5, <2>1 DEF CallKnows
<1>9. \A q \in Requests : ~LetInOn(a, q)'
  BY <1>1, <1>5, Typed DEF LetInOn, Subject
<1>10. \A q \in Requests : Fulfilled(q)' /\ Current(q)' = {} /\ q \notin hurt' =>
         Fulfilled(q) /\ Current(q) = {} /\ q \notin hurt /\ ~MendedBy(a, q)
  <2>1. \A q \in Requests : Current(q) \subseteq Current(q)'
    BY <1>3 DEF Current, Standing
  <2>2. \A q \in Requests : ~MendedBy(a, q)
    BY DEF MendedBy
  <2> QED BY <2>1, <2>2 DEF Fulfilled
<1>11. NothingUnreachable' /\ RowsLead'
  BY <1>3 DEF NothingUnreachable, RowsLead
<1> QED BY <1>1, <1>3, <1>4, <1>5, <1>6, <1>7, <1>8, <1>9, <1>10, <1>11, StepInv

\* A handler dies halfway.
LEMMA CrashInv ==
  ASSUME IInv, NEW a \in Actors, Crash(a)
  PROVE  IInv'
<1>1. PICK c \in CallRow : /\ calls' = [calls EXCEPT ![a] = c] /\ CallKnows(c)
                          /\ c.id = None /\ c.op = "none" /\ c.paths = {}
  BY EndsIn DEF Crash
<1>2. /\ UNCHANGED <<status, sources, requests, due, raced, doubled>>
      /\ hurt \subseteq hurt' /\ hurt' \subseteq Requests /\ crashes' \in 0 .. MaxCrashes
      /\ hurt' = hurt \union Subject(a) \union AnsweredBy(calls[a].paths)
      /\ status' \in {"draft", "running", "settled"} /\ due' \in BOOLEAN
  <2>1. Subject(a) \subseteq Requests /\ AnsweredBy(calls[a].paths) \subseteq Requests
    BY CallOf DEF Subject, AnsweredBy, IInv, TypeOK
  <2>2. crashes' \in 0 .. MaxCrashes
    <3>1. crashes \in 0 .. MaxCrashes /\ crashes < MaxCrashes /\ crashes' = crashes + 1
      BY DEF Crash, IInv, TypeOK
    <3> QED BY <3>1, BoundsAssumption
  <2> QED BY <2>1, <2>2 DEF Crash, IInv, TypeOK
<1>3. \A q \in Requests : c.id # q /\ (MendedBy(a, q) => q \in hurt')
  BY <1>1, <1>2, CallOf DEF MendedBy, LetInOn
<1>4. CASE UNCHANGED <<files, hasty>>
  BY <1>1, <1>2, <1>3, <1>4, CallStep
<1>5. CASE /\ \E op \in Uploads : At(a, op, "let in")
           /\ files' = Append(files, Stray) /\ hasty' = hasty \union {Len(files) + 1}
  <2>1. calls[a].op \in Uploads /\ calls[a].step = "let in" /\ Refuse(a)
    BY <1>5 DEF At, Crash
  <2> QED BY <1>2, <1>5, <2>1, StrayStep
<1>6. CASE /\ UNCHANGED hasty
           /\ files' = [f \in Files |-> IF f \in calls[a].paths THEN [files[f] EXCEPT !.blob = FALSE]
                                        ELSE files[f]]
  <2>1. /\ files' = [f \in Files |-> files'[f]]
        /\ \A f \in Files :
             /\ f \in calls[a].paths => files'[f] = [files[f] EXCEPT !.blob = FALSE]
             /\ f \notin calls[a].paths => files'[f] = files[f]
    BY <1>6
  <2>2. \A f \in Files : /\ files'[f] \in FileRow /\ files'[f].req = files[f].req
                         /\ files'[f].row = files[f].row /\ files'[f].parent = files[f].parent
                         /\ files'[f].blob => files[f].blob
                         /\ files[f].row /\ files[f].blob /\ ~files'[f].blob =>
                              files[f].req \in hurt' \union {None}
                         /\ Standing(f)' <=> Standing(f)
    <3>1. SUFFICES ASSUME NEW f \in Files
                   PROVE  /\ files'[f] \in FileRow /\ files'[f].req = files[f].req
                          /\ files'[f].row = files[f].row /\ files'[f].parent = files[f].parent
                          /\ files'[f].blob => files[f].blob
                          /\ files[f].row /\ files[f].blob /\ ~files'[f].blob =>
                               files[f].req \in hurt' \union {None}
                          /\ Standing(f)' <=> Standing(f)
      OBVIOUS
    <3>2. files[f] \in FileRow
      BY CallOf
    <3>3. CASE f \in calls[a].paths
      BY <1>2, <2>1, <3>2, <3>3 DEF FileRow, Standing, AnsweredBy
    <3>4. CASE f \notin calls[a].paths
      BY <2>1, <3>2, <3>4 DEF Standing
    <3> QED BY <3>3, <3>4
  <2>3. Files' = Files /\ Requests' = Requests
    <3>1. DOMAIN files' = Files
      BY <2>1
    <3> QED BY <1>2, <3>1 DEF Files, Requests
  <2>4. CallKnows(c)'
    BY <1>1, <1>2, <2>3 DEF CallKnows
  <2>5. \A f \in Files :
          /\ files'[f] \in FileRow /\ files'[f].req \in Requests \union {None}
          /\ files'[f].row => /\ files[f].row /\ files'[f].req = files[f].req
                              /\ files'[f].parent = files[f].parent
                              /\ f \in hasty => f \in hasty'
          /\ Standing(f)' => Standing(f)
          /\ files'[f].blob /\ ~files'[f].row => f \in hasty'
          /\ files'[f].row /\ ~files'[f].blob => files'[f].req \in hurt' \union {None}
    BY <1>2, <1>6, <2>2 DEF IInv, TypeOK, NothingUnreachable, RowsLead
  <2>6. \A q \in Requests : Current(q)' = Current(q)
    BY <2>2, <2>3 DEF Current
  <2>7. \A q \in Requests : Fulfilled(q) /\ Current(q)' = {} /\ q \notin hurt' =>
          \/ Current(q) = {} /\ q \notin hurt /\ ~MendedBy(a, q)
          \/ c.id = q /\ c.step \in Mending
    BY <1>2, <1>3, <2>6
  <2>8. hasty' \subseteq hasty
    BY <1>6
  <2> QED BY <1>1, <1>2, <1>3, <2>1, <2>4, <2>5, <2>7, <2>8, FilesStep
<1> QED BY <1>4, <1>5, <1>6 DEF Crash

\* What was uploaded is stored: the file and what it answers in one step, whatever came
\* between; or its work file went meanwhile.
LEMMA StoreInv ==
  ASSUME IInv, NEW a \in Actors, Store(a)
  PROVE  IInv'
<1>1. PICK r \in Requests \union {None} : r = calls[a].id
  BY CallOf
<1>2. /\ calls[a].op \in Uploads /\ calls[a].step = "let in"
      /\ calls[a] \in CallRow /\ CallKnows(calls[a])
      /\ calls[a].on \in Abouts
  BY CallOf DEF Store, At, CallRow
<1>3. /\ UNCHANGED <<status, sources, due, hurt, raced, doubled, crashes>>
      /\ hurt' \subseteq Requests /\ crashes' \in 0 .. MaxCrashes
  BY DEF Store, IInv, TypeOK
<1>4. CASE calls[a].on \notin sources \union {Whole}
  <2>1. /\ files' = Append(files, Stray) /\ requests' = requests
        /\ hasty' = hasty \union {Len(files) + 1} /\ Refuse(a)
    BY <1>4 DEF Store
  <2> QED BY <1>2, <1>3, <2>1, StrayStep
<1>5. CASE calls[a].on \in sources \union {Whole}
  <2>1. /\ files' = Append(files, Sent(r, calls[a].on, a))
        /\ hasty' = IF Removing THEN hasty \union {Len(files) + 1} ELSE hasty
        /\ requests' = IF r # None THEN [requests EXCEPT ![r].status = "fulfilled"] ELSE requests
        /\ Done(a)
    BY <1>1, <1>5 DEF Store
  <2>2. PICK v \in FileRow : /\ v = Sent(r, calls[a].on, a) /\ v.row /\ ~v.superseded
                            /\ v.req = r /\ v.parent = calls[a].on
    <3>1. r \in Nat
      BY <1>1, <1>2 DEF CallRow
    <3>2. Sent(r, calls[a].on, a) \in FileRow
      BY <1>2, <3>1 DEF Sent, FileRow
    <3> QED BY <3>2 DEF Sent
  <2>3. PICK new : /\ new = Len(files) + 1 /\ new \notin Files
                  /\ files' \in Seq(FileRow) /\ Files' = Files \union {new}
                  /\ files'[new] = v /\ \A f \in Files : files'[f] = files[f]
    BY <2>1, <2>2, FileAdded DEF IInv
  <2>4. PICK c \in CallRow : /\ calls' = [calls EXCEPT ![a] = c] /\ CallKnows(c)
                            /\ c.id = None /\ c.op = "none" /\ c.paths = {}
    BY <2>1, EndsIn
  <2>5. calls'[a] = c /\ (\A b \in Actors : b # a => calls'[b] = calls[b]) /\ calls' \in [Actors -> CallRow]
    BY <2>4, CallOf
  <2>6. /\ requests' \in Seq(AskRow) /\ Requests' = Requests
        /\ \A q \in Requests : requests'[q].about = requests[q].about
        /\ \A q \in Requests : q # r => requests'[q] = requests[q]
        /\ r # None => requests'[r].status = "fulfilled"
    <3>1. CASE r = None
      BY <2>1, <3>1, CallOf DEF IInv, TypeOK, Requests
    <3>2. CASE r # None
      <4>1. r \in Requests
        BY <1>2, <3>2
      <4>2. PICK u \in AskRow : /\ u = [requests[r] EXCEPT !.status = "fulfilled"]
                               /\ u.about = requests[r].about /\ u.status = "fulfilled"
        <5>1. requests[r] \in AskRow
          BY <4>1, CallOf
        <5>2. [requests[r] EXCEPT !.status = "fulfilled"] \in AskRow
          BY <5>1 DEF AskRow
        <5> QED BY <5>1, <5>2 DEF AskRow
      <4>3. requests' = [requests EXCEPT ![r] = u]
        BY <2>1, <3>2, <4>1, <4>2
      <4>4. /\ requests' \in Seq(AskRow) /\ Requests' = Requests /\ requests'[r] = u
            /\ \A q \in Requests : q # r => requests'[q] = requests[q]
        BY <4>1, <4>3, RowWritten DEF IInv, TypeOK, Requests
      <4> QED BY <3>2, <4>2, <4>4
    <3> QED BY <3>1, <3>2
  <2>7. TypeOK'
    <3>1. hasty' \subseteq Files'
      BY <2>1, <2>3 DEF IInv, TypeOK
    <3>2. \A q \in Requests' : requests'[q].about \in sources' \union {Whole}
      BY <1>3, <2>6 DEF IInv, TypeOK
    <3>3. \A f \in Files' :
            /\ files'[f].req \in Requests' \union {None}
            /\ files'[f].row => files'[f].parent \in sources' \union {Whole}
      BY <1>1, <1>3, <1>5, <2>2, <2>3, <2>6 DEF IInv, TypeOK
    <3> QED BY <1>3, <2>3, <2>5, <2>6, <3>1, <3>2, <3>3 DEF IInv, TypeOK
  <2>8. RowsGoOn
    <3>1. \A b \in Office, f \in Files' :
            calls[b].op = "removeSource" /\ files'[f].row /\ files'[f].parent = calls[b].on =>
              (f \in Files /\ (f \in hasty => f \in hasty')) \/ f \in hasty'
      <4>1. ASSUME NEW b \in Office, calls[b].op = "removeSource" PROVE new \in hasty'
        <5>1. b \in Actors /\ At(b, "removeSource", "let in")
          BY <4>1, CallOf DEF Actors, CallKnows, At
        <5>2. Removing
          BY <5>1 DEF Removing
        <5> QED BY <2>1, <2>3, <5>2
      <4>2. hasty \subseteq hasty'
        BY <2>1
      <4> QED BY <2>3, <4>1, <4>2
    <3>2. \A f \in Files : Standing(f)' <=> Standing(f)
      BY <2>3 DEF Standing
    <3> QED BY <1>3, <2>3, <2>6, <3>1, <3>2 DEF RowsGoOn
  <2>9. CallKnows(calls[a])'
    <3>1. CallKnows(c)'
      BY <2>4, <2>8, KnowsStill DEF IInv
    <3> QED BY <2>5, <3>1 DEF CallKnows
  <2>10. \A q \in Requests' : ~LetInOn(a, q)'
    BY <2>4, <2>5, <2>7, Typed DEF LetInOn, Subject
  <2>11. \A f \in Files' \ Files : files'[f].row /\ files'[f].req # None =>
           files'[f].parent = requests'[files'[f].req].about
    <3>1. r # None => calls[a].op = "answer" /\ r \in Requests
      BY <1>1, <1>2 DEF CallKnows, Uploads
    <3>2. r # None => calls[a].on = requests[r].about
      BY <1>1, <1>2, <1>5, <3>1 DEF CallKnows
    <3> QED BY <2>2, <2>3, <2>6, <3>1, <3>2
  <2>12. \A q \in Requests' : Fulfilled(q)' /\ Current(q)' = {} /\ q \notin hurt' =>
           q \in Requests /\ Fulfilled(q) /\ Current(q) = {} /\ q \notin hurt /\ ~MendedBy(a, q)
    <3>1. \A q \in Requests : Current(q) \subseteq Current(q)'
      BY <2>3 DEF Current, Standing
    <3>2. r # None => new \in Current(r)'
      BY <2>2, <2>3 DEF Current, Standing
    <3>3. \A q \in Requests : ~MendedBy(a, q)
      BY <1>2 DEF MendedBy
    <3>4. \A q \in Requests : q # r /\ Fulfilled(q)' => Fulfilled(q)
      BY <2>6 DEF Fulfilled
    <3>5. \A q \in Requests : q = r => q # None
      BY CallOf
    <3> QED BY <1>3, <2>6, <3>1, <3>2, <3>3, <3>4, <3>5
  <2>13. \A q \in Requests' : requests'[q].status = "cancelled" /\ q \notin raced' =>
           q \in Requests /\ requests[q].status = "cancelled" /\ q \notin raced
    BY <1>3, <2>6, CallOf
  <2>14. NothingUnreachable' /\ RowsLead'
    <3>1. hasty \subseteq hasty' /\ hurt' = hurt /\ v.blob
      BY <1>3, <2>1, <2>2 DEF Sent
    <3> QED BY <2>2, <2>3, <3>1 DEF IInv, NothingUnreachable, RowsLead
  <2> QED BY <2>4, <2>5, <2>7, <2>8, <2>9, <2>10, <2>11, <2>12, <2>13, <2>14, StepInv
<1> QED BY <1>4, <1>5

\* A work file goes with what hangs off it, and the requests about it are about the job.
LEMMA DeleteSourceInv ==
  ASSUME IInv, NEW a \in Actors, DeleteSource(a)
  PROVE  IInv'
<1>1. PICK s \in Sources : s = calls[a].on
  BY CallOf DEF DeleteSource, At, CallKnows
<1>2. PICK paths \in SUBSET Files : paths = calls[a].paths
  BY CallOf
<1>3. /\ calls[a].op = "removeSource" /\ calls[a].step = "let in" /\ calls[a].id = None
      /\ \A f \in paths : files[f].row => files[f].parent = s
      /\ a # Client => HangingOff(s) \ paths \subseteq hasty
  BY <1>1, <1>2, CallOf DEF DeleteSource, At, CallKnows, IInv, CallsKnow
<1>4. s # Whole
  BY WholeAssumption
<1>5. PICK c \in CallRow : /\ calls' = [calls EXCEPT ![a] = c] /\ CallKnows(c)
                          /\ c.id = None /\ c.op = "none" /\ c.paths = {}
  BY EndsIn DEF DeleteSource
<1>6. /\ UNCHANGED <<status, due, raced, doubled, crashes>> /\ sources' = sources \ {s}
      /\ hurt' = hurt \union {r \in Requests : requests[r].about = s}
      /\ hasty' = (hasty \ paths) \union IF a = Client THEN HangingOff(s) ELSE {}
  BY <1>1, <1>2 DEF DeleteSource
<1>7. /\ requests' \in Seq(AskRow) /\ Requests' = Requests
      /\ \A r \in Requests : requests[r].about # s => requests'[r] = requests[r]
      /\ \A r \in Requests : requests[r].about = s => requests'[r].about = Whole
      /\ \A r \in Requests : requests'[r].status = requests[r].status
  <2>1. requests' = [r \in Requests |-> IF requests[r].about = s
                                         THEN [requests[r] EXCEPT !.about = Whole] ELSE requests[r]]
    BY <1>1 DEF DeleteSource
  <2>2. /\ requests' = [r \in Requests |-> requests'[r]]
        /\ \A r \in Requests : requests[r].about # s => requests'[r] = requests[r]
        /\ \A r \in Requests : requests[r].about = s => requests'[r] = [requests[r] EXCEPT !.about = Whole]
    BY <2>1
  <2>3. ASSUME NEW r \in Requests
        PROVE  /\ requests'[r] \in AskRow /\ requests'[r].status = requests[r].status
               /\ requests[r].about = s => requests'[r].about = Whole
    <3>1. requests[r] \in AskRow
      BY CallOf
    <3>2. CASE requests[r].about = s
      BY <2>2, <3>1, <3>2 DEF AskRow, Abouts
    <3>3. CASE requests[r].about # s
      BY <2>2, <3>1, <3>3
    <3> QED BY <3>2, <3>3
  <2>4. requests' \in Seq(AskRow) /\ Requests' = Requests
    BY <2>2, <2>3, RowsWritten DEF IInv, TypeOK, Requests
  <2> QED BY <2>2, <2>3, <2>4
<1>8. /\ files' \in Seq(FileRow) /\ Files' = Files
      /\ \A f \in Files : f \in paths => files'[f] = Gone
      /\ \A f \in Files : f \in HangingOff(s) \ paths => files'[f] = Stray
      /\ \A f \in Files : f \notin paths /\ f \notin HangingOff(s) => files'[f] = files[f]
  <2>1. files' = [f \in Files |->
                   CASE f \in paths -> Gone
                     [] f \in HangingOff(s) \ paths -> Stray
                     [] OTHER -> files[f]]
    BY <1>1, <1>2 DEF DeleteSource
  <2>2. /\ files' = [f \in Files |-> files'[f]]
        /\ \A f \in Files : f \in paths => files'[f] = Gone
        /\ \A f \in Files : f \in HangingOff(s) \ paths => files'[f] = Stray
        /\ \A f \in Files : f \notin paths /\ f \notin HangingOff(s) => files'[f] = files[f]
    BY <2>1
  <2>3. \A f \in Files : files'[f] \in FileRow
    BY <2>2, Leftovers, CallOf
  <2>4. files' \in Seq(FileRow) /\ Files' = Files
    BY <2>2, <2>3, RowsWritten DEF IInv, TypeOK, Files
  <2> QED BY <2>2, <2>4
\* What still has its row hung off something else, and is as it was.
<1>9. \A f \in Files : files'[f].row =>
        files'[f] = files[f] /\ files[f].parent # s /\ f \notin paths
  BY <1>8, Leftovers DEF HangingOff
<1>10. HangingOff(s) \subseteq Files /\ HangingOff(s) \ paths \subseteq hasty'
  BY <1>3, <1>6 DEF HangingOff
<1>11. calls'[a] = c /\ (\A b \in Actors : b # a => calls'[b] = calls[b]) /\ calls' \in [Actors -> CallRow]
  BY <1>5, CallOf
<1>12. TypeOK'
  <2>1. hasty' \subseteq Files' /\ hurt' \subseteq Requests'
    BY <1>6, <1>7, <1>8, <1>10 DEF IInv, TypeOK
  <2>2. \A r \in Requests' : requests'[r].about \in sources' \union {Whole}
    BY <1>6, <1>7 DEF IInv, TypeOK
  <2>3. \A f \in Files' : files'[f].row => files'[f].parent \in sources' \union {Whole}
    BY <1>6, <1>8, <1>9 DEF IInv, TypeOK
  <2>4. \A f \in Files' : files'[f].req \in Requests' \union {None}
    BY <1>7, <1>8, Leftovers DEF IInv, TypeOK
  <2> QED BY <1>6, <1>7, <1>8, <1>11, <2>1, <2>2, <2>3, <2>4 DEF IInv, TypeOK
<1>13. RowsGoOn
  <2>1. \A r \in Requests : requests[r].about \in sources' \union {Whole} => requests'[r] = requests[r]
    BY <1>4, <1>6, <1>7
  <2>2. \A f \in Files : f \in hasty /\ files'[f].row => f \in hasty'
    BY <1>6, <1>9
  <2>3. \A f \in Files : Standing(f)' => Standing(f)
    BY <1>9 DEF Standing
  <2> QED BY <1>6, <1>7, <1>8, <1>9, <2>1, <2>2, <2>3 DEF RowsGoOn
<1>14. CallKnows(calls[a])'
  <2>1. CallKnows(c)'
    BY <1>5, <1>13, KnowsStill DEF IInv
  <2> QED BY <1>11, <2>1 DEF CallKnows
<1>15. \A q \in Requests' : ~LetInOn(a, q)'
  BY <1>5, <1>11, <1>12, Typed DEF LetInOn, Subject
<1>16. \A q \in Requests' : Fulfilled(q)' /\ Current(q)' = {} /\ q \notin hurt' =>
         q \in Requests /\ Fulfilled(q) /\ Current(q) = {} /\ q \notin hurt /\ ~MendedBy(a, q)
  <2>1. SUFFICES ASSUME NEW q \in Requests, Fulfilled(q)', Current(q)' = {}, q \notin hurt'
                 PROVE  Fulfilled(q) /\ Current(q) = {} /\ q \notin hurt /\ ~MendedBy(a, q)
    BY <1>7
  <2>2. requests[q].about # s /\ q \notin hurt /\ Fulfilled(q)
    BY <1>6, <1>7, <2>1 DEF Fulfilled
  <2>3. ASSUME NEW f \in Current(q) PROVE FALSE
    <3>1. f \in Files /\ Standing(f) /\ files[f].req = q /\ files[f].row
      BY DEF Current, Standing
    <3>2. files[f].parent # s
      BY <2>2, <3>1, CallOf DEF IInv, AnswersHang
    <3>3. files'[f] = files[f]
      BY <1>3, <1>8, <3>1, <3>2 DEF HangingOff
    <3>4. f \in Current(q)'
      BY <1>8, <3>1, <3>3 DEF Current, Standing
    <3> QED BY <2>1, <3>4
  <2>4. ~MendedBy(a, q)
    BY <1>3 DEF MendedBy
  <2> QED BY <2>2, <2>3, <2>4
<1>17. \A q \in Requests' : requests'[q].status = "cancelled" /\ q \notin raced' =>
         q \in Requests /\ requests[q].status = "cancelled" /\ q \notin raced
  BY <1>6, <1>7
<1>18. NothingUnreachable'
  <2>1. SUFFICES ASSUME NEW f \in Files, files'[f].blob, ~files'[f].row PROVE f \in hasty'
    BY <1>8 DEF NothingUnreachable
  <2>2. f \notin paths
    BY <1>8, <2>1, Leftovers
  <2>3. CASE f \in HangingOff(s)
    BY <1>10, <2>2, <2>3
  <2>4. CASE f \notin HangingOff(s)
    BY <1>6, <1>8, <2>1, <2>2, <2>4 DEF IInv, NothingUnreachable
  <2> QED BY <2>3, <2>4
<1>19. RowsLead'
  BY <1>6, <1>8, <1>9 DEF IInv, RowsLead
<1> QED BY <1>5, <1>8, <1>11, <1>12, <1>13, <1>14, <1>15, <1>16, <1>17, <1>18, <1>19, StepInv

-----------------------------------------------------------------------------
(* The inductive invariant holds.                                          *)

LEMMA InitInv == Init => IInv
<1>1. SUFFICES ASSUME Init PROVE IInv
  OBVIOUS
<1>2. /\ requests \in Seq(AskRow) /\ files \in Seq(FileRow) /\ Requests = {} /\ Files = {}
  BY <1>1, EmptySeq DEF Init, Requests, Files
<1>3. \A a \in Actors : calls[a] = Idle
  BY <1>1 DEF Init
<1>4. /\ Idle \in CallRow /\ Idle.op = "none" /\ Idle.step = "idle" /\ Idle.id = None /\ Idle.paths = {}
  BY DEF Idle, Call, CallRow, None, Abouts
<1>5. TypeOK
  <2>1. calls \in [Actors -> CallRow]
    BY <1>1, <1>4 DEF Init
  <2>2. /\ status = "draft" /\ due = FALSE /\ hasty = {} /\ hurt = {} /\ raced = {} /\ doubled = {}
        /\ sources = Sources
    BY <1>1 DEF Init
  <2>3. crashes \in 0 .. MaxCrashes
    BY <1>1, BoundsAssumption DEF Init
  <2> QED BY <1>2, <2>1, <2>2, <2>3 DEF TypeOK
<1>6. CallsKnow
  BY <1>3, <1>4, <1>5, IdleKnows DEF CallsKnow
<1> QED BY <1>2, <1>5, <1>6
        DEF IInv, AnswersHang, FulfilledOrMended, NobodyOnWithdrawn, NothingUnreachable, RowsLead

LEMMA StepKeepsInv == IInv /\ [Next]_vars => IInv'
<1>1. SUFFICES ASSUME IInv, [Next]_vars PROVE IInv'
  OBVIOUS
<1>2. CASE Succeed \/ Refetch \/ LoseAnswer \/ Publish \/ Settle \/ UNCHANGED vars
  BY <1>1, <1>2, PageInv
<1>3. ASSUME NEW a \in Actors, Step(a) PROVE IInv'
  BY <1>1, <1>3, CreateAskInv, StoreInv, SaveCancelInv, MoveInv, SupersedeInv, ReopenEndsInv,
     DeleteFileInv, DeleteSourceInv DEF Step
<1>4. ASSUME NEW a \in Actors, Press(a) \/ Crash(a) PROVE IInv'
  BY <1>1, <1>4, PressInv, CrashInv
<1> QED BY <1>1, <1>2, <1>3, <1>4 DEF Next

\* The rows fit the tables and their foreign keys, every call in flight still knows what it
\* was let in for, and whoever takes the last answer of a request away is about to open it
\* again: whatever the order in which the handlers of both sides run.
THEOREM DocumentsInvariance == Spec => []IInv
BY InitInv, StepKeepsInv, PTL DEF Spec

\* No handler writes a row that its table or a foreign key would refuse.
THEOREM DocumentsTypeCorrect == Spec => []TypeOK
<1>1. IInv => TypeOK
  BY DEF IInv
<1> QED BY <1>1, DocumentsInvariance, PTL

\* A request shown as received has a file that still stands and is on the disk, once nobody
\* is at work on it, unless a handler died halfway, its work file took the answers along, or
\* a reopening rejected an answer that came after its refresh() and left the request as it
\* was; and once the manager's rejection has run, nothing that was rejected still counts.
THEOREM AnswersHold == Spec => []FulfilledIsAnswered
<1>1. IInv => FulfilledIsAnswered
  <2>1. SUFFICES ASSUME IInv PROVE FulfilledIsAnswered
    OBVIOUS
  <2>2. ASSUME NEW r \in Requests, Fulfilled(r), AtRest(r), Current(r) = {} PROVE r \in hurt
    BY <2>1, <2>2 DEF IInv, FulfilledOrMended, MendedBy, AtRest
  <2>3. ASSUME NEW a \in Office, At(a, "reopen", "superseded"), NEW f \in calls[a].paths
        PROVE  ~Standing(f)
    BY <2>1, <2>3, CallOf DEF Actors, At, CallKnows
  <2>4. ASSUME NEW r \in Requests, r \notin hurt, NEW f \in Current(r) PROVE files[f].blob
    <3>1. f \in Files /\ files[f].row /\ files[f].req = r /\ r # None /\ files[f] \in FileRow
      BY <2>1, <2>4, Typed DEF IInv, Current, Standing
    <3> QED BY <2>1, <2>4, <3>1 DEF IInv, RowsLead
  <2>5. \A r \in Requests : Fulfilled(r) /\ AtRest(r) =>
          \/ r \in hurt
          \/ Current(r) # {} /\ \A f \in Current(r) : files[f].blob
    BY <2>2, <2>4
  <2>6. \A a \in Office : At(a, "reopen", "superseded") => \A f \in calls[a].paths : ~Standing(f)
    BY <2>3
  <2> QED BY <2>5, <2>6 DEF FulfilledIsAnswered
<1> QED BY <1>1, DocumentsInvariance, PTL

\* No handler leaves a blob on the disk that no row leads to, but the ones known to.
THEOREM NothingLost == Spec => []NothingUnreachable
<1>1. IInv => NothingUnreachable
  BY DEF IInv
<1> QED BY <1>1, DocumentsInvariance, PTL

-----------------------------------------------------------------------------
(* What a step may do to a request.                                        *)

\* A request that was asked for once and is open was open before, about the same thing; a
\* withdrawn one is written by nobody who was not let in before.
RequestsGoOn ==
  /\ \A r \in Requests : AskedOnce(r) => AskedOnce(r)'
  /\ \A r \in Requests : Pending(r)' /\ ~AskedOnce(r)' =>
       Pending(r) /\ requests'[r].about = requests[r].about
  /\ \A r \in Requests : requests[r].status = "cancelled" =>
       requests'[r].status = "cancelled" \/ r \in raced

\* The request of the call is written, the others are not.
LEMMA OneWritten ==
  ASSUME IInv, NEW r \in Requests, NEW v \in AskRow, requests' = [requests EXCEPT ![r] = v],
         v.about = requests[r].about, hurt \subseteq hurt', doubled \subseteq doubled',
         requests[r].again => v.again, v.status = "pending" => v.again,
         v.status # "cancelled" /\ requests[r].status = "cancelled" => r \in raced
  PROVE  RequestsGoOn /\ Requests' = Requests
<1>1. /\ Requests' = Requests /\ requests'[r] = v
      /\ \A q \in Requests : q # r => requests'[q] = requests[q]
  BY RowWritten DEF IInv, TypeOK, Requests
<1> QED BY <1>1 DEF RequestsGoOn, AskedOnce, Pending

LEMMA NoneWritten ==
  ASSUME UNCHANGED requests, hurt \subseteq hurt', doubled \subseteq doubled'
  PROVE  RequestsGoOn /\ Requests' = Requests
BY DEF RequestsGoOn, AskedOnce, Pending, Requests

LEMMA StepGoesOn ==
  ASSUME IInv, NEW a \in Actors, Step(a)
  PROVE  RequestsGoOn /\ (Requests' = Requests \/ CreateAsk(a)) /\ sources' \subseteq sources
<1> DEFINE id == calls[a].id
<1>1. \A r \in Requests : requests[r].status = "cancelled" /\ r \notin raced /\ calls[a].id = r =>
        calls[a].op = "cancel" \/ (calls[a].op = "remove" /\ calls[a].step # "unanswered")
  BY CallOf DEF IInv, NobodyOnWithdrawn, LetInOn, Subject
<1>2. CASE CreateAsk(a)
  <2>1. CASE UNCHANGED requests
    BY <1>2, <2>1, NoneWritten DEF CreateAsk
  <2>2. CASE requests' = Append(requests, Ask(calls[a].on)) /\ calls[a].on \in sources \union {Whole}
    <3>1. PICK v \in AskRow : v = Ask(calls[a].on)
      <4>1. Ask(calls[a].on) \in AskRow
        BY CallOf DEF Ask, AskRow, CallRow
      <4> QED BY <4>1
    <3>2. \A r \in Requests : requests'[r] = requests[r]
      BY <2>2, <3>1, AskAdded DEF IInv
    <3> QED BY <1>2, <3>2 DEF CreateAsk, RequestsGoOn, AskedOnce, Pending
  <2> QED BY <1>2, <2>1, <2>2 DEF CreateAsk
<1>3. CASE Store(a)
  <2>1. UNCHANGED <<hurt, doubled, sources>>
    BY <1>3 DEF Store
  <2>2. CASE UNCHANGED requests
    BY <2>1, <2>2, NoneWritten
  <2>3. CASE id # None /\ requests' = [requests EXCEPT ![id].status = "fulfilled"]
    <3>1. id \in Requests /\ requests[id] \in AskRow /\ calls[a].op \in {"answer", "send"}
      BY <1>3, <2>3, CallOf DEF Store, At, Uploads
    <3>2. PICK v \in AskRow : /\ v = [requests[id] EXCEPT !.status = "fulfilled"]
                             /\ v.about = requests[id].about /\ v.status = "fulfilled"
                             /\ v.again = requests[id].again
      <4>1. [requests[id] EXCEPT !.status = "fulfilled"] \in AskRow
        BY <3>1 DEF AskRow
      <4> QED BY <3>1, <4>1 DEF AskRow
    <3>3. requests' = [requests EXCEPT ![id] = v]
      BY <2>3, <3>1, <3>2
    <3> QED BY <1>1, <2>1, <3>1, <3>2, <3>3, OneWritten
  <2> QED BY <1>3, <2>2, <2>3 DEF Store
<1>4. CASE SaveCancel(a)
  <2>1. id \in Requests /\ requests[id] \in AskRow
    BY <1>4, CallOf DEF SaveCancel, At, CallKnows
  <2>2. PICK v \in AskRow : /\ v = [requests[id] EXCEPT !.status = "cancelled"]
                           /\ v.about = requests[id].about /\ v.status = "cancelled"
                           /\ v.again = requests[id].again
    <3>1. [requests[id] EXCEPT !.status = "cancelled"] \in AskRow
      BY <2>1 DEF AskRow
    <3> QED BY <2>1, <3>1 DEF AskRow
  <2>3. requests' = [requests EXCEPT ![id] = v] /\ UNCHANGED <<hurt, doubled, sources>>
    BY <1>4, <2>1, <2>2 DEF SaveCancel
  <2> QED BY <2>1, <2>2, <2>3, OneWritten
<1>5. CASE SaveReopen(a) \/ SaveUnanswered(a)
  <2>1. /\ id \in Requests /\ requests[id] \in AskRow /\ hurt \subseteq hurt' /\ sources' = sources
        /\ doubled' = doubled /\ (UNCHANGED requests \/ Open(id))
    BY <1>5, CallOf DEF SaveReopen, SaveUnanswered, At, CallKnows, hist
  <2>2. calls[a].op = "reopen" \/ (calls[a].op = "remove" /\ calls[a].step = "unanswered")
    BY <1>5 DEF SaveReopen, SaveUnanswered, At
  <2>3. CASE Open(id)
    <3>1. PICK v \in AskRow : /\ v = [requests[id] EXCEPT !.status = "pending", !.again = TRUE]
                             /\ v.about = requests[id].about /\ v.status = "pending" /\ v.again
      <4>1. [requests[id] EXCEPT !.status = "pending", !.again = TRUE] \in AskRow
        BY <2>1 DEF AskRow
      <4> QED BY <2>1, <4>1 DEF AskRow
    <3>2. requests' = [requests EXCEPT ![id] = v]
      BY <2>1, <2>3, <3>1 DEF Open
    <3>3. requests[id].status = "cancelled" => id \in raced
      BY <1>1, <2>1, <2>2
    <3> QED BY <2>1, <3>1, <3>2, <3>3, OneWritten
  <2> QED BY <2>1, <2>3, NoneWritten
<1>6. CASE DeleteSource(a)
  <2>1. PICK s : s = calls[a].on
    OBVIOUS
  <2>2. /\ requests' = [r \in Requests |-> IF requests[r].about = s
                                            THEN [requests[r] EXCEPT !.about = Whole] ELSE requests[r]]
        /\ hurt' = hurt \union {r \in Requests : requests[r].about = s} /\ sources' \subseteq sources
        /\ doubled' = doubled
    BY <1>6, <2>1 DEF DeleteSource
  <2>3. Requests' = Requests
    BY <2>2 DEF Requests
  <2>4. ASSUME NEW r \in Requests
        PROVE  /\ requests[r].about # s => requests'[r] = requests[r]
               /\ requests'[r].status = requests[r].status /\ requests'[r].again = requests[r].again
    <3>1. requests[r] \in AskRow
      BY CallOf
    <3> QED BY <2>2, <3>1 DEF AskRow
  <2> QED BY <2>2, <2>3, <2>4 DEF RequestsGoOn, AskedOnce, Pending
<1>7. CASE RefreshReopen(a) \/ Supersede(a) \/ DeleteFile(a) \/ CheckAnswers(a)
  <2>1. UNCHANGED <<requests, hurt, doubled, sources>>
    BY <1>7 DEF RefreshReopen, Supersede, DeleteFile, CheckAnswers, rows, hist
  <2> QED BY <2>1, NoneWritten
<1> QED BY <1>2, <1>3, <1>4, <1>5, <1>6, <1>7 DEF Step

LEMMA OthersGoOn ==
  ASSUME IInv, [Next]_vars, ~ \E a \in Actors : Step(a)
  PROVE  RequestsGoOn /\ Requests' = Requests /\ sources' \subseteq sources
<1>1. UNCHANGED <<requests, sources, doubled>> /\ hurt \subseteq hurt'
  <2>1. ASSUME NEW a \in Actors, Press(a) PROVE UNCHANGED <<requests, sources, hurt, doubled>>
    BY <2>1 DEF Press, LoadAsk, LoadUpload, LoadCancel, LoadReopen, LoadRemove, LoadRemoveSource,
         Begin, rows, hist
  <2>2. ASSUME NEW a \in Actors, Crash(a) PROVE UNCHANGED <<requests, sources, doubled>> /\ hurt \subseteq hurt'
    BY <2>2 DEF Crash
  <2>3. ASSUME Succeed \/ Refetch \/ LoseAnswer \/ Publish \/ Settle \/ UNCHANGED vars
        PROVE  UNCHANGED <<requests, sources, hurt, doubled>>
    BY <2>3 DEF Succeed, Refetch, LoseAnswer, Publish, Settle, rows, hist, vars
  <2> QED BY <2>1, <2>2, <2>3 DEF Next
<1> QED BY <1>1, NoneWritten

\* What the office withdrew is answered or asked again by nobody, but by a call that was
\* past its check when it was cancelled.
THEOREM WithdrawnStay == Spec => WithdrawnStays
<1>1. IInv /\ [Next]_vars =>
        \A r \in Requests : requests[r].status = "cancelled" =>
          requests'[r].status = "cancelled" \/ r \in raced
  BY StepGoesOn, OthersGoOn DEF RequestsGoOn
<1>2. IInv /\ [Next]_vars =>
        [\A r \in Requests : requests[r].status = "cancelled" =>
           requests'[r].status = "cancelled" \/ r \in raced]_vars
  BY <1>1
<1> QED BY <1>2, DocumentsInvariance, PTL DEF Spec, WithdrawnStays

-----------------------------------------------------------------------------
(* Who asks for what somebody else asks for.                               *)

\* Whoever asks next was let in on it now, or before and has not asked yet.
LEMMA AsksBegin ==
  ASSUME IInv, [Next]_vars, NEW b \in Actors, calls'[b].op = "ask"
  PROVE  \/ /\ calls[b].op = "ask" /\ calls'[b].on = calls[b].on
            /\ ~ (calls[b].step = "let in" /\ CreateAsk(b))
         \/ /\ Twins(calls'[b].on) = {} /\ UNCHANGED <<requests, hurt>>
<1>1. /\ Idle.op = "none" /\ [Idle EXCEPT !.step = "done"].op = "none"
      /\ calls \in [Actors -> CallRow] /\ calls[b] \in CallRow
  BY CallOf DEF Idle, Call
<1>2. ASSUME NEW a \in Actors, Done(a) \/ Refuse(a)
      PROVE  a # b /\ calls'[b] = calls[b]
  <2>1. PICK c \in {Idle, [Idle EXCEPT !.step = "done"]} : calls' = [calls EXCEPT ![a] = c]
    BY <1>2, DoneIs DEF Refuse
  <2> QED BY <1>1, <2>1
<1>3. ASSUME NEW a \in Actors, NEW st, Goes(a, st)
      PROVE  /\ calls'[a].op = calls[a].op /\ calls'[a].on = calls[a].on
             /\ \A d \in Actors : d # a => calls'[d] = calls[d]
  <2>1. calls[a] \in CallRow
    BY CallOf
  <2> QED BY <1>1, <1>3, <2>1 DEF Goes, CallRow
<1>4. ASSUME NEW a \in Actors, Step(a)
      PROVE  /\ calls[b].op = "ask" /\ calls'[b].on = calls[b].on
             /\ ~ (calls[b].step = "let in" /\ CreateAsk(b))
  <2>1. ~CreateAsk(b)
    <3>1. CreateAsk(b) => FALSE
      BY <1>2 DEF CreateAsk
    <3> QED BY <3>1
  <2>2. CASE CreateAsk(a) \/ Store(a) \/ SaveCancel(a) \/ SaveReopen(a) \/ SaveUnanswered(a)
             \/ DeleteSource(a)
    <3>1. Done(a) \/ Refuse(a)
      BY <2>2 DEF CreateAsk, Store, SaveCancel, SaveReopen, SaveUnanswered, DeleteSource
    <3> QED BY <1>2, <2>1, <3>1
  <2>3. CASE Supersede(a) \/ CheckAnswers(a)
    <3>1. (\E st : Goes(a, st)) \/ Done(a)
      BY <2>3 DEF Supersede, CheckAnswers
    <3> QED BY <1>2, <1>3, <2>1, <3>1
  <2>4. CASE RefreshReopen(a)
    <3>1. calls' = [calls EXCEPT ![a] = [calls[a] EXCEPT !.step = "refreshed",
                                           !.kept = requests[calls[a].id].status]]
      BY <1>1, <2>4 DEF RefreshReopen
    <3>2. calls[a] \in CallRow
      BY CallOf
    <3> QED BY <1>1, <2>1, <3>1, <3>2 DEF CallRow
  <2>5. CASE DeleteFile(a)
    <3>1. \/ Done(a)
          \/ calls' = [calls EXCEPT ![a] = [calls[a] EXCEPT !.step = "row gone", !.paths = {}]]
      BY <1>1, <2>5 DEF DeleteFile
    <3>2. CASE calls' = [calls EXCEPT ![a] = [calls[a] EXCEPT !.step = "row gone", !.paths = {}]]
      <4>1. [calls[a] EXCEPT !.step = "row gone", !.paths = {}].op = "remove"
        <5>1. calls[a] \in CallRow /\ calls[a].op = "remove"
          BY <2>5, CallOf DEF DeleteFile, At
        <5> QED BY <5>1 DEF CallRow
      <4>2. a # b /\ calls'[b] = calls[b]
        BY <1>1, <3>2, <4>1
      <4> QED BY <2>1, <4>2
    <3> QED BY <1>2, <2>1, <3>1, <3>2
  <2> QED BY <1>4, <2>2, <2>3, <2>4, <2>5 DEF Step
<1>5. ASSUME NEW a \in Actors, Press(a)
      PROVE  \/ /\ calls[b].op = "ask" /\ calls'[b].on = calls[b].on
                /\ ~ (calls[b].step = "let in" /\ CreateAsk(b))
             \/ /\ Twins(calls'[b].on) = {} /\ UNCHANGED <<requests, hurt>>
  <2>1. PICK op, id, on, paths :
          /\ Begin(a, op, id, on, paths)
          /\ op = "ask" => Twins(on) = {}
    <3>1. ASSUME NEW on \in sources \union {Whole}, LoadAsk(a, on)
          PROVE  Begin(a, "ask", None, on, {}) /\ Twins(on) = {}
      BY <3>1 DEF LoadAsk, MayAsk
    <3>2. ASSUME ~ \E on \in sources \union {Whole} : LoadAsk(a, on)
          PROVE  \E op, id, on, paths : Begin(a, op, id, on, paths) /\ op # "ask"
      <4>1. ASSUME NEW r \in Requests \union {None}, LoadUpload(a, r)
            PROVE  \E op, id, on, paths : Begin(a, op, id, on, paths) /\ op # "ask"
        <5>1. CASE r = None
          BY <4>1, <5>1 DEF LoadUpload
        <5>2. CASE r # None
          BY <4>1, <5>2 DEF LoadUpload
        <5> QED BY <5>1, <5>2
      <4>2. ASSUME NEW r \in Requests, LoadCancel(a, r) \/ LoadReopen(a, r)
            PROVE  \E op, id, on, paths : Begin(a, op, id, on, paths) /\ op # "ask"
        BY <4>2 DEF LoadCancel, LoadReopen
      <4>3. ASSUME NEW f \in Files, LoadRemove(a, f)
            PROVE  \E op, id, on, paths : Begin(a, op, id, on, paths) /\ op # "ask"
        BY <4>3 DEF LoadRemove
      <4>4. ASSUME NEW s \in sources, LoadRemoveSource(a, s)
            PROVE  \E op, id, on, paths : Begin(a, op, id, on, paths) /\ op # "ask"
        BY <4>4 DEF LoadRemoveSource
      <4> QED BY <1>5, <3>2, <4>1, <4>2, <4>3, <4>4 DEF Press
    <3> QED BY <3>1, <3>2
  <2>2. /\ calls' = [calls EXCEPT ![a] = Call(op, id, on, "let in", paths)]
        /\ UNCHANGED <<requests, hurt>>
    BY <2>1 DEF Begin, rows, hist
  <2>3. CASE a = b
    <3>1. calls'[b].op = op /\ calls'[b].on = on
      BY <1>1, <2>2, <2>3 DEF Call
    <3> QED BY <2>1, <2>2, <3>1
  <2>4. CASE a # b
    <3>1. calls'[b] = calls[b]
      BY <1>1, <2>2, <2>4
    <3>2. ~CreateAsk(b)
      <4>1. CreateAsk(b) => FALSE
        BY <1>2 DEF CreateAsk
      <4> QED BY <4>1
    <3> QED BY <3>1, <3>2
  <2> QED BY <2>3, <2>4
<1>6. ~CreateAsk(b)
  <2>1. CreateAsk(b) => FALSE
    BY <1>2 DEF CreateAsk
  <2> QED BY <2>1
<1>7. ASSUME NEW a \in Actors, Crash(a) PROVE calls[b].op = "ask" /\ calls'[b].on = calls[b].on
  BY <1>2, <1>7 DEF Crash
<1>8. ASSUME Succeed \/ LoseAnswer PROVE calls[b].op = "ask" /\ calls'[b].on = calls[b].on
  <2>1. Client \in Actors /\ Refuse(Client)
    BY <1>8 DEF Succeed, LoseAnswer, Refuse, Actors
  <2> QED BY <1>2, <2>1
<1>9. ASSUME Refetch \/ Publish \/ Settle \/ UNCHANGED vars
      PROVE  calls[b].op = "ask" /\ calls'[b].on = calls[b].on
  BY <1>9 DEF Refetch, Publish, Settle, vars
<1> QED BY <1>4, <1>5, <1>6, <1>7, <1>8, <1>9 DEF Next

BoxesInv == OneBoxPerAsk /\ AskersKnow

\* What turns up between the check and the create of an ask was opened again, or made while
\* that ask was let in.
LEMMA StepKeepsBoxes ==
  ASSUME IInv, BoxesInv, [Next]_vars
  PROVE  BoxesInv'
<1>1. /\ RequestsGoOn /\ sources' \subseteq sources
      /\ Requests' = Requests \/ \E a \in Actors : CreateAsk(a)
  BY StepGoesOn, OthersGoOn
<1>2. CASE Requests' = Requests
  <2>1. OneBoxPerAsk'
    <3>1. SUFFICES ASSUME NEW r \in Requests, NEW q \in Requests, r # q, Pending(r)', Pending(q)',
                          requests'[r].about = requests'[q].about, ~AskedOnce(r)', ~AskedOnce(q)'
                   PROVE  FALSE
      BY <1>2 DEF OneBoxPerAsk, AskedOnce
    <3>2. /\ Pending(r) /\ Pending(q) /\ requests[r].about = requests[q].about
          /\ ~AskedOnce(r) /\ ~AskedOnce(q)
      BY <1>1, <3>1 DEF RequestsGoOn
    <3> QED BY <3>1, <3>2 DEF BoxesInv, OneBoxPerAsk, AskedOnce
  <2>2. AskersKnow'
    <3>1. SUFFICES ASSUME NEW b \in Actors, calls'[b].op = "ask",
                          calls'[b].on \in sources' \union {Whole},
                          NEW r \in Requests, Pending(r)', requests'[r].about = calls'[b].on,
                          ~AskedOnce(r)'
                   PROVE  FALSE
      BY <1>2 DEF AskersKnow, Twins, Actors
    <3>2. Pending(r) /\ requests[r].about = calls'[b].on /\ ~AskedOnce(r)
      BY <1>1, <3>1 DEF RequestsGoOn
    <3>3. r \in Twins(calls'[b].on)
      BY <3>2 DEF Twins
    <3>4. calls[b].op = "ask" /\ calls'[b].on = calls[b].on
      BY <3>1, <3>3, AsksBegin
    <3> QED BY <1>1, <3>1, <3>2, <3>3, <3>4 DEF BoxesInv, AskersKnow
  <2> QED BY <2>1, <2>2 DEF BoxesInv
<1>3. ASSUME NEW a \in Actors, CreateAsk(a), Requests' # Requests PROVE BoxesInv'
  <2>1. /\ requests' = Append(requests, Ask(calls[a].on)) /\ calls[a].on \in sources \union {Whole}
        /\ calls[a].op = "ask" /\ calls[a].step = "let in" /\ a \in Office /\ hurt' = hurt
        /\ doubled' = doubled \union IF Meanwhile(a) THEN {Len(requests) + 1} ELSE {}
    BY <1>3, CallOf DEF CreateAsk, At, Requests
  <2>2. PICK v \in AskRow : v = Ask(calls[a].on) /\ v.about = calls[a].on
    <3>1. Ask(calls[a].on) \in AskRow
      BY CallOf DEF Ask, AskRow, CallRow
    <3> QED BY <3>1 DEF Ask
  <2>3. PICK new : /\ new = Len(requests) + 1 /\ new \notin Requests /\ Requests' = Requests \union {new} /\ requests'[new] = v
                  /\ \A r \in Requests : requests'[r] = requests[r]
    BY <2>1, <2>2, AskAdded DEF IInv
  <2>4. \A r \in Requests : requests'[r] = requests[r]
    BY <2>3
  <2>5. \A r \in Requests : Pending(r) /\ requests[r].about = v.about => AskedOnce(r)'
    BY <2>1, <2>2, <2>4 DEF BoxesInv, AskersKnow, Twins, AskedOnce
  <2>6. OneBoxPerAsk'
    <3>1. SUFFICES ASSUME NEW r \in Requests', NEW q \in Requests', r # q, Pending(r)', Pending(q)',
                          requests'[r].about = requests'[q].about, ~AskedOnce(r)', ~AskedOnce(q)'
                   PROVE  FALSE
      BY DEF OneBoxPerAsk, AskedOnce
    <3>2. CASE r \in Requests /\ q \in Requests
      BY <2>1, <2>4, <3>1, <3>2 DEF BoxesInv, OneBoxPerAsk, AskedOnce, Pending
    <3>3. CASE r = new /\ q \in Requests
      BY <2>3, <2>4, <2>5, <3>1, <3>3 DEF Pending
    <3>4. CASE q = new /\ r \in Requests
      BY <2>3, <2>4, <2>5, <3>1, <3>4 DEF Pending
    <3> QED BY <2>3, <3>1, <3>2, <3>3, <3>4
  <2>7. AskersKnow'
    <3>1. SUFFICES ASSUME NEW b \in Actors, calls'[b].op = "ask", NEW r \in Requests',
                          Pending(r)', requests'[r].about = calls'[b].on, ~AskedOnce(r)',
                          calls'[b].on \in sources' \union {Whole}
                   PROVE  FALSE
      BY DEF AskersKnow, Twins, Actors
    <3>2. /\ calls[b].op = "ask" /\ calls'[b].on = calls[b].on
          /\ ~ (calls[b].step = "let in" /\ CreateAsk(b))
      <4>1. ~ UNCHANGED requests
        BY <1>3 DEF Requests
      <4> QED BY <3>1, <4>1, AsksBegin
    <3>3. calls[b].step = "let in"
      BY <3>2, CallOf DEF CallKnows, CallRow
    <3>4. CASE r = new
      <4>1. b # a /\ calls[b].on = calls[a].on
        BY <1>3, <2>2, <2>3, <3>1, <3>2, <3>3, <3>4
      <4>2. new \in doubled'
        BY <2>1, <2>3, <3>2, <3>3, <4>1 DEF Meanwhile, At
      <4> QED BY <3>1, <3>4, <4>2 DEF AskedOnce
    <3>5. CASE r \in Requests
      <4>1. Pending(r) /\ requests[r].about = calls[b].on
        BY <2>4, <3>1, <3>2, <3>5 DEF Pending
      <4>2. calls[b].on \in sources \union {Whole}
        BY <1>1, <3>1, <3>2
      <4>3. AskedOnce(r)
        BY <3>2, <3>5, <4>1, <4>2 DEF BoxesInv, AskersKnow, Twins
      <4> QED BY <1>1, <3>1, <3>5, <4>3 DEF RequestsGoOn
    <3> QED BY <2>3, <3>1, <3>4, <3>5
  <2> QED BY <2>6, <2>7 DEF BoxesInv
<1> QED BY <1>1, <1>2, <1>3

\* "Asking twice for the same thing on the same file would give the client two identical
\* boxes": however many managers are at work, two open requests about one thing were not
\* made by asking for it one after another.  Either the two asks overlapped, each past its
\* check before the other's create, or one of the two was opened again or lost its work file.
THEOREM OneBox == Spec => []OneBoxPerAsk
<1>1. Init => BoxesInv
  <2>1. SUFFICES ASSUME Init PROVE BoxesInv
    OBVIOUS
  <2>2. Requests = {}
    BY <2>1 DEF Init, Requests
  <2>3. \A a \in Actors : calls[a].op # "ask"
    BY <2>1 DEF Init, Idle, Call
  <2> QED BY <2>2, <2>3 DEF BoxesInv, OneBoxPerAsk, AskersKnow
<1>2. IInv /\ BoxesInv /\ [Next]_vars => BoxesInv'
  BY StepKeepsBoxes
<1>3. BoxesInv => OneBoxPerAsk
  BY DEF BoxesInv
<1> QED BY <1>1, <1>2, <1>3, DocumentsInvariance, PTL DEF Spec

-----------------------------------------------------------------------------
(* The same project while it is a draft: who owns it, what it is made of.  *)
(* Intake is a module of its own, with the same office and the same        *)
(* client; its variables are other columns than the ones above.            *)

CONSTANTS Nobody, MaxFiles, MaxRequests, WithdrawDrafts
VARIABLES stage, deleted, owner, submitted, title, auto, attached, underway

I == INSTANCE Intake WITH PMs <- Office, status <- stage, sources <- attached,
                          requests <- underway

\* What Intake assumes of its constants: created_by is empty, or a manager's.
OwnerApart == Nobody \notin Office

\* A request loads values of the row's types.
LEMMA DraftRequestsTyped ==
  ASSUME I!IInv, NEW by \in I!Senders
  PROVE  /\ by \in Office => I!UpdateBy(by) \in I!RequestRow
         /\ I!Request("publish", by) \in I!RequestRow
         /\ I!UploadBy(by) \in I!RequestRow
         /\ \A s \in attached : I!RemoveBy(by, s) \in I!RequestRow
  BY DEF I!IInv, I!TypeOK, I!UpdateBy, I!UploadBy, I!RemoveBy, I!Request, I!RequestRow, I!Owners, I!Titles,
         I!Source, I!Senders

\* A request further on is a request still.
LEMMA DraftGoOnTyped ==
  ASSUME NEW r \in I!RequestRow,
         NEW at \in {"loaded", "own", "read", "stored"}, NEW had \in BOOLEAN
  PROVE  /\ [r EXCEPT !.at = at] \in I!RequestRow
         /\ [r EXCEPT !.at = at, !.had = had] \in I!RequestRow
         /\ [r EXCEPT !.at = at].by = r.by
         /\ [r EXCEPT !.at = at, !.had = had].by = r.by
         /\ [r EXCEPT !.at = at].kind = r.kind
         /\ [r EXCEPT !.at = at, !.had = had].kind = r.kind
  BY DEF I!RequestRow

\* A batch adds a source file.
LEMMA DraftSourceTyped ==
  ASSUME attached \subseteq I!Source, NEW by \in I!Senders, I!NewSource(by)
  PROVE  attached' \subseteq I!Source
  BY DEF I!NewSource, I!Source

\* The steps that only begin a request.
LEMMA DraftBeginsTyped ==
  ASSUME I!IInv, stage # "none", NEW r \in I!RequestRow, I!Take(r),
         r.kind \in {"update", "publish"} => r.by \in Office,
         UNCHANGED <<stage, deleted, owner, submitted, title, auto, attached>>
  PROVE  I!IInv'
  BY DEF I!IInv, I!TypeOK, I!OfficeRequests, I!UnbornUnowned, I!Take

\* The inductive invariant is kept by every step.
LEMMA DraftStep ==
  ASSUME OwnerApart, I!IInv, [I!Next]_(I!vars)
  PROVE  I!IInv'
<1> USE PeopleAssumption DEF OwnerApart
<1>1. ASSUME NEW pm \in Office, I!Store(pm) PROVE I!IInv'
  BY <1>1 DEF I!IInv, I!TypeOK, I!OfficeRequests, I!UnbornUnowned, I!Store, I!OfficeForm, I!Titles, I!Owners
<1>2. CASE I!StoreProject
  <2>1. attached' \subseteq I!Source
    BY <1>2, DraftSourceTyped DEF I!IInv, I!TypeOK, I!StoreProject, I!ClientForm, I!Senders
  <2> QED
    BY <1>2, <2>1 DEF I!IInv, I!TypeOK, I!OfficeRequests, I!UnbornUnowned, I!StoreProject, I!ClientForm, I!Titles, I!Owners
<1>3. ASSUME NEW pm \in Office, I!StartUpdate(pm) PROVE I!IInv'
  <2>1. pm \in I!Senders /\ I!UpdateBy(pm) \in I!RequestRow
    BY DraftRequestsTyped DEF I!Senders
  <2>2. I!UpdateBy(pm).by = pm
    BY DEF I!UpdateBy, I!Request
  <2> QED
    BY <1>3, <2>1, <2>2, DraftBeginsTyped DEF I!StartUpdate
<1>4. ASSUME NEW pm \in Office, I!StartPublish(pm) PROVE I!IInv'
  <2>1. pm \in I!Senders /\ I!Request("publish", pm) \in I!RequestRow
    BY DraftRequestsTyped DEF I!Senders
  <2>2. I!Request("publish", pm).by = pm
    BY DEF I!Request
  <2> QED
    BY <1>4, <2>1, <2>2, DraftBeginsTyped DEF I!StartPublish
<1>5. ASSUME NEW by \in I!Senders, I!StartUpload(by) PROVE I!IInv'
  <2>1. I!UploadBy(by) \in I!RequestRow
    BY DraftRequestsTyped
  <2>2. I!UploadBy(by).kind = "upload"
    BY DEF I!UploadBy, I!Request
  <2> QED
    BY <1>5, <2>1, <2>2, DraftBeginsTyped DEF I!StartUpload
<1>6. ASSUME NEW by \in I!Senders, NEW s \in attached, I!StartRemove(by, s) PROVE I!IInv'
  <2>1. I!RemoveBy(by, s) \in I!RequestRow
    BY DraftRequestsTyped
  <2>2. I!RemoveBy(by, s).kind = "remove"
    BY DEF I!RemoveBy, I!Request
  <2> QED
    BY <1>6, <2>1, <2>2, DraftBeginsTyped DEF I!StartRemove
<1>7. CASE I!Withdraw \/ I!Cancel \/ I!Destroy
  BY <1>7 DEF I!IInv, I!TypeOK, I!OfficeRequests, I!UnbornUnowned, I!Withdraw, I!Cancel, I!Destroy,
              I!Accepted, I!Permitted, I!Matrix, I!Rules, I!Rule
<1>8. ASSUME NEW r \in underway,
             \/ I!Update(r) \/ I!Own(r)
             \/ I!Publish(r) \/ I!AbortPublish(r)
             \/ I!ReadSources(r) \/ I!InsertSource(r) \/ I!NameProject(r) \/ I!AddSources(r)
             \/ I!Remove(r)
      PROVE I!IInv'
  <2>1. r \in I!RequestRow /\ underway \subseteq I!RequestRow
    BY DEF I!IInv, I!TypeOK
  <2>2. /\ r.by \in I!Senders /\ r.title \in I!Titles /\ r.auto \in BOOLEAN
        /\ r.kind \in {"update", "publish"} => r.by \in Office
    BY <2>1 DEF I!RequestRow, I!IInv, I!OfficeRequests
  <2>3. CASE I!Update(r)
    <3>1. /\ [r EXCEPT !.at = "own"] \in I!RequestRow
          /\ [r EXCEPT !.at = "own"].by \in Office
      BY <2>1, <2>2, <2>3, DraftGoOnTyped DEF I!Update
    <3>2. title' \in I!Titles /\ auto' \in BOOLEAN
      BY <2>2, <2>3 DEF I!IInv, I!TypeOK, I!Update, I!Write, I!Titles
    <3> QED
      BY <2>3, <3>1, <3>2 DEF I!IInv, I!TypeOK, I!OfficeRequests, I!UnbornUnowned, I!Update, I!GoOn
  <2>4. CASE I!Own(r)
    BY <2>2, <2>4 DEF I!IInv, I!TypeOK, I!OfficeRequests, I!UnbornUnowned, I!Own, I!ClaimOwnership, I!Drop, I!Owners
  <2>5. CASE I!Publish(r) \/ I!AbortPublish(r)
    BY <2>2, <2>5 DEF I!IInv, I!TypeOK, I!OfficeRequests, I!UnbornUnowned, I!Publish, I!AbortPublish,
                      I!ClaimOwnership, I!Drop, I!Owners
  <2>6. CASE I!ReadSources(r)
    <3>1. (attached # {}) \in BOOLEAN
      OBVIOUS
    <3> DEFINE read == [r EXCEPT !.at = "read", !.had = (attached # {})]
    <3>2. read \in I!RequestRow /\ read.kind = "upload"
      BY <2>1, <2>6, <3>1, DraftGoOnTyped DEF I!ReadSources
    <3>3. underway' = (underway \ {r}) \union {read}
      BY <2>6 DEF I!ReadSources, I!GoOn
    <3> HIDE DEF read
    <3> QED
      BY <2>6, <3>2, <3>3 DEF I!IInv, I!TypeOK, I!OfficeRequests, I!UnbornUnowned, I!ReadSources
  <2>7. CASE I!InsertSource(r)
    <3>1. /\ [r EXCEPT !.at = "stored"] \in I!RequestRow
          /\ [r EXCEPT !.at = "stored"].kind = "upload"
      BY <2>1, <2>7, DraftGoOnTyped DEF I!InsertSource
    <3>2. attached' \subseteq I!Source
      BY <2>2, <2>7, DraftSourceTyped DEF I!IInv, I!TypeOK, I!InsertSource
    <3> QED
      BY <2>7, <3>1, <3>2 DEF I!IInv, I!TypeOK, I!OfficeRequests, I!UnbornUnowned, I!InsertSource, I!GoOn
  <2>8. CASE I!NameProject(r) \/ I!AddSources(r)
    <3>1. attached' \subseteq I!Source
      BY <2>8, DraftSourceTyped DEF I!IInv, I!TypeOK, I!NameProject, I!AddSources, I!Senders
    <3> QED
      BY <2>8, <3>1 DEF I!IInv, I!TypeOK, I!OfficeRequests, I!UnbornUnowned, I!NameProject, I!AddSources,
                        I!Name, I!Drop, I!Titles
  <2>9. CASE I!Remove(r)
    BY <2>9 DEF I!IInv, I!TypeOK, I!OfficeRequests, I!UnbornUnowned, I!Remove, I!Drop
  <2> QED
    BY <1>8, <2>3, <2>4, <2>5, <2>6, <2>7, <2>8, <2>9
<1>9. CASE UNCHANGED I!vars
  BY <1>9 DEF I!vars, I!IInv, I!TypeOK, I!OfficeRequests, I!UnbornUnowned
<1> QED
  BY <1>1, <1>2, <1>3, <1>4, <1>5, <1>6, <1>7, <1>8, <1>9 DEF I!Next

LEMMA DraftInit == I!Init => I!IInv
  BY DEF I!Init, I!IInv, I!TypeOK, I!OfficeRequests, I!UnbornUnowned, I!Owners, I!Titles

\* The inductive invariant holds throughout.
THEOREM DraftInvariance ==
  ASSUME OwnerApart
  PROVE  I!Spec => []I!IInv
<1>1. I!Init => I!IInv
  BY DraftInit
<1>2. I!IInv /\ [I!Next]_(I!vars) => I!IInv'
  BY DraftStep
<1> QED
  BY <1>1, <1>2, PTL DEF I!Spec

\* Every variable of the draft keeps its type.
THEOREM DraftTypeCorrect ==
  ASSUME OwnerApart
  PROVE  I!Spec => []I!TypeOK
<1>1. I!IInv => I!TypeOK
  BY DEF I!IInv
<1> QED
  BY <1>1, DraftInvariance, PTL

\* However many Office edit and publish at once, the first to own a project keeps it.
THEOREM OwnerStays ==
  ASSUME OwnerApart
  PROVE  I!Spec => I!OwnerIsFinal
<1>1. I!IInv /\ [I!Next]_(I!vars) => [owner # Nobody => owner' = owner]_(I!vars)
  <2> SUFFICES ASSUME I!IInv, I!Next, owner # Nobody PROVE owner' = owner
    BY DEF I!vars
  <2>1. stage # "none"
    BY DEF I!IInv, I!UnbornUnowned
  <2> QED
    BY <2>1 DEF I!Next, I!Store, I!OfficeForm, I!StartUpdate, I!StartPublish, I!StoreProject, I!ClientForm,
      I!Withdraw, I!Cancel,
                I!Destroy, I!StartUpload, I!StartRemove, I!Update, I!Own, I!Publish, I!AbortPublish,
                I!ReadSources, I!InsertSource, I!NameProject, I!AddSources, I!Remove, I!ClaimOwnership
<1> QED
  BY <1>1, DraftInvariance, PTL DEF I!Spec, I!OwnerIsFinal

\* As long as nobody withdraws a draft, no project is published without an owner.
THEOREM PublishedOwned ==
  ASSUME OwnerApart, WithdrawDrafts = FALSE
  PROVE  I!Spec => []I!PublishedIsOwned
<1>1. I!Init => I!PublishedIsOwned
  BY DEF I!Init, I!PublishedIsOwned, I!Published
<1>2. I!IInv /\ I!PublishedIsOwned /\ [I!Next]_(I!vars) => I!PublishedIsOwned'
  <2> SUFFICES ASSUME I!IInv, I!PublishedIsOwned, [I!Next]_(I!vars) PROVE I!PublishedIsOwned'
    OBVIOUS
  <2>1. ASSUME NEW r \in underway, I!Publish(r) PROVE I!PublishedIsOwned'
    <3>1. r.by \in Office
      BY <2>1 DEF I!IInv, I!OfficeRequests, I!Publish
    <3> QED
      BY <2>1, <3>1, OwnerApart
      DEF OwnerApart, I!PublishedIsOwned, I!Publish, I!ClaimOwnership, I!Accepted
  <2>2. CASE owner' = owner /\ stage' = stage
    BY <2>2 DEF I!PublishedIsOwned, I!Published
  <2>3. CASE stage' \in {"draft", "cancelled"}
    BY <2>3 DEF I!PublishedIsOwned, I!Published
  <2>4. ASSUME NEW r \in underway, I!Own(r) PROVE I!PublishedIsOwned'
    <3>1. r.by \in Office
      BY <2>4 DEF I!IInv, I!OfficeRequests, I!Own
    <3> QED
      BY <2>4, <3>1, OwnerApart
      DEF OwnerApart, I!PublishedIsOwned, I!Published, I!Own, I!ClaimOwnership
  <2> QED
    BY <2>1, <2>2, <2>3, <2>4
    DEF I!Next, I!vars, I!Store, I!OfficeForm, I!StartUpdate, I!StartPublish, I!StoreProject, I!ClientForm,
      I!Withdraw, I!Cancel,
        I!Destroy, I!StartUpload, I!StartRemove, I!Update, I!AbortPublish,
        I!ReadSources, I!InsertSource, I!NameProject, I!AddSources, I!Remove
<1> QED
  BY <1>1, <1>2, DraftInvariance, PTL DEF I!Spec

=============================================================================
