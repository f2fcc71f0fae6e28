--------------------------- MODULE CountingProofs ---------------------------
(***************************************************************************)
(* Proofs about Counting, for any number of files and requests, every mode *)
(* and every fault.                                                        *)
(***************************************************************************)
EXTENDS Counting, TLAPS

-----------------------------------------------------------------------------
(* Rows and sums.                                                          *)

LEMMA RowTypes ==
  /\ Unused \in Rows /\ Gone \in Rows
  /\ \A words \in Number : Row(words, "done", "manual") \in Rows
  /\ Outcomes \subseteq Rows
  /\ \A new \in Outcomes : new.source # "manual" /\ new.count \notin {"unused", "gone"}
  /\ Row(0, "pending", "auto") \in Rows
BY DEF Unused, Gone, Row, Rows, Outcomes, Number

\* A row written column by column.
Merged(row, copy, new) ==
  [words  |-> IF new.words = copy.words THEN row.words ELSE new.words,
   count  |-> IF new.count = copy.count THEN row.count ELSE new.count,
   source |-> IF new.source = copy.source THEN row.source ELSE new.source]

LEMMA SavedIs ==
  ASSUME file \in [Files -> Rows], NEW f \in Files, NEW copy \in Rows, NEW new \in Rows,
         file' = Saved(f, copy, new)
  PROVE  /\ file' \in [Files -> Rows] /\ \A g \in Files \ {f} : file'[g] = file[g]
         /\ ~There(f) => file' = file
         /\ There(f) => file'[f] = Merged(file[f], copy, new)
<1> DEFINE row == [c \in DOMAIN new |-> IF new[c] = copy[c] THEN file[f][c] ELSE new[c]]
<1>1. file[f] \in Rows
  OBVIOUS
<1>2. DOMAIN new = {"words", "count", "source"}
  BY DEF Rows
<1>3. row = Merged(file[f], copy, new)
  BY <1>1, <1>2 DEF Merged, Rows
<1>4. Merged(file[f], copy, new) \in Rows
  BY <1>1 DEF Merged, Rows
<1>5. file' = IF There(f) THEN [file EXCEPT ![f] = row] ELSE file
  BY DEF Saved
<1>6. QED
  BY <1>3, <1>4, <1>5

LEMMA SumTyped ==
  ASSUME file \in [Files -> Rows]
  PROVE  Sum \in Totals
<1>1. [f \in Files |-> file[f].words] \in [Files -> Number]
  BY DEF Rows
<1>2. QED
  BY <1>1, SumAssumption DEF Sum, Totals

LEMMA SameSum ==
  ASSUME file \in [Files -> Rows], file' \in [Files -> Rows],
         \A f \in Files : file'[f].words = file[f].words
  PROVE  Sum' = Sum
<1>1. [f \in Files |-> file[f].words] = [f \in Files |-> file'[f].words]
  OBVIOUS
<1>2. QED
  BY <1>1 DEF Sum

\* What a step leaves alone of a file whose first attempt is still to come, and of one
\* whose number is owed to the total.
LEMMA SameTry ==
  ASSUME NEW g \in Files, UNCHANGED <<job, worker>>
  PROVE  FirstTry(g)' = FirstTry(g)
BY DEF FirstTry

LEMMA SameOwed ==
  ASSUME NEW g \in Files, file'[g] = file[g], job'[g] = job[g]
  PROVE  Owes(g)' = Owes(g)
BY DEF Owes, Untyped, There

-----------------------------------------------------------------------------
(* The API.                                                                *)

LEMMA ActorTyped ==
  ASSUME TypeOK, NEW at, NEW f \in Files
  PROVE  /\ at \in {"dispatch", "manual", "remove", "start", "load"} =>
              Actor(at, f) \in Actors /\ Loaded(at, f) \in Actors
         /\ Actor(at, f) = [at |-> at, file |-> f, copy |-> Unused, loaded |-> 0, sum |-> 0]
         /\ Loaded(at, f) = [at |-> at, file |-> f, copy |-> Unused, loaded |-> total, sum |-> 0]
<1>1. 0 \in Totals
  BY CountingBounds DEF Totals, Typed
<1>2. QED
  BY <1>1, RowTypes DEF Actor, Loaded, Actors, TypeOK

LEMMA UploadInv ==
  ASSUME IInv, NEW f \in Files, Upload(f)
  PROVE  IInv'
<1> USE DEF IInv
<1> DEFINE r == Actor("dispatch", f)
<1>1. /\ r \in Actors /\ r.at = "dispatch" /\ r.file = f /\ r = Actor("dispatch", r.file)
  BY ActorTyped DEF Actor
<1>2. /\ file[f] = Unused /\ file' = [file EXCEPT ![f] = Row(0, "pending", "auto")]
      /\ requests' = requests \union {r}
      /\ UNCHANGED <<mode, total, job, worker, recount>>
      /\ Serial => ~Working
  BY DEF Upload, Room
<1>3. file' \in [Files -> Rows] /\ \A g \in Files \ {f} : file'[g] = file[g]
  BY <1>2, RowTypes DEF TypeOK
<1>4. /\ file[f].count = "unused" /\ file[f].words = 0 /\ job[f].state = "none"
      /\ file'[f].count = "pending" /\ file'[f].words = 0 /\ file'[f].source = "auto"
  BY <1>2, <1>3 DEF Unused, Row, ActorsHold, TypeOK
<1>5. Sum' = Sum
  BY <1>3, <1>4, SameSum DEF TypeOK
<1> HIDE DEF r
<1>6. TypeOK'
  BY <1>1, <1>2, <1>3 DEF TypeOK
<1>7. ActorsHold'
  BY <1>1, <1>2, <1>3, <1>4 DEF ActorsHold
<1>8. Alone'
  BY <1>1, <1>2 DEF Alone, Serial, Working, Recounting
<1>9. CountFirst'
  <2>1. \A g \in Files : FirstTry(g)' = FirstTry(g)
    BY <1>2, SameTry
  <2>2. QED
    BY <1>1, <1>2, <1>3, <1>4, <2>1 DEF CountFirst, Serial, There, Unsettled, ActorsHold
<1>10. NotTyped'
  BY <1>2 DEF NotTyped, Serial, Working, Recounting, Idle, Actor
<1>11. Summed'
  <2>1. \A g \in Files : Owes(g) => Owes(g)'
    BY <1>2, <1>3, <1>4 DEF Owes, Untyped, There
  <2>2. QED
    BY <1>1, <1>2, <1>5, <2>1 DEF Summed, Summing, SumKnown, AtTotals, Serial, Recounting
<1>12. QED
  BY <1>6, <1>7, <1>8, <1>9, <1>10, <1>11

LEMMA DispatchInv ==
  ASSUME IInv, NEW r \in requests, Dispatch(r) \/ LoseDispatch(r)
  PROVE  IInv'
<1> USE DEF IInv
<1>1. PICK state \in {"queued", "lost"} :
        /\ r.at = "dispatch" /\ job' = [job EXCEPT ![r.file].state = state]
        /\ requests' = requests \ {r}
        /\ UNCHANGED <<mode, file, total, worker, recount>>
  BY DEF Dispatch, LoseDispatch, Drop
<1>2. /\ r.file \in Files /\ r = Actor("dispatch", r.file) /\ file[r.file].count # "unused"
      /\ job[r.file].state = "none"
  BY <1>1 DEF ActorsHold
<1>3. /\ job' \in [Files -> [state : {"none", "lost", "queued", "reserved", "done"}, tries : 0..Tries]]
      /\ job'[r.file].state = state /\ \A g \in Files \ {r.file} : job'[g] = job[g]
  BY <1>1, <1>2 DEF TypeOK
<1>4. Sum' = Sum
  BY <1>1, SameSum DEF TypeOK
<1>5. TypeOK'
  BY <1>1, <1>3 DEF TypeOK
<1>6. ActorsHold'
  <2>1. worker # Idle => worker.file # r.file
    BY <1>2 DEF ActorsHold
  <2>2. \A q \in requests' : q.at = "dispatch" => q.file # r.file
    BY <1>1, <1>2 DEF ActorsHold
  <2>3. QED
    BY <1>1, <1>2, <1>3, <2>1, <2>2 DEF ActorsHold
<1>7. Alone'
  BY <1>1 DEF Alone, Serial, Recounting
<1>8. CountFirst'
  <2>1. \A g \in Files : FirstTry(g)' => FirstTry(g)
    BY <1>1, <1>2, <1>3 DEF FirstTry
  <2>2. QED
    BY <1>1, <2>1 DEF CountFirst, There, Serial
<1>9. NotTyped'
  BY <1>1 DEF NotTyped, Untyped, There, Serial
<1>10. Summed'
  <2>1. \A g \in Files : Owes(g) => Owes(g)'
    BY <1>1, <1>2, <1>3 DEF Owes, Untyped, There
  <2>2. QED
    BY <1>1, <1>4, <2>1 DEF Summed, Summing, SumKnown, AtTotals, Serial, Recounting
<1>11. QED
  BY <1>5, <1>6, <1>7, <1>8, <1>9, <1>10

LEMMA StartInv ==
  ASSUME IInv, NEW f \in Files, StartManual(f) \/ StartRemove(f)
  PROVE  IInv'
<1> USE DEF IInv
<1>1. PICK r :
        /\ r \in Actors /\ r.at \in {"manual", "remove"} /\ r.file = f /\ r.loaded = total
        /\ r.at = "manual" => ManualAllowed(f)
        /\ file[f].count # "unused"
        /\ requests' = requests \union {r}
        /\ UNCHANGED <<mode, file, total, job, worker, recount>>
        /\ Serial => ~Working
  <2>1. CASE StartManual(f)
    <3> DEFINE r == [Loaded("manual", f) EXCEPT !.copy = file[f]]
    <3>1. r = [at |-> "manual", file |-> f, copy |-> file[f], loaded |-> total, sum |-> 0]
      BY ActorTyped
    <3>2. file[f] \in Rows /\ total \in Totals /\ 0 \in Totals
      BY CountingBounds DEF TypeOK, Totals, Typed
    <3>3. r \in Actors
      BY <3>1, <3>2 DEF Actors
    <3>4. QED
      BY <2>1, <3>1, <3>3 DEF StartManual, Room, ManualAllowed
  <2>2. CASE StartRemove(f)
    <3> DEFINE r == Loaded("remove", f)
    <3>1. r \in Actors /\ r.at = "remove" /\ r.file = f /\ r.loaded = total
      BY ActorTyped
    <3>2. QED
      BY <2>2, <3>1 DEF StartRemove, Room, There
  <2>3. QED
    BY <2>1, <2>2
<1>2. Sum' = Sum
  BY <1>1, SameSum DEF TypeOK
<1>3. TypeOK'
  BY <1>1 DEF TypeOK
<1>4. ActorsHold'
  BY <1>1 DEF ActorsHold
<1>5. Alone'
  BY <1>1 DEF Alone, Serial, Working, Recounting
<1>6. CountFirst'
  <2>1. \A g \in Files : FirstTry(g)' = FirstTry(g)
    BY <1>1, SameTry
  <2>2. r.at = "manual" /\ ~Serial /\ recount.at = "idle" => ~FirstTry(f)
    BY <1>1 DEF CountFirst, There, ManualAllowed, Unsettled
  <2>3. QED
    BY <1>1, <2>1, <2>2 DEF CountFirst, There, Serial
<1>7. NotTyped'
  BY <1>1 DEF NotTyped, Untyped, There, Serial
<1>8. Summed'
  <2>1. \A g \in Files : Owes(g)' = Owes(g)
    BY <1>1, SameOwed
  <2>2. QED
    BY <1>1, <1>2, <2>1 DEF Summed, Summing, SumKnown, AtTotals, Serial, Recounting, Working
<1>9. QED
  BY <1>3, <1>4, <1>5, <1>6, <1>7, <1>8

\* Of those who take turns, a request that is at work is the only one.
LEMMA OneAtWork ==
  ASSUME IInv, NEW r \in requests
  PROVE  Serial => /\ requests = {r} /\ \A q \in requests : q = r
                   /\ worker = Idle /\ worker.at = "idle"
                   /\ ~Recounting /\ recount.at \in {"idle", "done"}
BY DEF IInv, Alone, Serial, Recounting, Idle, Actor

LEMMA SaveManualInv ==
  ASSUME IInv, NEW r \in requests, SaveManual(r)
  PROVE  IInv'
<1> USE DEF IInv
<1> DEFINE next == [r EXCEPT !.at = "sum", !.copy = Unused]
<1>1. PICK words \in {Typed, r.copy.words} : file' = Saved(r.file, r.copy, Row(words, "done", "manual"))
  BY DEF SaveManual
<1>2. /\ r.at = "manual" /\ requests' = (requests \ {r}) \union {next}
      /\ UNCHANGED <<mode, total, job, worker, recount>>
  BY DEF SaveManual, GoOn
<1>3. r \in Actors /\ r.file \in Files /\ r.copy \in Rows /\ file[r.file].count # "unused"
  BY DEF TypeOK, Actors, ActorsHold
<1>4. next \in Actors /\ next.at = "sum" /\ next.file = r.file /\ next.loaded = r.loaded
  BY <1>3, RowTypes DEF Actors
<1>5. Row(words, "done", "manual") \in Rows
  BY <1>3, RowTypes DEF Rows, Number, Typed
<1> DEFINE typed == Row(words, "done", "manual")
<1>6. /\ file' \in [Files -> Rows] /\ \A g \in Files \ {r.file} : file'[g] = file[g]
      /\ ~There(r.file) => file' = file
      /\ There(r.file) => file'[r.file] = Merged(file[r.file], r.copy, typed)
  <2>1. file \in [Files -> Rows]
    BY DEF TypeOK
  <2>2. typed \in Rows /\ file' = Saved(r.file, r.copy, typed)
    BY <1>1, <1>5
  <2> HIDE DEF typed
  <2>3. QED
    BY <1>3, <2>1, <2>2, SavedIs
<1>7. file'[r.file].count # "unused" /\ (There(r.file)' => There(r.file))
  BY <1>3, <1>6 DEF Merged, Row, There
<1> HIDE DEF next
<1>8. TypeOK'
  BY <1>2, <1>4, <1>6 DEF TypeOK
<1>9. ActorsHold'
  BY <1>2, <1>3, <1>4, <1>6, <1>7 DEF ActorsHold
<1>10. Alone'
  BY <1>2, OneAtWork DEF Alone, Serial, Recounting
<1>11. CountFirst'
  <2>1. \A g \in Files : FirstTry(g)' = FirstTry(g)
    BY <1>2, SameTry
  <2>2. ~Serial /\ recount.at = "idle" /\ There(r.file) => ~FirstTry(r.file)
    BY <1>2, <1>3 DEF CountFirst
  <2>3. QED
    BY <1>2, <1>4, <1>6, <1>7, <2>1, <2>2 DEF CountFirst, There, Serial
<1>12. NotTyped'
  BY <1>2, OneAtWork DEF NotTyped, Serial
<1>13. Summed'
  <2>1. Serial => requests' = {next} /\ next.loaded = total
    BY <1>2, <1>4, OneAtWork DEF Summed
  <2>2. QED
    BY <1>2, <1>4, <2>1, OneAtWork DEF Summed, Summing, SumKnown, AtTotals, Serial, Recounting
<1>14. QED
  BY <1>8, <1>9, <1>10, <1>11, <1>12, <1>13

LEMMA RemoveInv ==
  ASSUME IInv, NEW r \in requests, Remove(r)
  PROVE  IInv'
<1> USE DEF IInv
<1> DEFINE next == [r EXCEPT !.at = "sum"]
<1>1. /\ r.at = "remove" /\ file' = [file EXCEPT ![r.file] = Gone]
      /\ requests' = (requests \ {r}) \union {next}
      /\ UNCHANGED <<mode, total, job, worker, recount>>
  BY DEF Remove, GoOn
<1>2. r \in Actors /\ r.file \in Files
  BY DEF TypeOK, Actors, ActorsHold
<1>3. next \in Actors /\ next.at = "sum" /\ next.file = r.file /\ next.loaded = r.loaded
  BY <1>2 DEF Actors
<1>4. /\ file' \in [Files -> Rows] /\ file'[r.file] = Gone
      /\ \A g \in Files \ {r.file} : file'[g] = file[g]
  BY <1>1, <1>2, RowTypes DEF TypeOK
<1>5. file'[r.file].count = "gone" /\ file'[r.file].source # "manual"
  BY <1>4 DEF Gone, Row
<1> HIDE DEF next
<1>6. TypeOK'
  BY <1>1, <1>3, <1>4 DEF TypeOK
<1>7. ActorsHold'
  BY <1>1, <1>2, <1>3, <1>4, <1>5 DEF ActorsHold
<1>8. Alone'
  BY <1>1, OneAtWork DEF Alone, Serial, Recounting
<1>9. CountFirst'
  <2>1. \A g \in Files : FirstTry(g)' = FirstTry(g)
    BY <1>1, SameTry
  <2>2. QED
    BY <1>1, <1>2, <1>3, <1>4, <1>5, <2>1 DEF CountFirst, There, Serial
<1>10. NotTyped'
  BY <1>1, OneAtWork DEF NotTyped, Serial
<1>11. Summed'
  <2>1. Serial => requests' = {next} /\ next.loaded = total
    BY <1>1, <1>3, OneAtWork DEF Summed
  <2>2. QED
    BY <1>1, <1>3, <2>1, OneAtWork DEF Summed, Summing, SumKnown, AtTotals, Serial, Recounting
<1>12. QED
  BY <1>6, <1>7, <1>8, <1>9, <1>10, <1>11

LEMMA RequestTotalsInv ==
  ASSUME IInv, NEW r \in requests, RequestSum(r) \/ RequestWrite(r)
  PROVE  IInv'
<1> USE DEF IInv
<1>1. r \in Actors /\ r.file \in Files /\ file[r.file].count # "unused"
  BY DEF TypeOK, Actors, ActorsHold
<1>2. UNCHANGED <<mode, file, job, worker, recount>>
  BY DEF RequestSum, RequestWrite
<1>3. Sum' = Sum /\ Sum \in Totals
  BY <1>2, SameSum, SumTyped DEF TypeOK
<1>4. CASE RequestSum(r)
  <2> DEFINE next == ReadSum(r)
  <2>1. r.at = "sum" /\ requests' = (requests \ {r}) \union {next} /\ total' = total
    BY <1>4 DEF RequestSum, GoOn
  <2>2. /\ next \in Actors /\ next.at = "write" /\ next.file = r.file /\ next.loaded = r.loaded
        /\ next.sum = Sum
    BY <1>1, <1>3 DEF Actors, ReadSum
  <2> HIDE DEF next
  <2>3. TypeOK'
    BY <1>2, <2>1, <2>2 DEF TypeOK
  <2>4. ActorsHold'
    BY <1>1, <1>2, <2>1, <2>2 DEF ActorsHold
  <2>5. Alone'
    BY <1>2, <2>1, OneAtWork DEF Alone, Serial, Recounting
  <2>6. CountFirst'
    BY <1>2, <2>1, <2>2, SameTry DEF CountFirst, There, Serial
  <2>7. NotTyped'
    BY <1>2 DEF NotTyped, Untyped, There, Serial
  <2>8. Summed'
    <3>1. Serial => requests' = {next} /\ next.loaded = total
      BY <2>1, <2>2, OneAtWork DEF Summed, SumKnown
    <3>2. QED
      BY <1>2, <1>3, <2>1, <2>2, <3>1, OneAtWork
      DEF Summed, Summing, SumKnown, AtTotals, Serial, Recounting
  <2>9. QED
    BY <2>3, <2>4, <2>5, <2>6, <2>7, <2>8
<1>5. CASE RequestWrite(r)
  <2>1. r.at = "write" /\ requests' = requests \ {r} /\ WriteSum(r)
    BY <1>5 DEF RequestWrite, Drop
  <2>2. total' \in Totals /\ (Serial => total' = Sum)
    BY <1>1, <2>1 DEF WriteSum, Actors, TypeOK, Summed, SumKnown
  <2>3. TypeOK'
    BY <1>2, <2>1, <2>2 DEF TypeOK
  <2>4. ActorsHold'
    BY <1>2, <2>1 DEF ActorsHold
  <2>5. Alone'
    BY <1>2, <2>1 DEF Alone, Serial, Recounting
  <2>6. CountFirst'
    BY <1>2, <2>1, SameTry DEF CountFirst, There, Serial
  <2>7. NotTyped'
    BY <1>2 DEF NotTyped, Untyped, There, Serial
  <2>8. Summed'
    BY <1>2, <1>3, <2>1, <2>2, OneAtWork DEF Summed, Summing, SumKnown, AtTotals, Serial, Recounting
  <2>9. QED
    BY <2>3, <2>4, <2>5, <2>6, <2>7, <2>8
<1>6. QED
  BY <1>4, <1>5

-----------------------------------------------------------------------------
(* The worker.                                                             *)

\* A worker on a job: its file, and who else is at work.
LEMMA WorkerOn ==
  ASSUME IInv, worker # Idle
  PROVE  /\ worker \in Actors /\ worker.file \in Files /\ worker.copy \in Rows
         /\ worker.at # "idle" /\ job[worker.file].state = "reserved"
         /\ job[worker.file].tries \in 1..Tries /\ file[worker.file].count # "unused"
         /\ Serial => requests = {} /\ ~Recounting /\ recount.at \in {"idle", "done"}
BY DEF IInv, TypeOK, Actors, ActorsHold, Alone, Serial, Recounting, Tries

LEMMA TakeJobInv ==
  ASSUME IInv, NEW f \in Files, TakeJob(f)
  PROVE  IInv'
<1> USE DEF IInv
<1> DEFINE next == Actor("start", f)
<1>1. /\ worker = Idle /\ job[f].state = "queued"
      /\ job' = [job EXCEPT ![f] = [state |-> "reserved", tries |-> @.tries + 1]]
      /\ worker' = next /\ UNCHANGED <<mode, file, total, recount, requests>>
      /\ Serial => ~Working
  BY DEF TakeJob
<1>2. next \in Actors /\ next.at = "start" /\ next.file = f /\ next # Idle
  BY ActorTyped DEF Actor, Idle
<1>3. worker.at = "idle"
  BY <1>1 DEF Idle, Actor
<1>4. /\ job[f].tries \in 0..Tries /\ job[f].tries < Tries
      /\ job'[f] = [state |-> "reserved", tries |-> job[f].tries + 1]
      /\ \A g \in Files \ {f} : job'[g] = job[g]
  BY <1>1 DEF TypeOK, ActorsHold
<1>5. job'[f].state = "reserved" /\ job'[f].tries \in 0..Tries
  BY <1>4 DEF Tries
<1>6. Sum' = Sum
  BY <1>1, SameSum DEF TypeOK
<1> HIDE DEF next
<1>7. TypeOK'
  BY <1>1, <1>2, <1>4, <1>5 DEF TypeOK
<1>8. ActorsHold'
  BY <1>1, <1>2, <1>3, <1>4, <1>5 DEF ActorsHold
<1>9. Alone'
  BY <1>1, <1>2 DEF Alone, Serial, Working, Recounting
<1>10. CountFirst'
  <2>1. \A g \in Files : FirstTry(g)' => FirstTry(g)
    BY <1>1, <1>2, <1>3, <1>4, <1>5 DEF FirstTry, Tries
  <2>2. QED
    BY <1>1, <2>1 DEF CountFirst, There, Serial
<1>11. NotTyped'
  BY <1>1, <1>2 DEF NotTyped, Serial
<1>12. Summed'
  <2>1. \A g \in Files : Owes(g) => Owes(g)'
    BY <1>1, <1>4, <1>5 DEF Owes, Untyped, There, Tries
  <2>2. QED
    BY <1>1, <1>2, <1>3, <1>6, <2>1 DEF Summed, Summing, SumKnown, AtTotals, Serial, Recounting, Working
<1>13. QED
  BY <1>7, <1>8, <1>9, <1>10, <1>11, <1>12

\* The job is over: a file that is not there, a typed number, or the totals written.
LEMMA DoneIs ==
  ASSUME TypeOK, NEW f \in Files, Done(f)
  PROVE  /\ job' \in [Files -> [state : {"none", "lost", "queued", "reserved", "done"}, tries : 0..Tries]]
         /\ job'[f].state = "done" /\ \A g \in Files \ {f} : job'[g] = job[g]
BY DEF TypeOK, Done

LEMMA BeginInv ==
  ASSUME IInv, Begin
  PROVE  IInv'
<1> USE DEF IInv
<1> DEFINE f == worker.file
<1>1. worker.at = "start" /\ worker # Idle /\ UNCHANGED <<mode, file, total, recount, requests>>
  BY DEF Begin, Idle, Actor
<1>2. /\ worker \in Actors /\ f \in Files /\ job[f].state = "reserved" /\ file[f].count # "unused"
      /\ Serial => requests = {} /\ ~Recounting /\ recount.at \in {"idle", "done"}
  BY <1>1, WorkerOn
<1>3. Sum' = Sum
  BY <1>1, SameSum DEF TypeOK
<1>4. CASE There(f) /\ file[f].source # "manual"
  <2> DEFINE next == [worker EXCEPT !.at = "mark", !.copy = file[f]]
  <2>1. worker' = next /\ job' = job
    BY <1>4 DEF Begin
  <2>2. next \in Actors /\ next.at = "mark" /\ next.file = f /\ next # Idle
    BY <1>2 DEF Actors, TypeOK, Idle, Actor
  <2> HIDE DEF next
  <2>3. TypeOK'
    BY <1>1, <2>1, <2>2 DEF TypeOK
  <2>4. ActorsHold'
    BY <1>1, <1>2, <2>1, <2>2 DEF ActorsHold
  <2>5. Alone'
    BY <1>1, <1>2, <2>1 DEF Alone, Serial, Recounting
  <2>6. CountFirst'
    <3>1. \A g \in Files : FirstTry(g)' => FirstTry(g)
      BY <1>1, <2>1, <2>2 DEF FirstTry
    <3>2. QED
      BY <1>1, <3>1 DEF CountFirst, There, Serial
  <2>7. NotTyped'
    BY <1>1, <1>2, <1>4, <2>1, <2>2 DEF NotTyped, Untyped, There, Serial
  <2>8. Summed'
    <3>1. \A g \in Files : Owes(g)' = Owes(g)
      BY <1>1, <2>1, SameOwed
    <3>2. QED
      BY <1>1, <1>2, <1>3, <2>1, <2>2, <3>1 DEF Summed, Summing, SumKnown, AtTotals, Serial, Recounting
  <2>9. QED
    BY <2>3, <2>4, <2>5, <2>6, <2>7, <2>8
<1>5. CASE ~(There(f) /\ file[f].source # "manual")
  <2>1. worker' = Idle /\ Done(f)
    BY <1>5 DEF Begin
  <2>2. Idle \in Actors /\ Idle.at = "idle"
    BY CountingBounds, RowTypes DEF Idle, Actor, Actors, Totals, Typed
  <2>3. /\ job' \in [Files -> [state : {"none", "lost", "queued", "reserved", "done"}, tries : 0..Tries]]
        /\ job'[f].state = "done" /\ \A g \in Files \ {f} : job'[g] = job[g]
    BY <1>2, <2>1, DoneIs
  <2>4. TypeOK'
    BY <1>1, <2>1, <2>2, <2>3 DEF TypeOK
  <2>5. ActorsHold'
    BY <1>1, <1>2, <2>1, <2>2, <2>3 DEF ActorsHold
  <2>6. Alone'
    BY <1>1, <1>2, <2>1 DEF Alone, Serial, Recounting
  <2>7. CountFirst'
    <3>1. \A g \in Files : FirstTry(g)' => FirstTry(g)
      BY <1>1, <1>2, <2>1, <2>2, <2>3 DEF FirstTry
    <3>2. QED
      BY <1>1, <3>1 DEF CountFirst, There, Serial
  <2>8. NotTyped'
    BY <1>1, <1>2, <2>1, <2>2 DEF NotTyped, Serial
  <2>9. Summed'
    <3>1. ~Owes(f)
      BY <1>5 DEF Owes, Untyped
    <3>2. \A g \in Files : Owes(g) => Owes(g)'
      BY <1>1, <2>3, <3>1, SameOwed
    <3>3. QED
      BY <1>1, <1>2, <1>3, <2>1, <2>2, <3>2 DEF Summed, Summing, SumKnown, AtTotals, Serial, Recounting
  <2>10. QED
    BY <2>4, <2>5, <2>6, <2>7, <2>8, <2>9
<1>6. QED
  BY <1>4, <1>5

LEMMA MarkInv ==
  ASSUME IInv, MarkProcessing
  PROVE  /\ IInv' /\ \A g \in Files \ {worker.file} : file'[g] = file[g]
         /\ file'[worker.file].source = file[worker.file].source
         /\ file'[worker.file].words = file[worker.file].words
<1> USE DEF IInv
<1> DEFINE f == worker.file
           new == [worker.copy EXCEPT !.count = "processing"]
           next == [worker EXCEPT !.at = "count", !.copy = new]
<1>1. /\ worker.at = "mark" /\ worker # Idle /\ UNCHANGED <<mode, total, job, recount, requests>>
      /\ file' = Saved(f, worker.copy, new) /\ worker' = next
  BY DEF MarkProcessing, Idle, Actor
<1>2. /\ worker \in Actors /\ f \in Files /\ worker.copy \in Rows
      /\ job[f].state = "reserved" /\ job[f].tries # 0 /\ file[f].count # "unused"
      /\ Serial => requests = {} /\ ~Recounting /\ recount.at \in {"idle", "done"}
  BY <1>1, WorkerOn DEF ActorsHold
<1>3. /\ new \in Rows /\ new.words = worker.copy.words /\ new.source = worker.copy.source
      /\ new.count = "processing"
  BY <1>2 DEF Rows
<1>4. next \in Actors /\ next.at = "count" /\ next.file = f /\ next # Idle
  BY <1>2, <1>3 DEF Actors, Idle, Actor
<1>5. file \in [Files -> Rows]
  BY DEF TypeOK
<1> HIDE DEF new
<1>6. /\ file' \in [Files -> Rows] /\ \A g \in Files \ {f} : file'[g] = file[g]
      /\ ~There(f) => file' = file
      /\ There(f) => file'[f] = Merged(file[f], worker.copy, new)
  BY <1>1, <1>2, <1>3, <1>5, SavedIs
<1>7. /\ file'[f].words = file[f].words /\ file'[f].source = file[f].source
      /\ file'[f].count \in {file[f].count, "processing"}
  BY <1>3, <1>6 DEF Merged
<1>8. file'[f].count # "unused" /\ (There(f)' => There(f))
  BY <1>1, <1>2, <1>6, <1>7 DEF There
<1>9. Sum' = Sum
  BY <1>5, <1>6, <1>7, SameSum
<1> HIDE DEF next
<1>10. TypeOK'
  BY <1>1, <1>4, <1>6 DEF TypeOK
<1>11. ActorsHold'
  BY <1>1, <1>2, <1>4, <1>6, <1>8 DEF ActorsHold
<1>12. Alone'
  BY <1>1, <1>2 DEF Alone, Serial, Recounting
<1>13. CountFirst'
  <2>1. \A g \in Files : FirstTry(g)' => FirstTry(g)
    BY <1>1, <1>4 DEF FirstTry
  <2>2. QED
    BY <1>1, <1>6, <1>7, <1>8, <2>1 DEF CountFirst, There, Serial, Unsettled
<1>14. NotTyped'
  <2>1. worker'.file = f
    BY <1>1, <1>4
  <2>2. Untyped(worker.file) => Untyped(worker.file)'
    BY <1>7, <2>1 DEF Untyped, There
  <2>3. Serial => Untyped(f) /\ recount.at # "files"
    BY <1>1, <1>2 DEF NotTyped
  <2>4. QED
    BY <1>1, <2>2, <2>3 DEF NotTyped, Serial
<1>15. Summed'
  <2>1. \A g \in Files : Owes(g) => Owes(g)'
    BY <1>1, <1>2, <1>6, <1>7 DEF Owes, Untyped, There
  <2>2. QED
    BY <1>1, <1>2, <1>4, <1>9, <2>1 DEF Summed, Summing, SumKnown, AtTotals, Serial, Recounting
<1>16. QED
  BY <1>6, <1>7, <1>10, <1>11, <1>12, <1>13, <1>14, <1>15

LEMMA SaveCountInv ==
  ASSUME IInv, SaveCount
  PROVE  /\ IInv' /\ \A g \in Files \ {worker.file} : file'[g] = file[g]
         /\ There(worker.file) /\ file[worker.file].source = "manual" =>
              ~Serial /\ Behind(worker.file)
         /\ ~There(worker.file) => file' = file
<1> USE DEF IInv
<1> DEFINE f == worker.file
           next == Actor("load", f)
<1>1. PICK new \in Outcomes : file' = Saved(f, worker.copy, new)
  BY DEF SaveCount
<1>2. /\ worker.at = "count" /\ worker # Idle /\ UNCHANGED <<mode, total, job, recount, requests>>
      /\ worker' = next
  BY DEF SaveCount, Idle, Actor
<1>3. /\ worker \in Actors /\ f \in Files /\ worker.copy \in Rows
      /\ job[f].state = "reserved" /\ job[f].tries \in 1..Tries /\ file[f].count # "unused"
      /\ Serial => requests = {} /\ ~Recounting /\ recount.at \in {"idle", "done"}
  BY <1>2, WorkerOn
<1>4. next \in Actors /\ next.at = "load" /\ next.file = f /\ next # Idle
  BY <1>3, ActorTyped DEF Idle, Actor
<1>5. /\ file \in [Files -> Rows] /\ new \in Rows
      /\ new.count \notin {"unused", "gone"} /\ new.source # "manual"
  BY RowTypes DEF TypeOK
<1>6. /\ file' \in [Files -> Rows] /\ \A g \in Files \ {f} : file'[g] = file[g]
      /\ ~There(f) => file' = file
      /\ There(f) => file'[f] = Merged(file[f], worker.copy, new)
  BY <1>1, <1>3, <1>5, SavedIs
<1>7. file'[f].count # "unused"
  BY <1>3, <1>5, <1>6 DEF Merged
<1> HIDE DEF next
<1>8. TypeOK'
  BY <1>2, <1>4, <1>6 DEF TypeOK
<1>9. ActorsHold'
  BY <1>2, <1>3, <1>4, <1>6, <1>7 DEF ActorsHold
<1>10. Alone'
  BY <1>2, <1>3 DEF Alone, Serial, Recounting
<1>11. CountFirst'
  <2>1. \A g \in Files : FirstTry(g)' => FirstTry(g) /\ g # f
    BY <1>2, <1>3, <1>4 DEF FirstTry
  <2>2. QED
    BY <1>2, <1>6, <2>1 DEF CountFirst, There, Serial
<1>12. NotTyped'
  <2>1. Serial => Untyped(f)
    BY <1>2 DEF NotTyped
  <2>2. worker'.file = f
    BY <1>2, <1>4
  <2>3. Untyped(worker.file) => Untyped(worker.file)'
    BY <1>5, <1>6, <2>2 DEF Untyped, There, Merged
  <2>4. QED
    BY <1>2, <1>3, <2>1, <2>3 DEF NotTyped, Serial
<1>13. Summed'
  BY <1>2, <1>3, <1>4 DEF Summed, Summing, SumKnown, AtTotals, Serial, Recounting
<1>14. There(f) /\ file[f].source = "manual" => ~Serial /\ Behind(f)
  <2>1. Serial => file[f].source # "manual"
    BY <1>2 DEF NotTyped, Untyped
  <2>2. job[f].tries # Tries => FirstTry(f)
    BY <1>2, <1>3 DEF FirstTry, Tries
  <2>3. There(f) /\ ~Serial /\ recount.at = "idle" /\ FirstTry(f) => file[f].source # "manual"
    BY <1>3 DEF CountFirst
  <2>4. QED
    BY <1>2, <2>1, <2>2, <2>3 DEF Behind
<1>15. QED
  BY <1>6, <1>8, <1>9, <1>10, <1>11, <1>12, <1>13, <1>14

LEMMA WorkerTotalsInv ==
  ASSUME IInv, WorkerTotals
  PROVE  IInv'
<1> USE DEF IInv
<1> DEFINE f == worker.file
<1>1. /\ worker.at \in {"load", "sum", "write"} /\ worker # Idle
      /\ UNCHANGED <<mode, file, recount, requests>>
  BY DEF WorkerTotals, Idle, Actor
<1>2. /\ worker \in Actors /\ f \in Files /\ job[f].state = "reserved" /\ file[f].count # "unused"
      /\ Serial => requests = {} /\ ~Recounting /\ recount.at \in {"idle", "done"}
  BY <1>1, WorkerOn
<1>3. Sum' = Sum /\ Sum \in Totals /\ total \in Totals
  BY <1>1, SameSum, SumTyped DEF TypeOK
<1>4. CASE worker.at \in {"load", "sum"}
  <2> DEFINE next == IF worker.at = "load" THEN LoadTotal(worker) ELSE ReadSum(worker)
  <2>1. worker' = next /\ total' = total /\ job' = job
    BY <1>4 DEF WorkerTotals
  <2>2. /\ next \in Actors /\ next.at \in {"sum", "write"} /\ next.file = f /\ next # Idle
        /\ Serial => next.loaded = total /\ (next.at = "write" => next.sum = Sum)
    BY <1>2, <1>3, <1>4 DEF LoadTotal, ReadSum, Actors, Idle, Actor, Summed, SumKnown
  <2> HIDE DEF next
  <2>3. TypeOK'
    BY <1>1, <2>1, <2>2 DEF TypeOK
  <2>4. ActorsHold'
    BY <1>1, <1>2, <2>1, <2>2 DEF ActorsHold
  <2>5. Alone'
    BY <1>1, <1>2, <2>1 DEF Alone, Serial, Recounting
  <2>6. CountFirst'
    <3>1. \A g \in Files : FirstTry(g)' => FirstTry(g)
      BY <1>1, <2>1, <2>2 DEF FirstTry
    <3>2. QED
      BY <1>1, <3>1 DEF CountFirst, There, Serial
  <2>7. NotTyped'
    BY <1>1, <1>2, <2>1, <2>2 DEF NotTyped, Untyped, There, Serial
  <2>8. Summed'
    BY <1>1, <1>2, <1>3, <2>1, <2>2 DEF Summed, Summing, SumKnown, AtTotals, Serial, Recounting
  <2>9. QED
    BY <2>3, <2>4, <2>5, <2>6, <2>7, <2>8
<1>5. CASE worker.at = "write"
  <2>1. worker' = Idle /\ Done(f) /\ WriteSum(worker)
    BY <1>5 DEF WorkerTotals
  <2>2. Idle \in Actors /\ Idle.at = "idle"
    BY CountingBounds, RowTypes DEF Idle, Actor, Actors, Totals, Typed
  <2>3. /\ job' \in [Files -> [state : {"none", "lost", "queued", "reserved", "done"}, tries : 0..Tries]]
        /\ job'[f].state = "done" /\ \A g \in Files \ {f} : job'[g] = job[g]
    BY <1>2, <2>1, DoneIs
  <2>4. total' \in Totals /\ (Serial => total' = Sum)
    BY <1>2, <1>3, <1>5, <2>1 DEF WriteSum, Actors, Summed, SumKnown
  <2>5. TypeOK'
    BY <1>1, <2>1, <2>2, <2>3, <2>4 DEF TypeOK
  <2>6. ActorsHold'
    BY <1>1, <1>2, <2>1, <2>2, <2>3 DEF ActorsHold
  <2>7. Alone'
    BY <1>1, <1>2, <2>1 DEF Alone, Serial, Recounting
  <2>8. CountFirst'
    <3>1. \A g \in Files : FirstTry(g)' => FirstTry(g)
      BY <1>1, <1>2, <2>1, <2>2, <2>3 DEF FirstTry
    <3>2. QED
      BY <1>1, <3>1 DEF CountFirst, There, Serial
  <2>9. NotTyped'
    BY <1>1, <1>2, <2>1, <2>2 DEF NotTyped, Serial
  <2>10. Summed'
    BY <1>1, <1>2, <1>3, <2>1, <2>2, <2>4 DEF Summed, Summing, SumKnown, AtTotals, Serial, Recounting
  <2>11. QED
    BY <2>5, <2>6, <2>7, <2>8, <2>9, <2>10
<1>6. QED
  BY <1>1, <1>4, <1>5

\* Another attempt, or failed(), which writes the status of a file but not its number.
LEMMA NextTryInv ==
  ASSUME IInv, NEW f \in Files, NEW again \in {"queued", "reserved"},
         job[f].state = "reserved", worker # Idle => worker.file = f,
         NextTry(f, again), worker' = Idle, UNCHANGED <<mode, total, recount, requests>>
  PROVE  /\ IInv'
         /\ \A g \in Files : file'[g].words = file[g].words /\ file'[g].source = file[g].source
<1> USE DEF IInv
<1>1. PICK state \in {again, "done"} :
        /\ job' = [job EXCEPT ![f].state = state]
        /\ state = again => job[f].tries < Tries /\ file' = file
        /\ file' \in {file, [file EXCEPT ![f].count = "failed"]}
        /\ IF There(f) THEN state = "done" => file' = [file EXCEPT ![f].count = "failed"]
                       ELSE file' = file
  <2>1. CASE job[f].tries < Tries
    BY <2>1 DEF NextTry
  <2>2. CASE ~(job[f].tries < Tries) /\ There(f)
    BY <2>2 DEF NextTry, Done, Failed
  <2>3. CASE ~(job[f].tries < Tries) /\ ~There(f)
    BY <2>3 DEF NextTry, Done, Failed
  <2>4. QED
    BY <2>1, <2>2, <2>3
<1>2. /\ job' \in [Files -> [state : {"none", "lost", "queued", "reserved", "done"}, tries : 0..Tries]]
      /\ job'[f].state = state /\ job'[f].tries = job[f].tries
      /\ \A g \in Files \ {f} : job'[g] = job[g]
  BY <1>1 DEF TypeOK
<1>3. /\ file' \in [Files -> Rows] /\ \A g \in Files \ {f} : file'[g] = file[g]
      /\ file'[f].words = file[f].words /\ file'[f].source = file[f].source
      /\ file'[f].count \in {file[f].count, "failed"}
  <2>1. file \in [Files -> Rows]
    BY DEF TypeOK
  <2>2. CASE file' = file
    BY <2>1, <2>2
  <2>3. CASE file' = [file EXCEPT ![f].count = "failed"]
    <3>1. file[f] \in Rows
      BY <2>1
    <3>2. [file[f] EXCEPT !.count = "failed"] \in Rows
      BY <3>1 DEF Rows
    <3>3. file' = [file EXCEPT ![f] = [file[f] EXCEPT !.count = "failed"]]
      BY <2>3
    <3>4. file' \in [Files -> Rows]
      BY <2>1, <3>2, <3>3
    <3>5. \A g \in Files \ {f} : file'[g] = file[g]
      BY <2>1, <3>3
    <3>6. file'[f] = [file[f] EXCEPT !.count = "failed"]
      BY <2>1, <3>3
    <3>7. QED
      BY <3>1, <3>4, <3>5, <3>6 DEF Rows
  <2>4. QED
    BY <1>1, <2>2, <2>3
<1>4. file[f].count # "unused" /\ job[f].tries # 0
  BY DEF ActorsHold
<1>5. ~There(f) => file' = file
  BY <1>1
<1>6. There(f)' = There(f)
  BY <1>3, <1>5 DEF There
<1>7. There(f) /\ state = "done" => file'[f].count = "failed"
  BY <1>1 DEF TypeOK, Rows
<1>8. Idle \in Actors /\ Idle.at = "idle"
  BY CountingBounds, RowTypes DEF Idle, Actor, Actors, Totals, Typed
<1>9. Sum' = Sum
  BY <1>3, <1>4, <1>6, <1>7, SameSum DEF TypeOK
<1>10. TypeOK'
  BY <1>2, <1>3, <1>4, <1>6, <1>7, <1>8 DEF TypeOK
<1>11. ActorsHold'
  <2>1. \A g \in Files : /\ file'[g].count = "unused" => job'[g].state = "none"
                         /\ job'[g].state \in {"none", "queued"} => job'[g].tries < Tries
                         /\ job'[g].state = "reserved" => job'[g].tries # 0
    BY <1>1, <1>2, <1>3, <1>4, <1>6, <1>7 DEF ActorsHold
  <2>2. \A r \in requests : r.at = "dispatch" => r.file # f
    BY DEF ActorsHold
  <2>3. QED
    BY <1>2, <1>3, <1>4, <1>6, <1>7, <1>8, <2>1, <2>2 DEF ActorsHold
<1>12. Alone'
  BY DEF Alone, Serial, Recounting
<1>13. CountFirst'
  <2>1. \A g \in Files : FirstTry(g)' => FirstTry(g) /\ g # f
    BY <1>1, <1>2, <1>3, <1>4, <1>6, <1>7, <1>8 DEF FirstTry
  <2>2. QED
    BY <1>3, <1>4, <1>6, <1>7, <2>1 DEF CountFirst, There, Serial
<1>14. NotTyped'
  BY <1>3, <1>4, <1>6, <1>7, <1>8 DEF NotTyped, Serial, TypeOK
<1>15. Summed'
  <2>1. Untyped(f) => Owes(f)'
    BY <1>1, <1>2, <1>3, <1>4, <1>6, <1>7 DEF Owes, Untyped
  <2>2. \A g \in Files : Owes(g) => Owes(g)'
    BY <1>2, <1>3, <1>4, <1>6, <1>7, <2>1, SameOwed DEF Owes
  <2>3. Serial /\ AtTotals => worker.file = f /\ Untyped(f)
    BY DEF NotTyped, AtTotals, Idle, Actor
  <2>4. QED
    BY <1>8, <1>9, <2>1, <2>2, <2>3 DEF Summed, Summing, SumKnown, AtTotals, Serial, Recounting
<1>16. QED
  BY <1>3, <1>4, <1>6, <1>7, <1>10, <1>11, <1>12, <1>13, <1>14, <1>15

LEMMA FaultInv ==
  ASSUME IInv, Throw \/ Timeout \/ \E f \in Files : Redeliver(f)
  PROVE  /\ IInv'
         /\ \A g \in Files : file'[g].words = file[g].words /\ file'[g].source = file[g].source
<1>1. CASE Throw \/ Timeout
  <2>1. worker # Idle
    BY <1>1 DEF Throw, Timeout, AtRisk
  <2>2. worker.file \in Files /\ job[worker.file].state = "reserved"
    BY <2>1, WorkerOn
  <2>3. PICK again \in {"queued", "reserved"} : NextTry(worker.file, again)
    BY <1>1 DEF Throw, Timeout
  <2>4. worker' = Idle /\ UNCHANGED <<mode, total, recount, requests>>
    BY <1>1 DEF Throw, Timeout
  <2>5. QED
    BY <2>1, <2>2, <2>3, <2>4, NextTryInv
<1>2. CASE \E f \in Files : Redeliver(f)
  <2>1. PICK f \in Files : Redeliver(f)
    BY <1>2
  <2>2. /\ worker = Idle /\ worker' = Idle /\ job[f].state = "reserved" /\ NextTry(f, "queued")
        /\ UNCHANGED <<mode, total, recount, requests>>
    BY <2>1 DEF Redeliver
  <2>3. QED
    BY <2>2, NextTryInv
<1>3. QED
  BY <1>1, <1>2

LEMMA KillInv ==
  ASSUME IInv, Kill
  PROVE  IInv'
<1> USE DEF IInv
<1>1. worker # Idle /\ worker' = Idle /\ UNCHANGED <<mode, file, total, job, recount, requests>>
  BY DEF Kill, AtRisk
<1>2. Idle \in Actors /\ Idle.at = "idle"
  BY CountingBounds, RowTypes DEF Idle, Actor, Actors, Totals, Typed
<1>3. Sum' = Sum
  BY <1>1, SameSum DEF TypeOK
<1>4. TypeOK'
  BY <1>1, <1>2 DEF TypeOK
<1>5. ActorsHold' /\ Alone' /\ NotTyped'
  BY <1>1, <1>2 DEF ActorsHold, Alone, NotTyped, Serial, Recounting
<1>6. CountFirst'
  <2>1. \A g \in Files : FirstTry(g)' => FirstTry(g)
    BY <1>1, <1>2 DEF FirstTry
  <2>2. QED
    BY <1>1, <2>1 DEF CountFirst, There, Serial
<1>7. Summed'
  <2>1. \A g \in Files : Owes(g)' = Owes(g)
    BY <1>1, SameOwed
  <2>2. Serial /\ AtTotals => worker.file \in Files /\ Owes(worker.file)
    BY <1>1, WorkerOn DEF NotTyped, AtTotals, Owes
  <2>3. QED
    BY <1>1, <1>2, <1>3, <2>1, <2>2 DEF Summed, Summing, SumKnown, AtTotals, Serial, Recounting
<1>8. QED
  BY <1>4, <1>5, <1>6, <1>7

-----------------------------------------------------------------------------
(* files:recount.                                                          *)

RecountTypes == [at : {"idle", "files", "sum", "write", "done"}, copy : [Files -> Rows],
                 loaded : Totals, sum : Totals, wrote : BOOLEAN, todo : SUBSET Files]

\* A step of the command, and what is left to show of it where everybody takes turns.
LEMMA RecountFrame ==
  ASSUME IInv, recount' \in RecountTypes, recount'.at # "idle",
         file' \in [Files -> Rows], \A f \in Files : file[f].count # "unused" => file'[f].count # "unused",
         total' \in Totals, UNCHANGED <<mode, job, worker, requests>>,
         Serial =>
           /\ requests = {} /\ worker = Idle
           /\ recount'.at = "files" => \A f \in recount'.todo : file'[f].source # "manual"
           /\ SumKnown(recount)'
           /\ \/ Recounting' /\ (recount'.wrote \/ recount'.at # "files")
              \/ total' = Sum' \/ \E f \in Files : Owes(f)'
  PROVE  IInv'
<1> USE DEF IInv
<1>1. worker = Idle => worker.at = "idle"
  BY DEF Idle, Actor
<1>2. TypeOK'
  BY DEF TypeOK, RecountTypes
<1>3. ActorsHold' /\ Alone'
  BY DEF ActorsHold, Alone, Serial
<1>4. CountFirst'
  BY DEF CountFirst
<1>5. NotTyped'
  BY <1>1 DEF NotTyped, Serial
<1>6. Summed'
  BY <1>1 DEF Summed, Summing, SumKnown, AtTotals, Serial, Recounting
<1>7. QED
  BY <1>2, <1>3, <1>4, <1>5, <1>6

\* Where everybody takes turns the command works alone.
LEMMA RecountAlone ==
  ASSUME IInv, Recounting
  PROVE  /\ recount \in RecountTypes
         /\ Serial => requests = {} /\ worker = Idle /\ worker.at = "idle" /\ ~AtTotals
BY DEF IInv, Alone, Serial, Recounting, TypeOK, RecountTypes, AtTotals, Idle, Actor

LEMMA NoRecountIs ==
  /\ NoRecount \in RecountTypes
  /\ NoRecount = [at |-> "idle", copy |-> [f \in Files |-> Unused], loaded |-> 0, sum |-> 0,
                  wrote |-> FALSE, todo |-> {}]
BY CountingBounds, RowTypes DEF NoRecount, RecountTypes, Totals, Typed

\* At its end the command keeps nothing of what it has read.
LEMMA Ended ==
  ASSUME recount' = [NoRecount EXCEPT !.at = "done"]
  PROVE  recount' \in RecountTypes /\ recount'.at = "done" /\ SumKnown(recount)'
BY NoRecountIs DEF RecountTypes, SumKnown

LEMMA StartRecountInv ==
  ASSUME IInv, NEW force \in BOOLEAN, StartRecount(force)
  PROVE  IInv'
<1> DEFINE todo == Chosen(force)
           copy == [f \in Files |-> IF f \in todo THEN file[f] ELSE Unused]
<1>1. /\ recount' = [NoRecount EXCEPT !.at = "files", !.todo = todo, !.copy = copy]
      /\ UNCHANGED <<mode, file, total, job, worker, requests>> /\ (Serial => ~Working)
  BY DEF StartRecount
<1>2. todo \subseteq Files /\ \A f \in todo : file[f].source # "manual"
  BY DEF Chosen
<1>3. file \in [Files -> Rows] /\ total \in Totals
  BY DEF IInv, TypeOK
<1>4. copy \in [Files -> Rows]
  BY <1>3, RowTypes
<1> HIDE DEF todo, copy
<1>5. recount' \in RecountTypes /\ recount'.at = "files" /\ recount'.todo = todo
  BY <1>1, <1>2, <1>4, NoRecountIs DEF RecountTypes
<1>6. SumKnown(recount)'
  BY <1>5 DEF SumKnown
<1>7. Serial => /\ requests = {} /\ worker = Idle
                /\ total = Sum \/ \E f \in Files : Owes(f)
  BY <1>1 DEF Working, IInv, Summed, Summing, AtTotals, Idle, Actor
<1>8. Sum' = Sum /\ \A f \in Files : Owes(f)' = Owes(f)
  BY <1>1, <1>3, SameSum, SameOwed
<1>9. QED
  BY <1>1, <1>2, <1>3, <1>5, <1>6, <1>7, <1>8, RecountFrame

LEMMA RecountFileInv ==
  ASSUME IInv, NEW f \in Files, NEW ocr \in BOOLEAN, RecountFile(f, ocr)
  PROVE  /\ IInv' /\ (file[f].source = "manual" => ~Serial /\ Behind(f))
         /\ \A g \in Files \ {f} : file'[g] = file[g]
<1>1. PICK new \in Outcomes : file' = Saved(f, recount.copy[f], new)
  BY DEF RecountFile
<1>2. /\ recount.at = "files" /\ f \in recount.todo
      /\ recount' = [recount EXCEPT !.todo = @ \ {f}, !.copy[f] = Unused, !.wrote = TRUE]
      /\ UNCHANGED <<mode, total, job, worker, requests>>
  BY DEF RecountFile
<1>3. recount \in RecountTypes /\ (Serial => requests = {} /\ worker = Idle)
  BY <1>2, RecountAlone DEF Recounting
<1>4. Serial => \A g \in recount.todo : file[g].source # "manual"
  BY <1>2 DEF IInv, NotTyped
<1>5. /\ recount' \in RecountTypes /\ recount'.at = "files" /\ recount'.wrote
      /\ recount'.todo = recount.todo \ {f} /\ recount.todo \subseteq Files
  BY <1>2, <1>3, RowTypes DEF RecountTypes
<1>6. /\ file \in [Files -> Rows] /\ new \in Rows /\ new.count \notin {"unused", "gone"}
      /\ recount.copy[f] \in Rows /\ total \in Totals
  BY <1>3, RowTypes DEF IInv, TypeOK, RecountTypes
<1>7. /\ file' \in [Files -> Rows] /\ \A g \in Files \ {f} : file'[g] = file[g]
      /\ ~There(f) => file' = file
      /\ There(f) => file'[f] = Merged(file[f], recount.copy[f], new)
  BY <1>1, <1>6, SavedIs
<1>8. \A g \in Files : file[g].count # "unused" => file'[g].count # "unused"
  BY <1>6, <1>7 DEF Merged
<1>9. Serial => \A g \in recount'.todo : file'[g].source # "manual"
  BY <1>4, <1>5, <1>7
<1>10. SumKnown(recount)' /\ Recounting'
  BY <1>5 DEF SumKnown, Recounting
<1>11. file[f].source = "manual" => ~Serial /\ Behind(f)
  BY <1>2, <1>4 DEF Behind
<1>12. QED
  BY <1>2, <1>3, <1>5, <1>6, <1>7, <1>8, <1>9, <1>10, <1>11, RecountFrame

LEMMA SkipFileInv ==
  ASSUME IInv, NEW f \in Files, SkipFile(f)
  PROVE  IInv'
<1>1. /\ recount.at = "files" /\ recount' = [recount EXCEPT !.todo = @ \ {f}, !.copy[f] = Unused]
      /\ UNCHANGED <<mode, file, total, job, worker, requests>>
  BY DEF SkipFile
<1>2. recount \in RecountTypes /\ (Serial => requests = {} /\ worker = Idle /\ ~AtTotals)
  BY <1>1, RecountAlone DEF Recounting
<1>3. /\ recount' \in RecountTypes /\ recount'.at = "files" /\ recount'.wrote = recount.wrote
      /\ recount'.todo = recount.todo \ {f}
  BY <1>1, <1>2, RowTypes DEF RecountTypes
<1>4. Serial => \A g \in recount'.todo : file'[g].source # "manual"
  BY <1>1, <1>3 DEF IInv, NotTyped
<1>5. file \in [Files -> Rows] /\ total \in Totals
  BY DEF IInv, TypeOK
<1>6. Sum' = Sum /\ \A g \in Files : Owes(g)' = Owes(g)
  BY <1>1, <1>5, SameSum, SameOwed
<1>7. Serial => recount.wrote \/ total = Sum \/ \E g \in Files : Owes(g)
  BY <1>1, <1>2 DEF IInv, Summed, Summing
<1>8. SumKnown(recount)' /\ Recounting'
  BY <1>3 DEF SumKnown, Recounting
<1>9. QED
  BY <1>1, <1>2, <1>3, <1>4, <1>5, <1>6, <1>7, <1>8, RecountFrame

LEMMA RecountTotalsInv ==
  ASSUME IInv, RecountTotals
  PROVE  IInv'
<1>1. recount.at \in {"files", "sum", "write"} /\ UNCHANGED <<mode, file, job, worker, requests>>
  BY DEF RecountTotals
<1>2. recount \in RecountTypes /\ (Serial => requests = {} /\ worker = Idle /\ ~AtTotals)
  BY <1>1, RecountAlone DEF Recounting
<1>3. file \in [Files -> Rows] /\ total \in Totals /\ (Serial => SumKnown(recount))
  BY DEF IInv, TypeOK, Summed
<1>4. Sum' = Sum /\ Sum \in Totals /\ \A g \in Files : Owes(g)' = Owes(g)
  BY <1>1, <1>3, SameSum, SumTyped, SameOwed
<1>5. CASE recount.at = "files" /\ recount.wrote
  <2>1. recount' = LoadTotal(recount) /\ total' = total
    BY <1>5 DEF RecountTotals
  <2>2. recount' \in RecountTypes /\ recount'.at = "sum" /\ recount'.loaded = total
    BY <1>2, <1>3, <2>1 DEF LoadTotal, RecountTypes
  <2>3. SumKnown(recount)' /\ Recounting'
    BY <2>1, <2>2 DEF SumKnown, Recounting
  <2>4. QED
    BY <1>1, <1>2, <1>3, <2>1, <2>2, <2>3, RecountFrame
<1>6. CASE recount.at = "files" /\ ~recount.wrote
  <2>1. recount' = [NoRecount EXCEPT !.at = "done"] /\ total' = total
    BY <1>6 DEF RecountTotals
  <2>2. Serial => total = Sum \/ \E g \in Files : Owes(g)
    BY <1>2, <1>6 DEF IInv, Summed, Summing
  <2>3. QED
    BY <1>1, <1>2, <1>3, <1>4, <2>1, <2>2, Ended, RecountFrame
<1>7. CASE recount.at = "sum"
  <2>1. recount' = ReadSum(recount) /\ total' = total
    BY <1>7 DEF RecountTotals
  <2>2. /\ recount' \in RecountTypes /\ recount'.at = "write" /\ recount'.sum = Sum
        /\ Serial => recount'.loaded = total
    BY <1>2, <1>3, <1>4, <1>7, <2>1 DEF ReadSum, RecountTypes, SumKnown
  <2>3. (Serial => SumKnown(recount)') /\ Recounting'
    BY <1>4, <2>1, <2>2 DEF SumKnown, Recounting
  <2>4. QED
    BY <1>1, <1>2, <1>3, <2>1, <2>2, <2>3, RecountFrame
<1>8. CASE recount.at = "write"
  <2>1. recount' = [NoRecount EXCEPT !.at = "done"] /\ WriteSum(recount)
    BY <1>8 DEF RecountTotals
  <2>2. total' \in Totals /\ (Serial => total' = Sum)
    BY <1>2, <1>3, <1>8, <2>1 DEF WriteSum, RecountTypes, SumKnown
  <2>3. QED
    BY <1>1, <1>2, <1>3, <1>4, <2>1, <2>2, Ended, RecountFrame
<1>9. QED
  BY <1>1, <1>5, <1>6, <1>7, <1>8

-----------------------------------------------------------------------------
(* The invariant.                                                          *)

LEMMA InitInv ==
  ASSUME Init
  PROVE  IInv
<1>1. /\ mode \in Modes /\ file = [f \in Files |-> Unused] /\ total = 0 /\ worker = Idle
      /\ job = [f \in Files |-> [state |-> "none", tries |-> 0]] /\ requests = {}
      /\ recount = NoRecount /\ recount.at = "idle"
  BY NoRecountIs DEF Init
<1>2. 0 \in Totals /\ Idle \in Actors /\ Idle.at = "idle"
  BY CountingBounds, RowTypes DEF Idle, Actor, Actors, Totals, Typed
<1>3. Unused.count = "unused" /\ Unused.words = 0
  BY DEF Unused, Row
<1>4. Sum = 0
  <2>1. [f \in Files |-> file[f].words] = [f \in Files |-> 0]
    BY <1>1, <1>3
  <2>2. QED
    BY <2>1, SumAssumption DEF Sum
<1>5. TypeOK
  BY <1>1, <1>2, RowTypes, NoRecountIs DEF TypeOK, Tries, RecountTypes
<1>6. ActorsHold
  BY <1>1, <1>2 DEF ActorsHold, Tries
<1>7. Alone /\ NotTyped
  BY <1>1, <1>2 DEF Alone, NotTyped, Recounting
<1>8. CountFirst
  BY <1>1, <1>3 DEF CountFirst, There
<1>9. Summed
  BY <1>1, <1>2, <1>4 DEF Summed, Summing, SumKnown, AtTotals, Recounting
<1>10. QED
  BY <1>5, <1>6, <1>7, <1>8, <1>9 DEF IInv

LEMMA StutterInv ==
  ASSUME IInv, UNCHANGED vars
  PROVE  IInv'
<1>1. Sum' = Sum
  BY DEF vars, Sum
<1>2. TypeOK' /\ ActorsHold' /\ Alone'
  BY DEF IInv, vars, TypeOK, ActorsHold, Alone, Serial, Recounting
<1>3. CountFirst' /\ NotTyped'
  BY DEF IInv, vars, CountFirst, FirstTry, NotTyped, Untyped, There, Serial
<1>4. Summed'
  BY <1>1, SameOwed DEF IInv, vars, Summed, Summing, SumKnown, AtTotals, Serial, Recounting
<1>5. QED
  BY <1>2, <1>3, <1>4 DEF IInv

LEMMA NextInv ==
  ASSUME IInv, [Next]_vars
  PROVE  IInv'
<1>1. CASE UserStep
  BY <1>1, UploadInv, StartInv DEF UserStep
<1>2. CASE RequestStep \/ \E r \in requests : LoseDispatch(r)
  BY <1>2, DispatchInv, SaveManualInv, RemoveInv, RequestTotalsInv DEF RequestStep
<1>3. CASE WorkerStep
  BY <1>3, TakeJobInv, FaultInv, BeginInv, MarkInv, SaveCountInv, WorkerTotalsInv DEF WorkerStep
<1>4. CASE RecountStep
  BY <1>4, StartRecountInv, SkipFileInv, RecountFileInv, RecountTotalsInv DEF RecountStep
<1>5. CASE Throw \/ Timeout \/ Kill
  BY <1>5, FaultInv, KillInv
<1>6. CASE UNCHANGED vars
  BY <1>6, StutterInv
<1>7. QED
  BY <1>1, <1>2, <1>3, <1>4, <1>5, <1>6 DEF Next, FaultStep

\* The inductive invariant holds in every behaviour.
THEOREM CountingInvariance == Spec => []IInv
<1>1. Init => IInv
  BY InitInv
<1>2. IInv /\ [Next]_vars => IInv'
  BY NextInv
<1>3. QED
  BY <1>1, <1>2, PTL DEF Spec

\* Every variable keeps its type.
THEOREM CountingTypeCorrect == Spec => []TypeOK
<1>1. IInv => TypeOK
  BY DEF IInv
<1>2. QED
  BY <1>1, CountingInvariance, PTL

\* Once nothing is at work, the total cached on the project is what its files add up
\* to, if the requests, the job and files:recount took turns and no count was given up.
THEOREM TotalsAdd == Spec => []TotalsMatch
<1>1. ASSUME IInv, Serial, Quiet, \A f \in Files : file[f].count # "failed"
      PROVE  total = Sum
  <2>1. ~Summing
    BY <1>1 DEF Quiet, Working, Summing, AtTotals, Idle, Actor
  <2>2. \A f \in Files : ~Owes(f)
    BY <1>1 DEF Owes, Quiet
  <2>3. QED
    BY <1>1, <2>1, <2>2 DEF IInv, Summed
<1>2. IInv => TotalsMatch
  BY <1>1 DEF TotalsMatch
<1>3. QED
  BY <1>2, CountingInvariance, PTL

LEMMA StepKeepsTyped ==
  ASSUME IInv, Next, NEW f \in Files
  PROVE  TypedStays(f) \/ (~Serial /\ Behind(f))
<1> SUFFICES ASSUME file[f].source = "manual", ~(~Serial /\ Behind(f))
             PROVE  file'[f].count # "gone" =>
                      file'[f].source = "manual" /\ file'[f].words \in {file[f].words, Typed}
  BY DEF TypedStays
<1>1. file \in [Files -> Rows]
  BY DEF IInv, TypeOK
<1>2. CASE UNCHANGED file
  BY <1>2
<1>3. CASE \E g \in Files : Upload(g)
  BY <1>1, <1>3 DEF Upload, Unused, Row
<1>4. CASE \E r \in requests : SaveManual(r)
  <2>1. PICK r \in requests : SaveManual(r)
    BY <1>4
  <2>2. PICK words \in {Typed, r.copy.words} : file' = Saved(r.file, r.copy, Row(words, "done", "manual"))
    BY <2>1 DEF SaveManual
  <2> DEFINE typed == Row(words, "done", "manual")
  <2>3. r.file \in Files /\ r.copy \in Rows /\ typed \in Rows
    BY RowTypes DEF IInv, TypeOK, Actors, ActorsHold, Rows, Number, Typed, Row
  <2>4. typed.words = words /\ typed.source = "manual" /\ file' = Saved(r.file, r.copy, typed)
    BY <2>2 DEF Row
  <2> HIDE DEF typed
  <2>5. /\ \A g \in Files \ {r.file} : file'[g] = file[g]
        /\ ~There(r.file) => file' = file
        /\ There(r.file) => file'[r.file] = Merged(file[r.file], r.copy, typed)
    BY <1>1, <2>3, <2>4, SavedIs
  <2>6. QED
    BY <2>4, <2>5 DEF Merged
<1>5. CASE \E r \in requests : Remove(r)
  BY <1>1, <1>5 DEF Remove, Gone, Row
<1>6. CASE MarkProcessing
  <2>1. file'[worker.file].source = file[worker.file].source /\ file'[worker.file].words = file[worker.file].words
        /\ \A g \in Files \ {worker.file} : file'[g] = file[g]
    BY <1>6, MarkInv
  <2>2. QED
    BY <2>1
<1>7. CASE SaveCount
  <2>1. /\ \A g \in Files \ {worker.file} : file'[g] = file[g]
        /\ There(worker.file) /\ file[worker.file].source = "manual" =>
             ~Serial /\ Behind(worker.file)
        /\ ~There(worker.file) => file' = file
    BY <1>7, SaveCountInv
  <2>2. QED
    BY <2>1
<1>8. CASE Throw \/ Timeout \/ \E g \in Files : Redeliver(g)
  BY <1>8, FaultInv
<1>9. CASE \E g \in Files, ocr \in BOOLEAN : RecountFile(g, ocr)
  BY <1>9, RecountFileInv
<1>10. QED
  BY <1>2, <1>3, <1>4, <1>5, <1>6, <1>7, <1>8, <1>9
  DEF Next, UserStep, RequestStep, WorkerStep, RecountStep, FaultStep, Dispatch, StartManual,
      StartRemove, RequestSum, RequestWrite, LoseDispatch, TakeJob, Begin, WorkerTotals, Kill,
      StartRecount, SkipFile, RecountTotals

\* A number somebody typed is replaced by the machine's only while actors overlap, and only
\* by who read the file's row before it was typed: a second attempt of the job, one that
\* found the manual entry opened under it by files:recount, or that command.  A first
\* attempt never does, late or not, nor does anyone where they take turns.
THEOREM TypedNumbersStay == Spec => ManualWins
<1>1. IInv /\ [Next]_vars => [\A f \in Files : TypedStays(f) \/ (~Serial /\ Behind(f))]_vars
  BY StepKeepsTyped
<1>2. QED
  BY <1>1, CountingInvariance, PTL DEF Spec, ManualWins
=============================================================================
