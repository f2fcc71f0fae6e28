------------------------------ MODULE Counting ------------------------------
(***************************************************************************)
(* Word counts of a project's source files and the totals cached on the    *)
(* project: CountWordsJob on the one queue worker, the manual count, the   *)
(* removal of a file, the files:recount command, and refreshTotals(),      *)
(* which each of them ends with.                                           *)
(*                                                                         *)
(* Nothing here is locked and Eloquent writes only the columns that differ *)
(* from the copy it loaded, so what a write leaves in a row depends on two *)
(* states of it.  Faults names what can go wrong in a run:                 *)
(*   "throw"    an exception while the job reads or counts its file        *)
(*   "timeout"  the worker's alarm ends the worker while it counts         *)
(*   "kill"     the worker dies without a word while it counts             *)
(*   "late"     those three also strike once the count has been saved      *)
(*   "api"      an upload dies between its commit and its dispatch         *)
(***************************************************************************)
EXTENDS Naturals, FiniteSets, Functions

CONSTANTS
  MaxFiles,      \* bound: source files ever uploaded
  MaxRecounted,  \* bound: those of a "recounting" behaviour
  MaxRequests,   \* bound: requests at work at once
  Modes,         \* whether they and the job keep out of each other's way in a behaviour
                 \* ("serial") or not ("overlapping", or "recounting" if files:recount,
                 \* which is run at most once, is among them)
  Faults         \* what may go wrong

ASSUME CountingBounds ==
  {MaxFiles, MaxRecounted, MaxRequests} \subseteq Nat /\ Modes \subseteq {"serial", "overlapping", "recounting"}

VARIABLES
  mode,          \* the mode of this behaviour
  file,          \* project_files: the counts of each source file
  total,         \* projects.total_words
  job,           \* the CountWordsJob of each file
  worker,        \* the worker: where it is, its file, its copies of the rows
  recount,       \* the files:recount command
  requests       \* API requests between two of their steps

vars == <<mode, file, total, job, worker, recount, requests>>

Files  == 1..MaxFiles
Tries  == 2                    \* CountWordsJob::$tries
Number == {0, 1, 2}            \* a word count: none, the machine's, one typed in
Typed  == 2

\* A row's word_count, count_status ("unused" before the upload, "gone" after the
\* removal) and count_source.
Row(words, count, source) == [words |-> words, count |-> count, source |-> source]

Unused   == Row(0, "unused", "auto")
Gone     == Row(0, "gone", "auto")
There(f) == file[f].count \notin {"unused", "gone"}
Unsettled == {"pending", "processing"}

\* Where an actor is, the file it is on, and what it still needs of what it has read:
\* the file's row, the project's total and the sum it has computed.
Actor(at, f) == [at |-> at, file |-> f, copy |-> Unused, loaded |-> 0, sum |-> 0]
Idle         == Actor("idle", 0)
Loaded(at, f) == [Actor(at, f) EXCEPT !.loaded = total]

\* update() on a copy: a column is written if it differs from the copy's, and a row
\* that is gone is not there to be written.
Saved(f, copy, new) ==
  IF There(f)
  THEN [file EXCEPT ![f] = [c \in DOMAIN new |-> IF new[c] = copy[c] THEN @[c] ELSE new[c]]]
  ELSE file

Serial   == mode = "serial"
Recounts == mode # "overlapping"

Recounting == recount.at \notin {"idle", "done"}
Working    == worker # Idle \/ Recounting \/ requests # {}

\* Somebody else may start now.
Room ==
  /\ Cardinality(requests) < MaxRequests
  /\ Serial => ~Working

-----------------------------------------------------------------------------
(* refreshTotals(): two reads and a write, not a transaction.              *)

Added(words) == FoldFunction(+, 0, words)
Sum == Added([f \in Files |-> file[f].words])

\* What adding up comes to: nothing of nothing, and no more than all the files can have.
ASSUME SumAssumption ==
  /\ Added([f \in Files |-> 0]) = 0
  /\ \A words \in [Files -> Number] : Added(words) \in 0..Typed * MaxFiles

LoadTotal(a) == [a EXCEPT !.loaded = total, !.at = "sum"]
ReadSum(a)   == [a EXCEPT !.sum = Sum, !.at = "write"]
WriteSum(a)  == total' = IF a.sum = a.loaded THEN total ELSE a.sum

-----------------------------------------------------------------------------
(* The API.                                                                *)

GoOn(r, next) == requests' = (requests \ {r}) \union {next}
Drop(r)       == requests' = requests \ {r}

Upload(f) ==
  /\ Room
  /\ mode = "recounting" => f <= MaxRecounted
  /\ file[f] = Unused
  /\ \A g \in Files : g < f => file[g] # Unused
  /\ file' = [file EXCEPT ![f] = Row(0, "pending", "auto")]
  /\ requests' = requests \union {Actor("dispatch", f)}
  /\ UNCHANGED <<mode, total, job, worker, recount>>

\* The job is queued once the upload has committed.
Dispatch(r) ==
  /\ r \in requests /\ r.at = "dispatch"
  /\ job' = [job EXCEPT ![r.file].state = "queued"]
  /\ Drop(r)
  /\ UNCHANGED <<mode, file, total, worker, recount>>

\* The upload's request dies: the file is there and no job will count it.
LoseDispatch(r) ==
  /\ "api" \in Faults
  /\ r \in requests /\ r.at = "dispatch"
  /\ job' = [job EXCEPT ![r.file].state = "lost"]
  /\ Drop(r)
  /\ UNCHANGED <<mode, file, total, worker, recount>>

\* Mutant of ManualAllowed: a count may be typed over one still to come.
ManualAnytime(f) == There(f)

\* manualCount() takes only a file whose automatic count is over.
ManualAllowed(f) == file[f].count \in {"not_applicable", "failed", "done"}

StartManual(f) ==
  /\ Room
  /\ ManualAllowed(f)
  /\ requests' = requests \union {[Loaded("manual", f) EXCEPT !.copy = file[f]]}
  /\ UNCHANGED <<mode, file, total, job, worker, recount>>

\* A word count, or only pages or characters, the words staying as loaded.
SaveManual(r) ==
  /\ r \in requests /\ r.at = "manual"
  /\ \E words \in {Typed, r.copy.words} :
       file' = Saved(r.file, r.copy, Row(words, "done", "manual"))
  /\ GoOn(r, [r EXCEPT !.at = "sum", !.copy = Unused])
  /\ UNCHANGED <<mode, total, job, worker, recount>>

\* destroy(), on a draft.
StartRemove(f) ==
  /\ Room
  /\ There(f)
  /\ requests' = requests \union {Loaded("remove", f)}
  /\ UNCHANGED <<mode, file, total, job, worker, recount>>

\* Mutant of Remove: the totals are left as they are.
RemoveOnly(r) ==
  /\ r \in requests /\ r.at = "remove"
  /\ file' = [file EXCEPT ![r.file] = Gone]
  /\ Drop(r)
  /\ UNCHANGED <<mode, total, job, worker, recount>>

Remove(r) ==
  /\ r \in requests /\ r.at = "remove"
  /\ file' = [file EXCEPT ![r.file] = Gone]
  /\ GoOn(r, [r EXCEPT !.at = "sum"])
  /\ UNCHANGED <<mode, total, job, worker, recount>>

RequestSum(r) ==
  /\ r \in requests /\ r.at = "sum"
  /\ GoOn(r, ReadSum(r))
  /\ UNCHANGED <<mode, file, total, job, worker, recount>>

RequestWrite(r) ==
  /\ r \in requests /\ r.at = "write"
  /\ WriteSum(r)
  /\ Drop(r)
  /\ UNCHANGED <<mode, file, job, worker, recount>>

-----------------------------------------------------------------------------
(* The worker running CountWordsJob::handle().                             *)

Done(f) == job' = [job EXCEPT ![f].state = "done"]

TakeJob(f) ==
  /\ Serial => ~Working
  /\ worker = Idle
  /\ job[f].state = "queued"
  /\ job' = [job EXCEPT ![f] = [state |-> "reserved", tries |-> @.tries + 1]]
  /\ worker' = Actor("start", f)
  /\ UNCHANGED <<mode, file, total, recount, requests>>

\* fresh(): a file removed meanwhile or counted by hand is left alone.
Begin ==
  /\ worker.at = "start"
  /\ IF There(worker.file) /\ file[worker.file].source # "manual"
     THEN worker' = [worker EXCEPT !.at = "mark", !.copy = file[worker.file]] /\ UNCHANGED job
     ELSE worker' = Idle /\ Done(worker.file)
  /\ UNCHANGED <<mode, file, total, recount, requests>>

MarkProcessing ==
  /\ worker.at = "mark"
  /\ LET new == [worker.copy EXCEPT !.count = "processing"]
     IN  /\ file' = Saved(worker.file, worker.copy, new)
         /\ worker' = [worker EXCEPT !.at = "count", !.copy = new]
  /\ UNCHANGED <<mode, total, job, recount, requests>>

\* What counting a file comes to: its text, an estimate by OCR, or nothing countable.
Outcomes == {Row(1, "done", "auto"), Row(1, "done", "ocr"), Row(0, "not_applicable", "auto")}

SaveCount ==
  /\ worker.at = "count"
  /\ \E new \in Outcomes : file' = Saved(worker.file, worker.copy, new)
  /\ worker' = Actor("load", worker.file)
  /\ UNCHANGED <<mode, total, job, recount, requests>>

WorkerTotals ==
  \/ /\ worker.at = "load"
     /\ worker' = LoadTotal(worker)
     /\ UNCHANGED <<mode, file, total, job, recount, requests>>
  \/ /\ worker.at = "sum"
     /\ worker' = ReadSum(worker)
     /\ UNCHANGED <<mode, file, total, job, recount, requests>>
  \/ /\ worker.at = "write"
     /\ WriteSum(worker)
     /\ worker' = Idle
     /\ Done(worker.file)
     /\ UNCHANGED <<mode, file, recount, requests>>

\* failed(), called when the last of the attempts is spent.
Failed(f) ==
  file' = IF There(f) THEN [file EXCEPT ![f].count = "failed"] ELSE file

\* Mutant of NextTry: one attempt more than there are.
NextTryOnceMore(f, again) ==
  IF job[f].tries <= Tries
  THEN job' = [job EXCEPT ![f].state = again] /\ UNCHANGED file
  ELSE Done(f) /\ Failed(f)

\* Another attempt, or none is left.
NextTry(f, again) ==
  IF job[f].tries < Tries
  THEN job' = [job EXCEPT ![f].state = again] /\ UNCHANGED file
  ELSE Done(f) /\ Failed(f)

\* The worker is on a job, and where something may go wrong.
AtRisk ==
  /\ worker # Idle
  /\ worker.at \in {"load", "sum", "write"} => "late" \in Faults

\* An exception puts the job back on the queue.
Throw ==
  /\ "throw" \in Faults
  /\ AtRisk
  /\ NextTry(worker.file, "queued")
  /\ worker' = Idle
  /\ UNCHANGED <<mode, total, recount, requests>>

\* The alarm fails a job on its last attempt; before that it only ends the worker.
Timeout ==
  /\ "timeout" \in Faults
  /\ AtRisk
  /\ NextTry(worker.file, "reserved")
  /\ worker' = Idle
  /\ UNCHANGED <<mode, total, recount, requests>>

Kill ==
  /\ "kill" \in Faults
  /\ AtRisk
  /\ worker' = Idle
  /\ UNCHANGED <<mode, file, total, job, recount, requests>>

\* Mutant of Redeliver: a job out of attempts is dropped without failed().
RedeliverSilently(f) ==
  /\ worker = Idle
  /\ job[f].state = "reserved"
  /\ job' = [job EXCEPT ![f].state = IF job[f].tries < Tries THEN "queued" ELSE "done"]
  /\ UNCHANGED <<mode, file, total, worker, recount, requests>>

\* After retry_after the restarted worker finds the job of the one that died.
Redeliver(f) ==
  /\ worker = Idle
  /\ job[f].state = "reserved"
  /\ NextTry(f, "queued")
  /\ UNCHANGED <<mode, total, worker, recount, requests>>

-----------------------------------------------------------------------------
(* php artisan files:recount                                               *)

NoRecount == [at |-> "idle", copy |-> [f \in Files |-> Unused], loaded |-> 0, sum |-> 0,
              wrote |-> FALSE, todo |-> {}]

\* The files to count, their rows all read at the start.
Chosen(force) ==
  {f \in Files : There(f) /\ file[f].source # "manual" /\
                 (force \/ file[f].count \in {"pending", "not_applicable", "failed"})}

StartRecount(force) ==
  /\ Recounts
  /\ Serial => ~Working
  /\ recount.at = "idle"
  /\ recount' = [NoRecount EXCEPT !.at = "files", !.todo = Chosen(force),
                    !.copy = [f \in Files |-> IF f \in Chosen(force) THEN file[f] ELSE Unused]]
  /\ UNCHANGED <<mode, file, total, job, worker, requests>>

\* One file, with --ocr or without: without it an OCR estimate is not wiped out.
RecountFile(f, ocr) ==
  /\ recount.at = "files"
  /\ f \in recount.todo
  /\ \E new \in Outcomes :
       /\ new.source = "ocr" => ocr
       /\ new.words = 0 => ocr \/ recount.copy[f].source # "ocr"
       /\ file' = Saved(f, recount.copy[f], new)
  /\ recount' = [recount EXCEPT !.todo = @ \ {f}, !.copy[f] = Unused, !.wrote = TRUE]
  /\ UNCHANGED <<mode, total, job, worker, requests>>

\* A file missing from the disk is passed over, and so is an estimate kept.
SkipFile(f) ==
  /\ recount.at = "files"
  /\ f \in recount.todo
  /\ ~There(f) \/ recount.copy[f].source = "ocr"
  /\ recount' = [recount EXCEPT !.todo = @ \ {f}, !.copy[f] = Unused]
  /\ UNCHANGED <<mode, file, total, job, worker, requests>>

\* The totals of a project of which some file was written.
RecountTotals ==
  \/ /\ recount.at = "files" /\ recount.todo = {}
     /\ recount' = IF recount.wrote THEN LoadTotal(recount) ELSE [NoRecount EXCEPT !.at = "done"]
     /\ UNCHANGED <<mode, file, total, job, worker, requests>>
  \/ /\ recount.at = "sum"
     /\ recount' = ReadSum(recount)
     /\ UNCHANGED <<mode, file, total, job, worker, requests>>
  \/ /\ recount.at = "write"
     /\ WriteSum(recount)
     /\ recount' = [NoRecount EXCEPT !.at = "done"]
     /\ UNCHANGED <<mode, file, job, worker, requests>>

-----------------------------------------------------------------------------
Init ==
  /\ mode \in Modes
  /\ file = [f \in Files |-> Unused]
  /\ total = 0
  /\ job = [f \in Files |-> [state |-> "none", tries |-> 0]]
  /\ worker = Idle
  /\ recount = NoRecount
  /\ requests = {}

UserStep == \E f \in Files : Upload(f) \/ StartManual(f) \/ StartRemove(f)

RequestStep ==
  \E r \in requests :
    Dispatch(r) \/ SaveManual(r) \/ Remove(r) \/ RequestSum(r) \/ RequestWrite(r)

WorkerStep ==
  \/ \E f \in Files : TakeJob(f) \/ Redeliver(f)
  \/ Begin \/ MarkProcessing \/ SaveCount \/ WorkerTotals

RecountStep ==
  \/ \E force \in BOOLEAN : StartRecount(force)
  \/ \E f \in Files : SkipFile(f) \/ \E ocr \in BOOLEAN : RecountFile(f, ocr)
  \/ RecountTotals

FaultStep == Throw \/ Timeout \/ Kill \/ \E r \in requests : LoseDispatch(r)

Next == UserStep \/ RequestStep \/ WorkerStep \/ RecountStep \/ FaultStep

Spec == Init /\ [][Next]_vars

\* php-fpm finishes each request it took; the container runtime restarts the worker
\* (restart: unless-stopped), which works as long as there are jobs.
Fairness ==
  /\ \A f \in Files : WF_vars(\E r \in requests : r.file = f /\ Dispatch(r))
  /\ WF_vars(WorkerStep)

FairSpec == Spec /\ Fairness

-----------------------------------------------------------------------------
(* Type invariant.                                                         *)

Rows == [words : Number,
         count : {"unused", "gone", "pending", "processing", "done", "failed", "not_applicable"},
         source : {"auto", "ocr", "manual"}]
Totals == 0..(Typed * MaxFiles)
Actors == [at : {"idle", "dispatch", "manual", "remove", "start", "mark", "count", "load",
                 "sum", "write"},
           file : Files \union {0}, copy : Rows, loaded : Totals, sum : Totals]

TypeOK ==
  /\ mode \in Modes
  /\ file \in [Files -> Rows]
  /\ total \in Totals
  /\ job \in [Files -> [state : {"none", "lost", "queued", "reserved", "done"}, tries : 0..Tries]]
  /\ worker \in Actors
  /\ recount \in [at : {"idle", "files", "sum", "write", "done"}, copy : [Files -> Rows],
                  loaded : Totals, sum : Totals, wrote : BOOLEAN, todo : SUBSET Files]
  /\ requests \subseteq Actors

(* Safety.                                                                 *)

\* A number somebody typed is still there.
TypedStays(f) ==
  file[f].source = "manual" /\ file[f]'.count # "gone" =>
    /\ file[f]'.source = "manual"
    /\ file[f]'.words \in {file[f].words, Typed}

\* Who is at work on file f with a row read before its number was typed: the job's second
\* attempt, or the first after files:recount opened the manual entry under it, and the
\* command itself.  A first attempt left alone never is.
Behind(f) ==
  \/ /\ worker.file = f /\ worker.at \in {"mark", "count"}
     /\ job[f].tries = Tries \/ recount.at # "idle"
  \/ recount.at = "files" /\ f \in recount.todo

\* A count somebody typed stays.  The job, whether it runs once, fails late, is repeated
\* or redelivered, does not put the machine's opinion in its place, and neither does the
\* command: unless, and only while actors overlap, the writer is Behind.  A second attempt
\* is that only after a first which failed with its count saved.
ManualWins ==
  [][\A f \in Files : TypedStays(f) \/ (~Serial /\ Behind(f))]_vars

\* docs/01: the total is "aggregated from source files after counting": once nothing
\* is at work any more it is what the files add up to, if nothing overlapped and no
\* count was given up (its last attempt may have saved a number and not the total).
Quiet ==
  /\ ~Working
  /\ \A f \in Files : job[f].state \in {"none", "lost", "done"}

TotalsMatch ==
  Serial /\ Quiet /\ (\A f \in Files : file[f].count # "failed") => total = Sum

\* NOT a property of the code: "A manual count always wins, --force included: if someone
\* typed a number for a scan, re-running this must never replace it with the machine's
\* opinion."
ManualAlwaysWins == [][\A f \in Files : TypedStays(f)]_vars

(* Why they hold: the inductive invariant.                                 *)

\* The job has saved the count and is at the totals.
AtTotals == worker.at \in {"load", "sum", "write"}

\* The worker has its job, a request its file, a queued job an attempt left and a taken
\* one an attempt made; a dispatch is the first of that file.
ActorsHold ==
  /\ worker.at \in {"idle", "start", "mark", "count", "load", "sum", "write"}
  /\ worker # Idle => worker.at # "idle" /\ worker.file \in Files /\ job[worker.file].state = "reserved"
  /\ \A f \in Files : /\ file[f].count = "unused" => job[f].state = "none"
                      /\ job[f].state \in {"none", "queued"} => job[f].tries < Tries
                      /\ job[f].state = "reserved" => job[f].tries # 0
  /\ \A r \in requests :
       /\ r.at \in {"dispatch", "manual", "remove", "sum", "write"}
       /\ r.file \in Files /\ file[r.file].count # "unused"
       /\ r.at = "dispatch" => r = Actor("dispatch", r.file) /\ job[r.file].state = "none"

\* Who takes turns is alone.
Alone ==
  Serial =>
    /\ \A r, q \in requests : r = q
    /\ worker # Idle => ~Recounting /\ requests = {}
    /\ Recounting => requests = {}

\* The first attempt at a file's count is still to come, or has not saved it.
FirstTry(f) ==
  \/ job[f].state = "none"
  \/ job[f].state = "queued" /\ job[f].tries = 0
  \/ /\ job[f].state = "reserved" /\ job[f].tries = 1
     /\ worker.file = f /\ worker.at \in {"start", "mark", "count"}

\* So long a file is counting and nobody types its number, the command aside.
CountFirst ==
  ~Serial /\ recount.at = "idle" =>
    \A f \in Files : There(f) /\ FirstTry(f) =>
      /\ file[f].count \in Unsettled /\ file[f].source # "manual"
      /\ \A r \in requests : r.at = "manual" => r.file # f

\* What is counted, in turn, is there and was not typed in.
Untyped(f) == There(f) /\ file[f].source # "manual"
NotTyped ==
  Serial =>
    /\ worker.at \in {"mark", "count", "load", "sum", "write"} => Untyped(worker.file)
    /\ recount.at = "files" => \A f \in recount.todo : file[f].source # "manual"

\* The total is the sum, but for the one who is on the way to write it.
SumKnown(a) == /\ a.at \in {"sum", "write"} => a.loaded = total
               /\ a.at = "write" => a.sum = Sum

Summing ==
  \/ AtTotals
  \/ Recounting /\ (recount.wrote \/ recount.at # "files")
  \/ \E r \in requests : r.at \in {"sum", "write"}

\* A count whose number may be saved and not in the total: one more attempt will add it,
\* or the file is marked as failed.
Owes(f) ==
  /\ Untyped(f)
  /\ \/ file[f].count = "failed"
     \/ job[f].state \in {"queued", "reserved"} /\ job[f].tries # 0

Summed ==
  Serial =>
    /\ ~Summing => total = Sum \/ \E f \in Files : Owes(f)
    /\ SumKnown(worker) /\ SumKnown(recount)
    /\ \A r \in requests : SumKnown(r) /\ (r.at \in {"manual", "remove"} => r.loaded = total)

IInv == TypeOK /\ ActorsHold /\ Alone /\ CountFirst /\ NotTyped /\ Summed

(* Liveness.                                                               *)

\* No file is left counting for ever, which would also keep the manual entry shut, unless
\* its job was lost before it was queued, or a second attempt marked it over a number
\* typed meanwhile and died: the next sees the number and leaves it so.
CountSettles ==
  \A f \in Files :
    ~Serial /\ file[f].count \in Unsettled ~>
      file[f].count \notin Unsettled \/ job[f].state = "lost" \/ file[f].source = "manual"
=============================================================================
