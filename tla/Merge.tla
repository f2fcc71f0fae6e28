------------------------------- MODULE Merge --------------------------------
(***************************************************************************)
(* From approval to the certified final files: ReviewController::approve   *)
(* and retryMerge, the Redis queue with the one worker production runs,    *)
(* and MergeFinalFileJob.                                                  *)
(*                                                                         *)
(* Nothing in the job is a transaction except the last transition: every   *)
(* blob and every row is written on its own, so the job is one action per  *)
(* write and may stop between any two of them.  Faults names what can go   *)
(* wrong in a run:                                                         *)
(*   "throw"    an exception inside the job's try block                    *)
(*   "timeout"  the worker's alarm fails the job and ends the worker       *)
(*   "kill"     the worker dies without a word                             *)
(*   "put"      the disk refuses a blob, which Storage::put only returns   *)
(*   "notify"   the completion notice cannot be queued                     *)
(*   "api"      a request dies, or Redis refuses its job, after its commit *)
(***************************************************************************)
EXTENDS Naturals, FiniteSets, Transitions

CONSTANTS
  Projects,      \* projects, each with its review open
  MaxDocs,       \* bound: documents in the round under review
  MaxJobs,       \* bound: merge jobs ever dispatched
  NoProject,     \* the project of a job not dispatched yet
  Faults         \* what may go wrong

ASSUME MergeBounds == MaxDocs \in Nat \ {0} /\ MaxJobs \in Nat
ASSUME NoProjectAssumption == NoProject \notin Projects

VARIABLES
  status,        \* projects.status
  error,         \* projects.merge_error is set
  attempts,      \* projects.merge_attempts
  round,         \* documents in the newest delivery round
  rows,          \* project_files of category final: document, and the attempt that wrote it
  blob,          \* the disk, per final path: the attempt whose bytes lie there, 0 if none
  job,           \* the queue's jobs, numbered as dispatched
  worker,        \* the worker: the job it holds, how far it is, what it has in memory
  requests       \* API requests between two of their writes

vars == <<status, error, attempts, round, rows, blob, job, worker, requests>>

Docs       == 1..MaxDocs
JobIds     == 1..MaxJobs
FinalRow   == [doc : Docs, by : Nat]
Round(p)   == 1..round[p]
Idle       == [at |-> "idle", job |-> 0, doc |-> 0, old |-> {}, err |-> FALSE]
UnusedJob  == [project |-> NoProject, state |-> "unused"]
DispatchOf(p)   == [kind |-> "dispatch", project |-> p, err |-> FALSE]
LostOf(p)       == [kind |-> "lost", project |-> p, err |-> FALSE]
RetryOf(p, err) == [kind |-> "retry", project |-> p, err |-> err]

\* The project the worker is on.
Project == job[worker.job].project
Busy    == worker.at # "idle"

-----------------------------------------------------------------------------
(* The API.                                                                *)

\* Room for one more job (bound).
Room == Cardinality({j \in JobIds : job[j] # UnusedJob}) + Cardinality(requests) < MaxJobs

\* approve(): the transition commits; the job is dispatched after it.
Approve(p) ==
  /\ Room
  /\ Permitted(status[p], "approved", "project_manager", FALSE)
  /\ status' = [status EXCEPT ![p] = "approved"]
  /\ requests' = requests \union {DispatchOf(p)}
  /\ UNCHANGED <<error, attempts, round, rows, blob, job, worker>>

\* retryMerge() loads the project and refuses one that is not approved.
StartRetry(p) ==
  /\ Room
  /\ status[p] = "approved"
  /\ RetryOf(p, error[p]) \notin requests
  /\ requests' = requests \union {RetryOf(p, error[p])}
  /\ UNCHANGED <<status, error, attempts, round, rows, blob, job, worker>>

\* retryMerge() clears the error: Eloquent writes only if it loaded one.
ClearError(r) ==
  /\ r \in requests
  /\ r.kind = "retry"
  /\ DispatchOf(r.project) \notin requests
  /\ error' = IF r.err THEN [error EXCEPT ![r.project] = FALSE] ELSE error
  /\ requests' = (requests \ {r}) \union {DispatchOf(r.project)}
  /\ UNCHANGED <<status, attempts, round, rows, blob, job, worker>>

\* Either of them pushes a job onto the queue.
Dispatch(r, j) ==
  /\ r \in requests
  /\ r.kind = "dispatch"
  /\ job[j] = UnusedJob
  /\ \A i \in JobIds : i < j => job[i] # UnusedJob
  /\ job' = [job EXCEPT ![j] = [project |-> r.project, state |-> "queued"]]
  /\ requests' = requests \ {r}
  /\ UNCHANGED <<status, error, attempts, round, rows, blob, worker>>

\* The request dies between two writes, or the queue refuses its job; that it did is
\* kept, as nothing else will tell.
DropRequest(r) ==
  /\ "api" \in Faults
  /\ r \in requests
  /\ r.kind # "lost"
  /\ requests' = (requests \ {r}) \union {LostOf(r.project)}
  /\ UNCHANGED <<status, error, attempts, round, rows, blob, job, worker>>

Archive(p) ==
  /\ Permitted(status[p], "archived", "project_manager", FALSE)
  /\ status' = [status EXCEPT ![p] = "archived"]
  /\ UNCHANGED <<error, attempts, round, rows, blob, job, worker, requests>>

-----------------------------------------------------------------------------
(* The worker running MergeFinalFileJob::handle().                         *)

\* The worker reserves a queued job.
Take(j) ==
  /\ ~Busy
  /\ job[j].state = "queued"
  /\ job' = [job EXCEPT ![j].state = "reserved"]
  /\ worker' = [Idle EXCEPT !.at = "start", !.job = j]
  /\ UNCHANGED <<status, error, attempts, round, rows, blob, requests>>

\* The worker is done with its job and deletes it from the queue.
Finish ==
  /\ job' = [job EXCEPT ![worker.job].state = "done"]
  /\ worker' = Idle

GoTo(stage) == worker' = [worker EXCEPT !.at = stage]

\* Mutant of Begin: the job does not look at the status it finds.
BeginAnyway ==
  /\ worker.at = "start"
  /\ attempts' = [attempts EXCEPT ![Project] = @ + 1]
  /\ worker' = [worker EXCEPT !.at = "merge", !.err = error[Project]]
  /\ UNCHANGED <<status, error, round, rows, blob, job, requests>>

\* The project is loaded afresh: a job that finds it anything but approved is over.
Begin ==
  /\ worker.at = "start"
  /\ IF status[Project] = "approved"
     THEN /\ attempts' = [attempts EXCEPT ![Project] = @ + 1]
          /\ worker' = [worker EXCEPT !.at = "merge", !.err = error[Project]]
          /\ UNCHANGED job
     ELSE Finish /\ UNCHANGED attempts
  /\ UNCHANGED <<status, error, round, rows, blob, requests>>

\* Mutant of MergeAll: the previous finals are not looked up.
MergeAllOver ==
  /\ worker.at = "merge"
  /\ GoTo("discard")
  /\ UNCHANGED <<status, error, attempts, round, rows, blob, job, requests>>

\* Every document is merged in memory; the previous finals are looked up.
MergeAll ==
  /\ worker.at = "merge"
  /\ worker' = [worker EXCEPT !.at = "discard", !.old = rows[Project]]
  /\ UNCHANGED <<status, error, attempts, round, rows, blob, job, requests>>

\* discardPreviousFinals(): for each, the blob and then the row.
Discard(r) ==
  /\ worker.at = "discard"
  /\ r \in worker.old
  /\ IF blob[Project][r.doc] # 0
     THEN /\ blob' = [blob EXCEPT ![Project][r.doc] = 0]
          /\ UNCHANGED <<rows, worker>>
     ELSE /\ rows' = [rows EXCEPT ![Project] = @ \ {r}]
          /\ worker' = [worker EXCEPT !.old = @ \ {r}]
          /\ UNCHANGED blob
  /\ UNCHANGED <<status, error, attempts, round, job, requests>>

StartWriting ==
  /\ worker.at = "discard"
  /\ worker.old = {}
  /\ worker' = [worker EXCEPT !.at = "put", !.doc = 1]
  /\ UNCHANGED <<status, error, attempts, round, rows, blob, job, requests>>

\* The next document's PDF goes to its path; a refusal goes unnoticed.
Put ==
  /\ worker.at = "put"
  /\ \/ blob' = [blob EXCEPT ![Project][worker.doc] = attempts[Project]]
     \/ "put" \in Faults /\ UNCHANGED blob
  /\ GoTo("row")
  /\ UNCHANGED <<status, error, attempts, round, rows, job, requests>>

\* A final row, then the next document or on to the end.
RowThenNext(last) ==
  /\ worker.at = "row"
  /\ rows' = [rows EXCEPT ![Project] = @ \union {[doc |-> worker.doc, by |-> attempts[Project]]}]
  /\ IF worker.doc < last
     THEN worker' = [worker EXCEPT !.at = "put", !.doc = @ + 1]
     ELSE GoTo("clear")
  /\ UNCHANGED <<status, error, attempts, round, blob, job, requests>>

\* Mutants of CreateRow: the loop ends one document early, or one late.
CreateRowEarly == RowThenNext(round[Project] - 1)
CreateRowLate  == RowThenNext(round[Project] + 1)

CreateRow == RowThenNext(round[Project])

\* merge_error is cleared (written only if one was loaded) and totals refreshed.
ClearMerge ==
  /\ worker.at = "clear"
  /\ error' = IF worker.err THEN [error EXCEPT ![Project] = FALSE] ELSE error
  /\ worker' = [worker EXCEPT !.at = "complete", !.err = FALSE]
  /\ UNCHANGED <<status, attempts, round, rows, blob, job, requests>>

\* approved -> completed, by the system; a refusal is an exception like any other.
Complete ==
  /\ worker.at = "complete"
  /\ Permitted(status[Project], "completed", "system", FALSE)
  /\ status' = [status EXCEPT ![Project] = "completed"]
  /\ GoTo("notify")
  /\ UNCHANGED <<error, attempts, round, rows, blob, job, requests>>

Notify ==
  /\ worker.at = "notify"
  /\ Finish
  /\ UNCHANGED <<status, error, attempts, round, rows, blob, requests>>

-----------------------------------------------------------------------------
(* Failures.                                                               *)

\* recordFailure() on the job's own copy: the message it holds already is not
\* written again.
RecordFailure ==
  \/ error' = [error EXCEPT ![Project] = TRUE]
  \/ worker.err /\ UNCHANGED error

\* The catch block: an exception anywhere in the try block ends the job, reason kept.
Throw ==
  /\ \/ /\ "throw" \in Faults
        /\ worker.at \in {"merge", "discard", "put", "row", "clear", "complete"}
     \/ /\ "notify" \in Faults
        /\ worker.at = "notify"
  /\ RecordFailure
  /\ Finish
  /\ UNCHANGED <<status, attempts, round, rows, blob, requests>>

\* failed(): the reason is recorded on an approved project that has none.
Failed(p) ==
  error' = IF status[p] = "approved" THEN [error EXCEPT ![p] = TRUE] ELSE error

\* The alarm after $timeout: one attempt is all there is, so the job fails at once.
Timeout ==
  /\ "timeout" \in Faults
  /\ Busy
  /\ Failed(Project)
  /\ Finish
  /\ UNCHANGED <<status, attempts, round, rows, blob, requests>>

\* The worker dies; its job stays reserved.
Kill ==
  /\ "kill" \in Faults
  /\ Busy
  /\ worker' = Idle
  /\ UNCHANGED <<status, error, attempts, round, rows, blob, job, requests>>

\* Mutant of Redeliver: the queue drops the job without calling failed().
RedeliverSilently(j) ==
  /\ ~Busy
  /\ job[j].state = "reserved"
  /\ job' = [job EXCEPT ![j].state = "done"]
  /\ UNCHANGED <<status, error, attempts, round, rows, blob, worker, requests>>

\* After retry_after the restarted worker gets the job again and, the attempt being
\* spent, fails it.
Redeliver(j) ==
  /\ ~Busy
  /\ job[j].state = "reserved"
  /\ Failed(job[j].project)
  /\ job' = [job EXCEPT ![j].state = "done"]
  /\ UNCHANGED <<status, attempts, round, rows, blob, worker, requests>>

-----------------------------------------------------------------------------
Init ==
  /\ status = [p \in Projects |-> "in_review"]
  /\ error = [p \in Projects |-> FALSE]
  /\ attempts = [p \in Projects |-> 0]
  /\ round \in [Projects -> Docs]
  /\ rows = [p \in Projects |-> {}]
  /\ blob = [p \in Projects |-> [d \in Docs |-> 0]]
  /\ job = [j \in JobIds |-> UnusedJob]
  /\ worker = Idle
  /\ requests = {}

ServeRequest(r) == ClearError(r) \/ \E j \in JobIds : Dispatch(r, j)

RequestStep == \E r \in requests : ServeRequest(r)

WorkerStep ==
  \/ \E j \in JobIds : Take(j) \/ Redeliver(j)
  \/ Begin
  \/ MergeAll
  \/ \E r \in worker.old : Discard(r)
  \/ StartWriting
  \/ Put
  \/ CreateRow
  \/ ClearMerge
  \/ Complete
  \/ Notify

UserStep ==
  \E p \in Projects : Approve(p) \/ StartRetry(p) \/ Archive(p)

FaultStep == Throw \/ Timeout \/ Kill \/ \E r \in requests : DropRequest(r)

Next == UserStep \/ RequestStep \/ WorkerStep \/ FaultStep

Spec == Init /\ [][Next]_vars

\* php-fpm finishes each request it took; the container runtime restarts the worker
\* (restart: unless-stopped), which works as long as there are jobs.
Fairness ==
  /\ \A p \in Projects : WF_vars(\E r \in requests : r.project = p /\ ServeRequest(r))
  /\ WF_vars(WorkerStep)

FairSpec == Spec /\ Fairness

-----------------------------------------------------------------------------
(* Type invariant.                                                         *)

Stages == {"idle", "start", "merge", "discard", "put", "row", "clear", "complete", "notify"}

JobRow     == [project : Projects, state : {"queued", "reserved", "done"}]
WorkerRow  == [at : Stages, job : JobIds \union {0}, doc : Docs \union {0},
               old : SUBSET FinalRow, err : BOOLEAN]
RequestRow == [kind : {"retry", "dispatch", "lost"}, project : Projects, err : BOOLEAN]

TypeOK ==
  /\ status \in [Projects -> {"in_review", "approved", "completed", "archived"}]
  /\ error \in [Projects -> BOOLEAN]
  /\ attempts \in [Projects -> Nat]
  /\ round \in [Projects -> Docs]
  /\ rows \in [Projects -> SUBSET FinalRow]
  /\ blob \in [Projects -> [Docs -> Nat]]
  /\ job \in [JobIds -> JobRow \union {UnusedJob}]
  /\ worker \in WorkerRow
  /\ requests \subseteq RequestRow

(* Safety.                                                                 *)

\* Rows and bytes of the documents S, all from the last attempt.
Written(p, S) ==
  /\ rows[p] = [doc : S, by : {attempts[p]}]
  /\ \A d \in S : blob[p][d] = attempts[p]

\* A completed project has one final per document of the round, all from the same
\* merge, each with its bytes on disk - however many attempts died half way.
CompletedIsCertified ==
  \A p \in Projects : status[p] \in {"completed", "archived"} => Written(p, Round(p))

\* "Re-merging after a retry must not accumulate final files."
FinalsDoNotAccumulate ==
  \A p \in Projects : \A r, s \in rows[p] : r.doc = s.doc => r = s

\* What the client was told is finished is never written again: a job queued by an
\* impatient retry, or redelivered after its worker died, leaves it alone.
CertifiedIsFinal ==
  [][\A p \in Projects : status[p] \in {"completed", "archived"} =>
       rows[p]' = rows[p] /\ blob[p]' = blob[p]]_vars

(* Liveness.                                                               *)

\* docs/02 rule 3: an approval is answered, by the final files or by an error the
\* office can see and retry, whatever happens to the worker - unless its job was lost
\* before it was queued.
ApprovalIsAnswered ==
  \A p \in Projects :
    status[p] = "approved" ~> (status[p] = "completed" \/ error[p] \/ LostOf(p) \in requests)

(* Why the safety properties hold: the inductive invariant.                *)

\* How far the finals of the worker's project are at each stage of the job.
WorkerInv ==
  Busy =>
    /\ worker.job \in JobIds
    /\ job[worker.job].state = "reserved"
    /\ worker.at \notin {"start", "notify"} => status[Project] = "approved"
    /\ worker.at = "discard" => rows[Project] = worker.old
    /\ worker.at \in {"put", "row"} => worker.doc \in Round(Project)
    /\ worker.at = "put" => Written(Project, 1..(worker.doc - 1))
    /\ worker.at = "row" =>
         /\ rows[Project] = [doc : 1..(worker.doc - 1), by : {attempts[Project]}]
         /\ \A d \in 1..worker.doc : blob[Project][d] = attempts[Project]
    /\ worker.at \in {"clear", "complete"} => Written(Project, Round(Project))
    /\ worker.at = "notify" => status[Project] \in {"completed", "archived"}

IInv == TypeOK /\ CompletedIsCertified /\ FinalsDoNotAccumulate /\ WorkerInv

-----------------------------------------------------------------------------
(* What the documentation says and the code does not do.                   *)

\* "no half-finished set of finals sitting where the client can download them":
\* once no job is on it, an approved project has no finals or all of them.
NoHalfFinishedSet ==
  \A p \in Projects : status[p] = "approved" /\ ~(Busy /\ Project = p) =>
    {r.doc : r \in rows[p]} \in {{}, Round(p)}

\* docs/02 rule 3: a failed merge leaves its project approved.
FailureStaysApproved ==
  \A p \in Projects : error[p] => status[p] = "approved"

\* "in_review -> approved, then the finalize job completes it": an approved project
\* has a job or a request about to queue one, or shows why not.
ApprovedIsInHand ==
  \A p \in Projects : status[p] = "approved" =>
    \/ error[p]
    \/ \E r \in requests : r.project = p /\ r.kind # "lost"
    \/ \E j \in JobIds : job[j].project = p /\ job[j].state \in {"queued", "reserved"}
=============================================================================
