----------------------------- MODULE MergeProofs -----------------------------
(***************************************************************************)
(* What Merge promises for any number of projects, documents and jobs, on  *)
(* a disk that keeps what it is given: the certified set is whole, comes   *)
(* from one merge, never accumulates and never changes again.              *)
(***************************************************************************)
EXTENDS Merge, TLAPS

Settled == {"completed", "archived"}

-----------------------------------------------------------------------------
(* Typing.                                                                 *)

\* A job that is not unused is a row of the queue.
LEMMA UsedJob ==
  ASSUME TypeOK, NEW j \in JobIds, job[j].state # "unused"
  PROVE  job[j] \in JobRow /\ job[j].project \in Projects
  BY DEF TypeOK, JobRow, UnusedJob

\* Moving a job on keeps the queue's type and its projects.
LEMMA JobMoves ==
  ASSUME TypeOK, NEW j \in JobIds, job[j].state # "unused",
         NEW st \in {"queued", "reserved", "done"},
         job' = [job EXCEPT ![j].state = st]
  PROVE  /\ job' \in [JobIds -> JobRow \union {UnusedJob}]
         /\ job'[j].project = job[j].project
         /\ job'[j].state = st
         /\ \A i \in JobIds : i # j => job'[i] = job[i]
<1>1. job \in [JobIds -> JobRow \union {UnusedJob}]
  BY DEF TypeOK
<1>2. job' = [job EXCEPT ![j] = [job[j] EXCEPT !.state = st]]
  OBVIOUS
<1>3. /\ [job[j] EXCEPT !.state = st] \in JobRow
      /\ [job[j] EXCEPT !.state = st].project = job[j].project
      /\ [job[j] EXCEPT !.state = st].state = st
  BY UsedJob DEF JobRow
<1> QED BY <1>1, <1>2, <1>3

\* An idle worker is a worker.
LEMMA IdleTyped == Idle \in WorkerRow
  BY DEF Idle, WorkerRow, Stages

\* A worker with a job in hand is on a project.
LEMMA ProjectOfWorker ==
  ASSUME TypeOK, WorkerInv, Busy
  PROVE  /\ worker.job \in JobIds
         /\ job[worker.job].state = "reserved"
         /\ Project \in Projects
<1>1. worker.job \in JobIds /\ job[worker.job].state = "reserved"
  BY DEF WorkerInv
<1> QED BY <1>1, UsedJob DEF Project

\* What each field of the worker may become.
LEMMA WorkerMoves ==
  ASSUME TypeOK
  PROVE  /\ worker.at \in Stages /\ worker.job \in JobIds \union {0}
         /\ worker.doc \in Docs \union {0} /\ worker.old \subseteq FinalRow
         /\ \A at \in Stages : [worker EXCEPT !.at = at] \in WorkerRow
         /\ \A at \in Stages, d \in Docs : [worker EXCEPT !.at = at, !.doc = d] \in WorkerRow
         /\ \A at \in Stages, e \in BOOLEAN :
              [worker EXCEPT !.at = at, !.err = e] \in WorkerRow
         /\ \A at \in Stages, o \in SUBSET FinalRow :
              [worker EXCEPT !.at = at, !.old = o] \in WorkerRow
         /\ \A o \in SUBSET FinalRow : [worker EXCEPT !.old = o] \in WorkerRow
<1>1. worker \in WorkerRow
  BY DEF TypeOK
<1> HIDE DEF TypeOK
<1> QED BY <1>1 DEF WorkerRow

\* Where the matrix may lead a project within these statuses.
LEMMA OnlyApprovedCompletes ==
  ASSUME NEW from, NEW actor, NEW noted
  PROVE  /\ Permitted(from, "approved", actor, noted) => from = "in_review"
         /\ Permitted(from, "completed", actor, noted) => from = "approved"
         /\ Permitted(from, "archived", actor, noted) => from = "completed"
<1>1. \A r \in Matrix : /\ r.to = "approved" => r.from = "in_review"
                        /\ r.to = "completed" => r.from = "approved"
                        /\ r.to = "archived" => r.from = "completed"
  BY DEF Matrix, Rules, Rule
<1> QED BY <1>1 DEF Permitted

-----------------------------------------------------------------------------
(* What a step away from the finals leaves alone.                          *)

\* The certificates stand as long as nobody writes a final or completes a project.
LEMMA FinalsStay ==
  ASSUME CompletedIsCertified, FinalsDoNotAccumulate,
         UNCHANGED <<rows, blob, attempts, round>>,
         \A p \in Projects : status'[p] \in Settled => status[p] \in Settled
  PROVE  CompletedIsCertified' /\ FinalsDoNotAccumulate'
<1>1. \A p \in Projects : Round(p)' = Round(p)
  BY DEF Round
<1>2. CompletedIsCertified'
  BY <1>1 DEF CompletedIsCertified, Written, Settled
<1>3. FinalsDoNotAccumulate'
  BY DEF FinalsDoNotAccumulate
<1> QED BY <1>2, <1>3

\* So does what is known of the worker, as long as its job is left alone.
LEMMA WorkerStays ==
  ASSUME TypeOK, WorkerInv,
         UNCHANGED <<worker, rows, blob, attempts, round>>,
         Busy => job'[worker.job] = job[worker.job],
         \A p \in Projects : /\ status[p] = "approved" => status'[p] = "approved"
                             /\ status[p] \in Settled => status'[p] \in Settled
  PROVE  WorkerInv'
<1>1. CASE ~Busy
  BY <1>1 DEF WorkerInv, Busy
<1>2. CASE Busy
  <2>1. Project' = Project /\ Project \in Projects /\ job'[worker.job].state = "reserved"
    BY <1>2, ProjectOfWorker DEF Project
  <2>2. Round(Project)' = Round(Project)
    BY <2>1 DEF Round
  <2>3. \A S : Written(Project, S)' = Written(Project, S)
    BY <2>1 DEF Written
  <2>4. Written(Project, Round(Project))' = Written(Project, Round(Project))
        /\ Written(Project, 1..(worker.doc - 1))' = Written(Project, 1..(worker.doc - 1))
    BY <2>1, <2>2 DEF Written
  <2> QED BY <1>2, <2>1, <2>2, <2>4 DEF WorkerInv, Settled
<1> QED BY <1>1, <1>2

\* Nothing is known of an idle worker.
LEMMA IdleKnowsNothing == worker' = Idle => WorkerInv'
  BY DEF WorkerInv, Busy, Idle

-----------------------------------------------------------------------------
(* The inductive invariant.                                                *)

\* The invariant holds initially.
LEMMA InitIInv == Init => IInv
<1> SUFFICES ASSUME Init PROVE IInv
  OBVIOUS
<1>1. TypeOK
  BY IdleTyped DEF Init, TypeOK
<1>2. CompletedIsCertified
  BY DEF Init, CompletedIsCertified
<1>3. FinalsDoNotAccumulate
  BY DEF Init, FinalsDoNotAccumulate
<1>4. WorkerInv
  BY DEF Init, WorkerInv, Busy, Idle
<1> QED
  BY <1>1, <1>2, <1>3, <1>4 DEF IInv

\* Users and their requests touch none of the finals.
LEMMA RequestsKeep ==
  ASSUME IInv,
         \/ UserStep
         \/ \E r \in requests : ClearError(r) \/ DropRequest(r)
         \/ \E r \in requests, j \in JobIds : Dispatch(r, j)
  PROVE  IInv'
<1>0. TypeOK /\ CompletedIsCertified /\ FinalsDoNotAccumulate /\ WorkerInv
  BY DEF IInv
<1>1. ASSUME NEW p \in Projects, Approve(p) PROVE IInv'
  <2>1. status[p] = "in_review" /\ status' = [status EXCEPT ![p] = "approved"]
    BY <1>1, OnlyApprovedCompletes DEF Approve
  <2>2. DispatchOf(p) \in RequestRow
    BY DEF DispatchOf, RequestRow
  <2>3. TypeOK'
    BY <1>0, <1>1, <2>1, <2>2 DEF Approve, TypeOK
  <2>4. \A q \in Projects : /\ status[q] = "approved" => status'[q] = "approved"
                            /\ status[q] \in Settled <=> status'[q] \in Settled
    BY <1>0, <2>1 DEF TypeOK, Settled
  <2> QED BY <1>0, <1>1, <2>3, <2>4, FinalsStay, WorkerStays DEF IInv, Approve
<1>2. ASSUME NEW p \in Projects, StartRetry(p) PROVE IInv'
  <2>1. RetryOf(p, error[p]) \in RequestRow
    BY <1>0 DEF RetryOf, RequestRow, TypeOK
  <2>2. TypeOK'
    BY <1>0, <1>2, <2>1 DEF StartRetry, TypeOK
  <2> QED BY <1>0, <1>2, <2>2, FinalsStay, WorkerStays DEF IInv, StartRetry
<1>3. ASSUME NEW p \in Projects, Archive(p) PROVE IInv'
  <2>1. status[p] = "completed" /\ status' = [status EXCEPT ![p] = "archived"]
    BY <1>3, OnlyApprovedCompletes DEF Archive
  <2>2. TypeOK'
    BY <1>0, <1>3, <2>1 DEF Archive, TypeOK
  <2>3. \A q \in Projects : /\ status[q] = "approved" => status'[q] = "approved"
                            /\ status[q] \in Settled <=> status'[q] \in Settled
    BY <1>0, <2>1 DEF TypeOK, Settled
  <2> QED BY <1>0, <1>3, <2>2, <2>3, FinalsStay, WorkerStays DEF IInv, Archive
<1>4. ASSUME NEW r \in requests, ClearError(r) \/ DropRequest(r) PROVE IInv'
  <2>1. r \in RequestRow /\ r.project \in Projects
    BY <1>0 DEF TypeOK, RequestRow
  <2>2. DispatchOf(r.project) \in RequestRow /\ LostOf(r.project) \in RequestRow
    BY <2>1 DEF DispatchOf, LostOf, RequestRow
  <2>3. error' \in [Projects -> BOOLEAN] /\ requests' \subseteq RequestRow
    BY <1>0, <1>4, <2>1, <2>2 DEF ClearError, DropRequest, TypeOK
  <2>4. UNCHANGED <<status, attempts, round, rows, blob, job, worker>>
    BY <1>4 DEF ClearError, DropRequest
  <2>5. TypeOK'
    BY <1>0, <2>3, <2>4 DEF TypeOK
  <2> QED BY <1>0, <2>4, <2>5, FinalsStay, WorkerStays DEF IInv
<1>5. ASSUME NEW r \in requests, NEW j \in JobIds, Dispatch(r, j) PROVE IInv'
  <2>1. r.project \in Projects
    BY <1>0 DEF TypeOK, RequestRow
  <2>2. [project |-> r.project, state |-> "queued"] \in JobRow
    BY <2>1 DEF JobRow
  <2>3. TypeOK'
    BY <1>0, <1>5, <2>2 DEF Dispatch, TypeOK
  <2>4. Busy => worker.job # j /\ worker.job \in JobIds
    BY <1>0, <1>5 DEF Dispatch, WorkerInv, UnusedJob
  <2>5. Busy => job'[worker.job] = job[worker.job]
    BY <1>0, <1>5, <2>4 DEF Dispatch, TypeOK
  <2> QED BY <1>0, <1>5, <2>3, <2>5, FinalsStay, WorkerStays DEF IInv, Dispatch
<1> QED BY <1>1, <1>2, <1>3, <1>4, <1>5 DEF UserStep

\* A job taken, ended or redelivered leaves the finals and the statuses alone.
LEMMA EndsKeep ==
  ASSUME IInv,
         \/ \E j \in JobIds : Take(j) \/ Redeliver(j)
         \/ Notify \/ Throw \/ Timeout \/ Kill
  PROVE  IInv'
<1>0. TypeOK /\ CompletedIsCertified /\ FinalsDoNotAccumulate /\ WorkerInv
  BY DEF IInv
<1>1. ASSUME NEW j \in JobIds, Take(j) PROVE IInv'
  <2>1. /\ job' \in [JobIds -> JobRow \union {UnusedJob}]
        /\ job'[j].state = "reserved"
    BY <1>0, <1>1, JobMoves DEF Take
  <2>2. worker' = [at |-> "start", job |-> j, doc |-> 0, old |-> {}, err |-> FALSE]
    BY <1>1 DEF Take, Idle
  <2>3. worker' \in WorkerRow
    BY <2>2 DEF WorkerRow, Stages
  <2>4. TypeOK'
    BY <1>0, <1>1, <2>1, <2>3 DEF Take, TypeOK
  <2>5. WorkerInv'
    BY <2>1, <2>2 DEF WorkerInv
  <2> QED BY <1>0, <1>1, <2>4, <2>5, FinalsStay DEF IInv, Take
<1>2. ASSUME NEW j \in JobIds, Redeliver(j) PROVE IInv'
  <2>1. job[j].project \in Projects
    BY <1>0, <1>2, UsedJob DEF Redeliver
  <2>2. error' \in [Projects -> BOOLEAN]
    BY <1>0, <1>2, <2>1 DEF Redeliver, Failed, TypeOK
  <2>3. job' \in [JobIds -> JobRow \union {UnusedJob}]
    BY <1>0, <1>2, JobMoves DEF Redeliver
  <2>4. TypeOK'
    BY <1>0, <1>2, <2>2, <2>3 DEF Redeliver, TypeOK
  <2> QED BY <1>0, <1>2, <2>4, FinalsStay, WorkerStays DEF IInv, Redeliver
<1>3. CASE Notify \/ Throw \/ Timeout
  <2>1. Busy
    BY <1>3 DEF Notify, Throw, Timeout, Busy
  <2>2. /\ worker.job \in JobIds
        /\ job[worker.job].state = "reserved"
        /\ Project \in Projects
    BY <1>0, <2>1, ProjectOfWorker
  <2>3. error' \in [Projects -> BOOLEAN]
    BY <1>0, <1>3, <2>2 DEF Notify, Throw, Timeout, RecordFailure, Failed, TypeOK
  <2>4. Finish /\ UNCHANGED <<status, attempts, round, rows, blob, requests>>
    BY <1>3 DEF Notify, Throw, Timeout
  <2>5. job' \in [JobIds -> JobRow \union {UnusedJob}] /\ worker' = Idle
    BY <1>0, <2>2, <2>4, JobMoves DEF Finish
  <2>6. TypeOK'
    BY <1>0, <2>3, <2>4, <2>5, IdleTyped DEF TypeOK
  <2> QED BY <1>0, <2>4, <2>5, <2>6, FinalsStay, IdleKnowsNothing DEF IInv
<1>4. CASE Kill
  <2>1. TypeOK'
    BY <1>0, <1>4, IdleTyped DEF Kill, TypeOK
  <2> QED BY <1>0, <1>4, <2>1, FinalsStay, IdleKnowsNothing DEF IInv, Kill
<1> QED BY <1>1, <1>2, <1>3, <1>4

-----------------------------------------------------------------------------
(* The job's own steps.                                                    *)

\* Whatever is written of an approved project, the certificates of the others stand.
LEMMA OnlyApprovedWritten ==
  ASSUME CompletedIsCertified, UNCHANGED <<status, round>>,
         NEW q \in Projects, status[q] = "approved",
         \A p \in Projects : p # q => /\ rows'[p] = rows[p]
                                      /\ blob'[p] = blob[p]
                                      /\ attempts'[p] = attempts[p]
  PROVE  CompletedIsCertified'
<1>1. \A p \in Projects : Round(p)' = Round(p)
  BY DEF Round
<1>2. ASSUME NEW p \in Projects, (status[p] \in {"completed", "archived"})'
      PROVE  Written(p, Round(p))'
  <2>1. status[p] \in {"completed", "archived"} /\ p # q
    BY <1>2
  <2>2. Written(p, Round(p))
    BY <2>1 DEF CompletedIsCertified
  <2>3. rows'[p] = rows[p] /\ blob'[p] = blob[p] /\ attempts'[p] = attempts[p]
    BY <2>1
  <2> QED BY <1>1, <2>2, <2>3 DEF Written
<1> QED BY <1>2 DEF CompletedIsCertified

\* What a step inside the try block must show about the worker.
LEMMA StageReached ==
  ASSUME UNCHANGED <<job, status, round>>,
         worker.job \in JobIds, job[worker.job].state = "reserved",
         status[Project] = "approved",
         worker'.job = worker.job,
         worker'.at \in {"merge", "discard", "put", "row", "clear", "complete"},
         worker'.at = "discard" => rows'[Project] = worker'.old,
         worker'.at \in {"put", "row"} => worker'.doc \in Round(Project),
         worker'.at \in {"put", "row"} =>
           rows'[Project] = [doc : 1..(worker'.doc - 1), by : {attempts'[Project]}],
         worker'.at = "put" =>
           \A d \in 1..(worker'.doc - 1) : blob'[Project][d] = attempts'[Project],
         worker'.at = "row" =>
           \A d \in 1..worker'.doc : blob'[Project][d] = attempts'[Project],
         worker'.at \in {"clear", "complete"} =>
           /\ rows'[Project] = [doc : Round(Project), by : {attempts'[Project]}]
           /\ \A d \in Round(Project) : blob'[Project][d] = attempts'[Project]
  PROVE  WorkerInv'
<1>1. Project' = Project
  BY DEF Project
<1>2. Round(Project)' = Round(Project)
  BY <1>1 DEF Round
<1> QED BY <1>1, <1>2 DEF WorkerInv, Written

\* The job's own steps; a disk that keeps what it is given is needed here only.
LEMMA JobKeeps ==
  ASSUME IInv, "put" \notin Faults,
         \/ Begin \/ MergeAll \/ StartWriting \/ Put \/ CreateRow
         \/ ClearMerge \/ Complete
         \/ \E r \in worker.old : Discard(r)
  PROVE  IInv'
<1>0. TypeOK /\ CompletedIsCertified /\ FinalsDoNotAccumulate /\ WorkerInv
  BY DEF IInv
<1>a. Busy
  BY DEF Begin, MergeAll, StartWriting, Put, CreateRow, RowThenNext, ClearMerge,
         Complete, Discard, Busy
<1>b. worker.job \in JobIds /\ job[worker.job].state = "reserved" /\ Project \in Projects
  BY <1>0, <1>a, ProjectOfWorker
<1>c. worker.at \notin {"start", "notify"} => status[Project] = "approved"
  BY <1>0, <1>a DEF WorkerInv
<1>d. attempts \in [Projects -> Nat] /\ round[Project] \in Docs
  BY <1>0, <1>b DEF TypeOK
<1>1. CASE Begin
  <2>1. CASE status[Project] = "approved"
    <3>1. /\ attempts' = [attempts EXCEPT ![Project] = @ + 1]
          /\ worker' = [worker EXCEPT !.at = "merge", !.err = error[Project]]
          /\ UNCHANGED <<status, error, round, rows, blob, job, requests>>
      BY <1>1, <2>1 DEF Begin
    <3>2. worker' \in WorkerRow
      BY <1>0, <1>b, <3>1, WorkerMoves DEF TypeOK, Stages
    <3>3. TypeOK'
      BY <1>0, <1>b, <1>d, <3>1, <3>2 DEF TypeOK
    <3>4. CompletedIsCertified'
      BY <1>0, <1>b, <1>d, <2>1, <3>1, OnlyApprovedWritten
    <3>5. FinalsDoNotAccumulate'
      BY <1>0, <3>1 DEF FinalsDoNotAccumulate
    <3>6. worker'.at = "merge" /\ worker'.job = worker.job
      BY <1>0, <3>1 DEF TypeOK, WorkerRow
    <3>7. WorkerInv'
      BY <1>b, <2>1, <3>1, <3>6, StageReached
    <3> QED BY <3>3, <3>4, <3>5, <3>7 DEF IInv
  <2>2. CASE status[Project] # "approved"
    <3>1. Finish /\ UNCHANGED <<status, error, attempts, round, rows, blob, requests>>
      BY <1>1, <2>2 DEF Begin
    <3>2. job' \in [JobIds -> JobRow \union {UnusedJob}] /\ worker' = Idle
      BY <1>0, <1>b, <3>1, JobMoves DEF Finish
    <3>3. TypeOK'
      BY <1>0, <3>1, <3>2, IdleTyped DEF TypeOK
    <3> QED BY <1>0, <3>1, <3>2, <3>3, FinalsStay, IdleKnowsNothing DEF IInv
  <2> QED BY <2>1, <2>2
<1>2. CASE MergeAll
  <2>1. /\ worker' = [worker EXCEPT !.at = "discard", !.old = rows[Project]]
        /\ worker.at = "merge"
        /\ UNCHANGED <<status, error, attempts, round, rows, blob, job, requests>>
    BY <1>2 DEF MergeAll
  <2>2. rows[Project] \in SUBSET FinalRow
    BY <1>0, <1>b DEF TypeOK
  <2>3. TypeOK'
    BY <1>0, <2>1, <2>2, WorkerMoves DEF TypeOK, Stages
  <2>4. worker'.at = "discard" /\ worker'.job = worker.job /\ worker'.old = rows[Project]
    BY <1>0, <2>1 DEF TypeOK, WorkerRow
  <2>5. WorkerInv'
    BY <1>b, <1>c, <2>1, <2>4, StageReached
  <2> QED BY <1>0, <2>1, <2>3, <2>5, FinalsStay DEF IInv
<1>3. ASSUME NEW r \in worker.old, Discard(r) PROVE IInv'
  <2>1. /\ worker.at = "discard"
        /\ rows[Project] = worker.old
        /\ worker.old \subseteq FinalRow
        /\ r.doc \in Docs
        /\ UNCHANGED <<status, error, attempts, round, job, requests>>
    BY <1>0, <1>3, <1>a, WorkerMoves DEF Discard, WorkerInv, FinalRow
  <2>2. CASE blob[Project][r.doc] # 0
    <3>1. /\ blob' = [blob EXCEPT ![Project][r.doc] = 0]
          /\ UNCHANGED <<rows, worker>>
      BY <1>3, <2>2 DEF Discard
    <3>2. TypeOK'
      BY <1>0, <1>b, <2>1, <3>1 DEF TypeOK
    <3>3. \A p \in Projects : p # Project => blob'[p] = blob[p]
      BY <1>0, <3>1 DEF TypeOK
    <3>4. CompletedIsCertified'
      BY <1>0, <1>b, <1>c, <2>1, <3>1, <3>3, OnlyApprovedWritten
    <3>5. FinalsDoNotAccumulate'
      BY <1>0, <3>1 DEF FinalsDoNotAccumulate
    <3>6. WorkerInv'
      BY <1>b, <1>c, <2>1, <3>1, StageReached
    <3> QED BY <3>2, <3>4, <3>5, <3>6 DEF IInv
  <2>3. CASE blob[Project][r.doc] = 0
    <3>1. /\ rows' = [rows EXCEPT ![Project] = @ \ {r}]
          /\ worker' = [worker EXCEPT !.old = @ \ {r}]
          /\ UNCHANGED blob
      BY <1>3, <2>3 DEF Discard
    <3>2. worker' \in WorkerRow
      BY <1>0, <2>1, <3>1, WorkerMoves
    <3>3. TypeOK'
      BY <1>0, <1>b, <2>1, <3>1, <3>2 DEF TypeOK
    <3>4. /\ rows'[Project] = rows[Project] \ {r}
          /\ \A p \in Projects : p # Project => rows'[p] = rows[p]
      BY <1>0, <1>b, <3>1 DEF TypeOK
    <3>5. CompletedIsCertified'
      BY <1>0, <1>b, <1>c, <2>1, <3>1, <3>4, OnlyApprovedWritten
    <3>6. FinalsDoNotAccumulate'
      BY <1>0, <3>4 DEF FinalsDoNotAccumulate
    <3>7. /\ worker'.at = "discard" /\ worker'.job = worker.job
          /\ worker'.old = worker.old \ {r}
      BY <1>0, <2>1, <3>1 DEF TypeOK, WorkerRow
    <3>8. WorkerInv'
      BY <1>b, <1>c, <2>1, <3>1, <3>4, <3>7, StageReached
    <3> QED BY <3>3, <3>5, <3>6, <3>8 DEF IInv
  <2> QED BY <2>2, <2>3
<1>4. CASE StartWriting
  <2>1. /\ worker.at = "discard"
        /\ worker.old = {}
        /\ worker' = [worker EXCEPT !.at = "put", !.doc = 1]
        /\ UNCHANGED <<status, error, attempts, round, rows, blob, job, requests>>
    BY <1>4 DEF StartWriting
  <2>2. rows[Project] = {}
    BY <1>0, <1>a, <2>1 DEF WorkerInv
  <2>3. 1 \in Docs /\ 1 \in Round(Project)
    BY <1>d, MergeBounds DEF Docs, Round
  <2>4. TypeOK'
    BY <1>0, <2>1, <2>3, WorkerMoves DEF TypeOK, Stages
  <2>5. worker'.at = "put" /\ worker'.job = worker.job /\ worker'.doc = 1
    BY <1>0, <2>1 DEF TypeOK, WorkerRow
  <2>6. 1..(1 - 1) = {}
    OBVIOUS
  <2>7. rows'[Project] = [doc : {}, by : {attempts'[Project]}]
    BY <2>1, <2>2
  <2>8. WorkerInv'
    BY <1>b, <1>c, <2>1, <2>3, <2>5, <2>6, <2>7, StageReached
  <2> QED BY <1>0, <2>1, <2>4, <2>8, FinalsStay DEF IInv
<1>5. CASE Put
  <2> DEFINE d == worker.doc
             k == attempts[Project]
  <2>1. /\ worker.at = "put"
        /\ blob' = [blob EXCEPT ![Project][d] = k]
        /\ worker' = [worker EXCEPT !.at = "row"]
        /\ UNCHANGED <<status, error, attempts, round, rows, job, requests>>
    BY <1>5 DEF Put, GoTo
  <2>2. d \in Round(Project) /\ Written(Project, 1..(d - 1))
    BY <1>0, <1>a, <2>1 DEF WorkerInv
  <2>3. d \in Docs /\ d \in Nat \ {0}
    BY <2>2, <1>d, MergeBounds DEF Round, Docs
  <2>4. k \in Nat
    BY <1>b, <1>d
  <2>5. TypeOK'
    BY <1>0, <1>b, <2>1, <2>3, <2>4, WorkerMoves DEF TypeOK, Stages
  <2>6. /\ \A p \in Projects : p # Project => blob'[p] = blob[p]
        /\ blob'[Project][d] = k
        /\ \A e \in Docs : e # d => blob'[Project][e] = blob[Project][e]
    BY <1>0, <1>b, <2>1, <2>3 DEF TypeOK
  <2>7. CompletedIsCertified'
    BY <1>0, <1>b, <1>c, <2>1, <2>6, OnlyApprovedWritten
  <2>8. FinalsDoNotAccumulate'
    BY <1>0, <2>1 DEF FinalsDoNotAccumulate
  <2>9. \A e \in 1..d : blob'[Project][e] = k
    <3>1. \A e \in 1..d : e \in Docs /\ (e # d => e \in 1..(d - 1))
      BY <2>3, MergeBounds DEF Docs
    <3>2. \A e \in 1..(d - 1) : blob[Project][e] = k
      BY <2>2 DEF Written
    <3> QED BY <3>1, <3>2, <2>6
  <2>10. worker'.at = "row" /\ worker'.job = worker.job /\ worker'.doc = d
    BY <1>0, <2>1 DEF TypeOK, WorkerRow
  <2>11. rows'[Project] = [doc : 1..(d - 1), by : {attempts'[Project]}]
    BY <2>1, <2>2 DEF Written
  <2>12. WorkerInv'
    BY <1>b, <1>c, <2>1, <2>2, <2>9, <2>10, <2>11, StageReached
  <2> QED BY <2>5, <2>7, <2>8, <2>12 DEF IInv
<1>6. CASE CreateRow
  <2> DEFINE d == worker.doc
             k == attempts[Project]
             row == [doc |-> d, by |-> k]
             n == round[Project]
  <2>1. /\ worker.at = "row"
        /\ rows' = [rows EXCEPT ![Project] = @ \union {row}]
        /\ worker' = IF d < n THEN [worker EXCEPT !.at = "put", !.doc = d + 1]
                     ELSE [worker EXCEPT !.at = "clear"]
        /\ UNCHANGED <<status, error, attempts, round, blob, job, requests>>
    BY <1>6 DEF CreateRow, RowThenNext, GoTo
  <2>2. /\ d \in Round(Project)
        /\ rows[Project] = [doc : 1..(d - 1), by : {k}]
        /\ \A e \in 1..d : blob[Project][e] = k
    BY <1>0, <1>a, <2>1 DEF WorkerInv
  <2>3. d \in Docs /\ d \in Nat \ {0} /\ n \in Nat /\ d <= n /\ n <= MaxDocs
    BY <2>2, <1>d, MergeBounds DEF Round, Docs
  <2>4. k \in Nat
    BY <1>b, <1>d
  <2>5. rows'[Project] = [doc : 1..d, by : {k}]
    <3>1. rows'[Project] = rows[Project] \union {row}
      BY <1>0, <1>b, <2>1 DEF TypeOK
    <3>2. 1..d = 1..(d - 1) \union {d}
      BY <2>3
    <3>3. ASSUME NEW r PROVE r \in rows'[Project] <=> r \in [doc : 1..d, by : {k}]
      <4>1. r \in [doc : 1..d, by : {k}] => r = [doc |-> r.doc, by |-> k] /\ r.doc \in 1..d
        OBVIOUS
      <4> QED BY <3>1, <3>2, <4>1, <2>2
    <3> QED BY <3>3
  <2>6. \A p \in Projects : p # Project => rows'[p] = rows[p]
    BY <1>0, <2>1 DEF TypeOK
  <2>7. TypeOK'
    <3>1. row \in FinalRow
      BY <2>3, <2>4 DEF FinalRow
    <3>2. d < n => d + 1 \in Docs
      BY <2>3, MergeBounds DEF Docs
    <3>3. worker' \in WorkerRow
      BY <1>0, <2>1, <3>2, WorkerMoves DEF Stages
    <3> QED BY <1>0, <1>b, <2>1, <3>1, <3>3 DEF TypeOK
  <2>8. CompletedIsCertified'
    BY <1>0, <1>b, <1>c, <2>1, <2>6, OnlyApprovedWritten
  <2>9. FinalsDoNotAccumulate'
    <3>1. \A r, s \in [doc : 1..d, by : {k}] : r.doc = s.doc => r = s
      OBVIOUS
    <3> QED BY <1>0, <2>5, <2>6, <3>1 DEF FinalsDoNotAccumulate
  <2>10. CASE d < n
    <3>1. worker'.at = "put" /\ worker'.job = worker.job /\ worker'.doc = d + 1
      BY <1>0, <2>1, <2>10 DEF TypeOK, WorkerRow
    <3>2. d + 1 \in Round(Project) /\ (d + 1) - 1 = d
      BY <2>3, <2>10 DEF Round
    <3>3. WorkerInv'
      BY <1>b, <1>c, <2>1, <2>2, <2>5, <3>1, <3>2, StageReached
    <3> QED BY <2>7, <2>8, <2>9, <3>3 DEF IInv
  <2>11. CASE ~(d < n)
    <3>1. worker'.at = "clear" /\ worker'.job = worker.job
      BY <1>0, <2>1, <2>11 DEF TypeOK, WorkerRow
    <3>2. 1..d = Round(Project)
      BY <2>3, <2>11 DEF Round
    <3>3. WorkerInv'
      BY <1>b, <1>c, <2>1, <2>2, <2>5, <3>1, <3>2, StageReached
    <3> QED BY <2>7, <2>8, <2>9, <3>3 DEF IInv
  <2> QED BY <2>10, <2>11
<1>7. CASE ClearMerge
  <2>1. /\ worker.at = "clear"
        /\ worker' = [worker EXCEPT !.at = "complete", !.err = FALSE]
        /\ UNCHANGED <<status, attempts, round, rows, blob, job, requests>>
    BY <1>7 DEF ClearMerge
  <2>2. error' \in [Projects -> BOOLEAN]
    BY <1>0, <1>7, <1>b DEF ClearMerge, TypeOK
  <2>3. TypeOK'
    BY <1>0, <2>1, <2>2, WorkerMoves DEF TypeOK, Stages
  <2>4. worker'.at = "complete" /\ worker'.job = worker.job
    BY <1>0, <2>1 DEF TypeOK, WorkerRow
  <2>5. Written(Project, Round(Project))
    BY <1>0, <1>a, <2>1 DEF WorkerInv
  <2>6. WorkerInv'
    BY <1>b, <1>c, <2>1, <2>4, <2>5, StageReached DEF Written
  <2> QED BY <1>0, <2>1, <2>3, <2>6, FinalsStay DEF IInv
<1>8. CASE Complete
  <2>1. /\ worker.at = "complete"
        /\ status' = [status EXCEPT ![Project] = "completed"]
        /\ worker' = [worker EXCEPT !.at = "notify"]
        /\ UNCHANGED <<error, attempts, round, rows, blob, job, requests>>
    BY <1>8 DEF Complete, GoTo
  <2>2. Written(Project, Round(Project))
    BY <1>0, <1>a, <2>1 DEF WorkerInv
  <2>3. TypeOK'
    BY <1>0, <1>b, <2>1, WorkerMoves DEF TypeOK, Stages
  <2>4. /\ status'[Project] = "completed"
        /\ \A p \in Projects : p # Project => status'[p] = status[p]
    BY <1>0, <1>b, <2>1 DEF TypeOK
  <2>5. \A p \in Projects : Written(p, Round(p))' = Written(p, Round(p))
    BY <2>1 DEF Written, Round
  <2>6. CompletedIsCertified'
    BY <1>0, <2>2, <2>4, <2>5 DEF CompletedIsCertified
  <2>7. FinalsDoNotAccumulate'
    BY <1>0, <2>1 DEF FinalsDoNotAccumulate
  <2>8. worker'.at = "notify" /\ worker'.job = worker.job
    BY <1>0, <2>1 DEF TypeOK, WorkerRow
  <2>9. WorkerInv'
    BY <1>b, <2>1, <2>4, <2>8 DEF WorkerInv, Project
  <2> QED BY <2>3, <2>6, <2>7, <2>9 DEF IInv
<1> QED BY <1>1, <1>2, <1>3, <1>4, <1>5, <1>6, <1>7, <1>8

-----------------------------------------------------------------------------
\* Every step preserves the invariant.
LEMMA NextIInv ==
  ASSUME "put" \notin Faults, IInv, [Next]_vars
  PROVE  IInv'
<1>1. CASE UNCHANGED vars
  <2>1. TypeOK /\ CompletedIsCertified /\ FinalsDoNotAccumulate /\ WorkerInv
    BY DEF IInv
  <2>2. TypeOK'
    BY <1>1, <2>1 DEF vars, TypeOK
  <2> QED BY <1>1, <2>1, <2>2, FinalsStay, WorkerStays DEF vars, IInv
<1>2. CASE UserStep \/ RequestStep
  BY <1>2, RequestsKeep DEF RequestStep, ServeRequest
<1>3. CASE WorkerStep
  BY <1>3, EndsKeep, JobKeeps DEF WorkerStep
<1>4. CASE FaultStep
  BY <1>4, RequestsKeep, EndsKeep DEF FaultStep
<1> QED BY <1>1, <1>2, <1>3, <1>4 DEF Next

\* Merge's inductive invariant, for any number of projects, documents and jobs and
\* any faults but a disk that loses what it was given.
THEOREM MergeInvariance ==
  ASSUME "put" \notin Faults
  PROVE  Spec => []IInv
<1>1. IInv /\ [Next]_vars => IInv'
  BY NextIInv
<1> QED BY <1>1, InitIInv, PTL DEF Spec

\* Every variable of Merge keeps its type (MergeFinalFileJob, ReviewController).
THEOREM MergeTypeCorrect ==
  ASSUME "put" \notin Faults
  PROVE  Spec => []TypeOK
<1>1. IInv => TypeOK
  BY DEF IInv
<1> QED BY <1>1, MergeInvariance, PTL

\* A completed project has the whole set, from one merge, on disk
\* (MergeFinalFileJob::handle).
THEOREM CompletedCertified ==
  ASSUME "put" \notin Faults
  PROVE  Spec => []CompletedIsCertified
<1>1. IInv => CompletedIsCertified
  BY DEF IInv
<1> QED BY <1>1, MergeInvariance, PTL

\* Re-merging does not accumulate finals (discardPreviousFinals).
THEOREM NoAccumulation ==
  ASSUME "put" \notin Faults
  PROVE  Spec => []FinalsDoNotAccumulate
<1>1. IInv => FinalsDoNotAccumulate
  BY DEF IInv
<1> QED BY <1>1, MergeInvariance, PTL

\* The certified set is never written again: whoever writes a final is on an
\* approved project.
THEOREM CertifiedStays ==
  ASSUME "put" \notin Faults
  PROVE  Spec => CertifiedIsFinal
<1> DEFINE Kept == \A p \in Projects : status[p] \in {"completed", "archived"} =>
                     rows[p]' = rows[p] /\ blob[p]' = blob[p]
<1>1. ASSUME IInv, [Next]_vars PROVE [Kept]_vars
  <2> SUFFICES ASSUME Next PROVE Kept
    BY <1>1
  <2>1. CASE UNCHANGED <<rows, blob>>
    BY <2>1
  <2>2. CASE Put \/ CreateRow \/ \E r \in worker.old : Discard(r)
    <3>1. Busy /\ worker.at \notin {"start", "notify"}
      BY <2>2 DEF Put, CreateRow, RowThenNext, Discard, Busy
    <3>2. TypeOK /\ WorkerInv
      BY <1>1 DEF IInv
    <3>3. status[Project] = "approved" /\ Project \in Projects
      BY <3>1, <3>2, ProjectOfWorker DEF WorkerInv
    <3>4. \A q \in Projects : q # Project => rows'[q] = rows[q] /\ blob'[q] = blob[q]
      BY <2>2, <3>2 DEF Put, CreateRow, RowThenNext, Discard, TypeOK
    <3> QED BY <3>3, <3>4
  <2>3. CASE UserStep
    BY <2>1, <2>3 DEF UserStep, Approve, StartRetry, Archive
  <2>4. CASE RequestStep
    BY <2>1, <2>4 DEF RequestStep, ServeRequest, ClearError, Dispatch
  <2>5. CASE WorkerStep
    BY <2>1, <2>2, <2>5
       DEF WorkerStep, Take, Redeliver, Begin, MergeAll, StartWriting, ClearMerge,
           Complete, Notify
  <2>6. CASE FaultStep
    BY <2>1, <2>6 DEF FaultStep, Throw, Timeout, Kill, DropRequest
  <2> QED BY <2>3, <2>4, <2>5, <2>6 DEF Next
<1> QED BY <1>1, MergeInvariance, PTL DEF Spec, CertifiedIsFinal
=============================================================================
