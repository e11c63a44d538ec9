--------------------------- MODULE JobQueueProofs ---------------------------
(***************************************************************************)
(* Proofs about JobQueue for any number of processes, rows, kinds and      *)
(* attempts, and any clock.                                                *)
(***************************************************************************)
EXTENDS JobQueue, WellFoundedInduction, TLAPS

Inv == TypeOK /\ HeldRowCarriesClaim /\ HeldRowsAreExclusive

-----------------------------------------------------------------------------
(* The statements keep the table well typed.                               *)

LEMMA RowTypes ==
    ASSUME NEW T \in JobTable, NEW i \in JobIds
    PROVE  /\ T[i] \in JobRow \cup {NoRow}
           /\ T[i].status \in Status \cup {"none"}
           /\ T[i].attempts \in 0..MaxAttempts
           /\ T[i].runAt \in Nat
           /\ T[i].updatedAt \in Nat
           /\ T[i].status # "none" => T[i] \in JobRow
  BY JobRunsAssumption DEF JobTable, JobRow, NoRow, Status

LEMMA EnqueueTable ==
    ASSUME NEW T \in JobTable, NEW i \in JobIds, NEW k \in Kinds,
           NEW at \in Nat, NEW now \in Nat
    PROVE  EnqueueJobRun(T, i, k, at, now) \in JobTable
  BY JobRunsAssumption DEF EnqueueJobRun, JobTable, JobRow, Status

LEMMA ClaimTable ==
    ASSUME NEW T \in JobTable, NEW i \in JobIds, NEW now \in Nat, Queued(T, i)
    PROVE  ClaimJobRun(T, i, now) \in JobTable
  <1>1. T[i] \in JobRow
    BY RowTypes DEF Queued
  <1> QED
    BY <1>1 DEF ClaimJobRun, JobTable, JobRow, Status

LEMMA UpdateTable ==
    ASSUME NEW T \in JobTable, NEW i \in JobIds, NEW row,
           Exists(T, i) => row \in JobRow
    PROVE  Update(T, i, row) \in JobTable
  BY DEF Update, JobTable

LEMMA CompleteTable ==
    ASSUME NEW T \in JobTable, NEW i \in JobIds, NEW now \in Nat
    PROVE  CompleteJobRun(T, i, now) \in JobTable
  <1>1. Exists(T, i) => T[i] \in JobRow
    BY RowTypes DEF Exists
  <1>2. Exists(T, i) =>
          [T[i] EXCEPT !.status = "done", !.updatedAt = now] \in JobRow
    BY <1>1 DEF JobRow, Status
  <1> QED
    BY <1>2, UpdateTable DEF CompleteJobRun

LEMMA RescheduleTable ==
    ASSUME NEW T \in JobTable, NEW i \in JobIds, NEW n \in 0..MaxAttempts,
           NEW at \in Nat, NEW now \in Nat
    PROVE  RescheduleJobRun(T, i, n, at, now) \in JobTable
  <1>1. Exists(T, i) => T[i] \in JobRow
    BY RowTypes DEF Exists
  <1>2. Exists(T, i) =>
          [T[i] EXCEPT !.status = "queued", !.attempts = n,
                       !.runAt = at, !.updatedAt = now] \in JobRow
    BY <1>1 DEF JobRow, Status
  <1> QED
    BY <1>2, UpdateTable DEF RescheduleJobRun

LEMMA FailTable ==
    ASSUME NEW T \in JobTable, NEW i \in JobIds, NEW n \in 0..MaxAttempts,
           NEW now \in Nat
    PROVE  FailJobRun(T, i, n, now) \in JobTable
  <1>1. Exists(T, i) => T[i] \in JobRow
    BY RowTypes DEF Exists
  <1>2. Exists(T, i) =>
          [T[i] EXCEPT !.status = "failed", !.attempts = n,
                       !.updatedAt = now] \in JobRow
    BY <1>1 DEF JobRow, Status
  <1> QED
    BY <1>2, UpdateTable DEF FailJobRun

LEMMA DeleteFinishedTable ==
    ASSUME NEW T \in JobTable, NEW cutoff
    PROVE  DeleteFinishedJobRuns(T, cutoff) \in JobTable
  BY RowTypes DEF DeleteFinishedJobRuns, JobTable

LEMMA CancelTable ==
    ASSUME NEW T \in JobTable, NEW k
    PROVE  CancelQueuedPublishJobs(T, k) \in JobTable
  BY RowTypes DEF CancelQueuedPublishJobs, JobTable

LEMMA CancelPageTable ==
    ASSUME NEW T \in JobTable, NEW k, NEW now \in Nat
    PROVE  CancelQueuedPublishPageJobs(T, k, now) \in JobTable
  <1>1. ASSUME NEW i \in JobIds, Queued(T, i)
        PROVE  [T[i] EXCEPT !.status = "failed", !.updatedAt = now] \in JobRow
    <2>1. T[i] \in JobRow
      BY <1>1, RowTypes DEF Queued
    <2> QED
      BY <2>1 DEF JobRow, Status
  <1> QED
    BY <1>1, RowTypes DEF CancelQueuedPublishPageJobs, JobTable

(* Recovery needs the budget of running rows to keep attempts in range. *)
LEMMA RequeueTable ==
    ASSUME NEW T \in JobTable, NEW cutoff, NEW now \in Nat,
           \A i \in JobIds : T[i].status = "running" => T[i].attempts < MaxAttempts
    PROVE  RequeueStaleRunningJobRuns(T, cutoff, now) \in JobTable
  <1> SUFFICES ASSUME NEW i \in JobIds
               PROVE  RequeueStaleRunningJobRuns(T, cutoff, now)[i]
                        \in JobRow \cup {NoRow}
    BY DEF RequeueStaleRunningJobRuns, JobTable
  <1>1. CASE Stale(T[i], cutoff)
    <2>1. T[i] \in JobRow /\ T[i].attempts + 1 \in 0..MaxAttempts
      BY <1>1, RowTypes, JobRunsAssumption DEF Stale
    <2> QED
      BY <1>1, <2>1 DEF RequeueStaleRunningJobRuns, JobRow, Status
  <1>2. CASE ~Stale(T[i], cutoff)
    BY <1>2, RowTypes DEF RequeueStaleRunningJobRuns
  <1> QED  BY <1>1, <1>2

-----------------------------------------------------------------------------
(* Steps that leave every worker where it is in RunOnce and every running  *)
(* row alone keep the invariant.                                           *)

SamePlace(v, w) ==
    v.pc = w.pc /\ v.id = w.id /\ v.attempts = w.attempts /\ v.now = w.now

LEMMA Frame ==
    ASSUME Inv, TypeOK',
           \A p \in Procs : SamePlace(worker'[p], worker[p]),
           \A i \in JobIds : jobs[i].status = "running" => jobs'[i] = jobs[i],
           \A i \in JobIds : Active(i)' => jobs'[i].attempts < MaxAttempts
    PROVE  Inv'
  BY DEF Inv, SamePlace, HeldRowCarriesClaim, HeldRowsAreExclusive, Holding

LEMMA EnqueueFrame ==
    ASSUME Inv, NEW T \in JobTable, NEW i \in JobIds, IsNextRowId(T, i),
           NEW k \in Kinds, NEW at \in Nat, TypeOK',
           \A j \in JobIds : T[j] = jobs[j] \/ (Queued(jobs, j) /\ T[j] = NoRow),
           jobs' = EnqueueJobRun(T, i, k, at, clock),
           \A p \in Procs : SamePlace(worker'[p], worker[p])
    PROVE  Inv'
  <1>1. T[i].status = "none"
    BY JobRunsAssumption DEF IsNextRowId, Exists, JobIds
  <1>2. \A j \in JobIds : jobs[j].status = "running" => jobs'[j] = jobs[j]
    BY <1>1 DEF EnqueueJobRun, JobTable, Queued
  <1>3. \A j \in JobIds : Active(j)' => jobs'[j].attempts < MaxAttempts
    BY <1>1, JobRunsAssumption
       DEF EnqueueJobRun, JobTable, Active, Inv, HeldRowCarriesClaim, NoRow
  <1> QED
    BY <1>2, <1>3, Frame

(* A worker that leaves RunOnce, or has yet to claim, holds nothing. *)
LEMMA ReleaseFrame ==
    ASSUME Inv, TypeOK', NEW p \in Procs,
           worker'[p].pc \notin {"claim", "run", "book"},
           \A q \in Procs \ {p} : worker'[q] = worker[q],
           \A q \in Procs \ {p} : Holding(q) => jobs'[worker[q].id] = jobs[worker[q].id],
           \A i \in JobIds : Active(i)' => jobs'[i].attempts < MaxAttempts
    PROVE  Inv'
  BY DEF Inv, HeldRowCarriesClaim, HeldRowsAreExclusive, Holding

-----------------------------------------------------------------------------
LEMMA InitInv == Init => Inv
  BY JobRunsAssumption
     DEF Init, Inv, TypeOK, HeldRowCarriesClaim, HeldRowsAreExclusive, Holding,
         Active, JobTable, EmptyTable, NoRow, Worker, Down, Outside, Pcs, Outcomes

LEMMA WriterInv ==
    ASSUME Inv, NEW p \in Procs, Writer(p)
    PROVE  Inv'
  <1> USE DEF Inv, TypeOK
  <1>0. /\ clock' \in Nat /\ faults' \in Nat /\ starts' \in Nat
        /\ clock' = clock
    BY DEF Writer, Enqueue, EnqueueTx, SaveSchedule, DestroyArticle, CancelPageJobs,
           EnqueueUnlessActive, CleanupFinishedJobRuns
  <1>1. /\ worker' \in [Procs -> Worker]
        /\ \A q \in Procs : SamePlace(worker'[q], worker[q])
    <2>1. worker' = worker \/ worker' = Nudge(p)
      BY DEF Writer, Enqueue, EnqueueTx, SaveSchedule, DestroyArticle, CancelPageJobs,
             EnqueueUnlessActive, CleanupFinishedJobRuns
    <2>2. CASE worker' = worker
      BY <2>2 DEF SamePlace
    <2>3. CASE worker' = Nudge(p)
      BY <2>3 DEF Nudge, Worker, SamePlace
    <2> QED  BY <2>1, <2>2, <2>3
  <1>2. CASE Enqueue(p)
    <2>1. PICK k \in Kinds \ SingletonKinds, d \in Delays, i \in JobIds :
            /\ IsNextRowId(jobs, i)
            /\ jobs' = EnqueueJobRun(jobs, i, k, clock + d, clock)
            /\ execs' = [execs EXCEPT ![i] = 0]
      BY <1>2 DEF Enqueue
    <2>2. clock + d \in Nat
      BY JobQueueAssumption
    <2>3. TypeOK'
      BY <1>0, <1>1, <2>1, <2>2, EnqueueTable
    <2> QED
      BY <1>1, <2>1, <2>2, <2>3, EnqueueFrame
  <1>3. CASE SaveSchedule(p)
    <2>1. PICK k \in ArticleKinds, d \in Delays, i \in JobIds :
            /\ IsNextRowId(CancelQueuedPublishJobs(jobs, k), i)
            /\ jobs' = EnqueueJobRun(CancelQueuedPublishJobs(jobs, k), i, k,
                                     clock + d, clock)
            /\ execs' = [execs EXCEPT ![i] = 0]
      BY <1>3 DEF SaveSchedule
    <2>2. clock + d \in Nat /\ k \in Kinds
      BY JobQueueAssumption
    <2>3. /\ CancelQueuedPublishJobs(jobs, k) \in JobTable
          /\ \A j \in JobIds :
                \/ CancelQueuedPublishJobs(jobs, k)[j] = jobs[j]
                \/ Queued(jobs, j) /\ CancelQueuedPublishJobs(jobs, k)[j] = NoRow
      BY CancelTable DEF CancelQueuedPublishJobs
    <2>4. TypeOK'
      BY <1>0, <1>1, <2>1, <2>2, <2>3, EnqueueTable
    <2> QED
      BY <1>1, <2>1, <2>2, <2>3, <2>4, EnqueueFrame
  <1>4. CASE DestroyArticle(p)
    <2>1. PICK k \in ArticleKinds : jobs' = CancelQueuedPublishJobs(jobs, k)
      BY <1>4 DEF DestroyArticle
    <2>2. TypeOK'
      BY <1>0, <1>1, <1>4, <2>1, CancelTable DEF DestroyArticle
    <2>3. \A i \in JobIds : jobs'[i] = jobs[i] \/ (Queued(jobs, i) /\ jobs'[i] = NoRow)
      BY <2>1 DEF CancelQueuedPublishJobs
    <2> QED
      BY <1>1, <2>2, <2>3, Frame DEF Queued, Active, NoRow, HeldRowCarriesClaim
  <1>5. CASE CancelPageJobs(p)
    <2>1. PICK k \in PageKinds : jobs' = CancelQueuedPublishPageJobs(jobs, k, clock)
      BY <1>5 DEF CancelPageJobs
    <2>2. TypeOK'
      BY <1>0, <1>1, <1>5, <2>1, CancelPageTable DEF CancelPageJobs
    <2>3. \A i \in JobIds :
            \/ jobs'[i] = jobs[i]
            \/ Queued(jobs, i) /\ jobs'[i].status = "failed"
      <3> TAKE i \in JobIds
      <3>1. CASE Queued(jobs, i) /\ jobs[i].kind = k
        <4>1. jobs[i] \in JobRow
          BY <3>1, RowTypes DEF Queued
        <4> QED
          BY <3>1, <4>1, <2>1 DEF CancelQueuedPublishPageJobs, JobRow
      <3>2. CASE ~(Queued(jobs, i) /\ jobs[i].kind = k)
        BY <3>2, <2>1 DEF CancelQueuedPublishPageJobs
      <3> QED  BY <3>1, <3>2
    <2> QED
      BY <1>1, <2>2, <2>3, Frame DEF Queued, Active, HeldRowCarriesClaim
  <1>6. CASE EnqueueUnlessActive(p)
    <2>1. PICK k \in SingletonKinds, i \in JobIds :
            /\ IsNextRowId(jobs, i)
            /\ jobs' = EnqueueJobRun(jobs, i, k, clock, clock)
            /\ execs' = [execs EXCEPT ![i] = 0]
      BY <1>6 DEF EnqueueUnlessActive
    <2>2. k \in Kinds
      BY JobQueueAssumption
    <2>3. TypeOK'
      BY <1>0, <1>1, <2>1, <2>2, EnqueueTable
    <2> QED
      BY <1>1, <2>1, <2>2, <2>3, EnqueueFrame
  <1>8. CASE EnqueueTx(p)
    <2>1. PICK k \in TxKinds, i \in JobIds :
            /\ IsNextRowId(jobs, i)
            /\ jobs' = EnqueueJobRun(jobs, i, k, clock, clock)
            /\ execs' = [execs EXCEPT ![i] = 0]
      BY <1>8 DEF EnqueueTx
    <2>2. k \in Kinds
      BY JobQueueAssumption
    <2>3. TypeOK'
      BY <1>0, <1>1, <2>1, <2>2, EnqueueTable
    <2> QED
      BY <1>1, <2>1, <2>2, <2>3, EnqueueFrame
  <1>7. CASE CleanupFinishedJobRuns(p)
    <2>1. jobs' = DeleteFinishedJobRuns(jobs, clock - Retention)
      BY <1>7 DEF CleanupFinishedJobRuns
    <2>2. TypeOK'
      BY <1>0, <1>1, <1>7, <2>1, DeleteFinishedTable DEF CleanupFinishedJobRuns
    <2>3. \A i \in JobIds :
            \/ jobs'[i] = jobs[i]
            \/ jobs[i].status \in {"done", "failed"} /\ jobs'[i] = NoRow
      <3> TAKE i \in JobIds
      <3>1. CASE jobs[i].status \in {"done", "failed"}
        BY <3>1, <2>1 DEF DeleteFinishedJobRuns
      <3>2. CASE jobs[i].status \notin {"done", "failed"}
        BY <3>2, <2>1 DEF DeleteFinishedJobRuns
      <3> QED  BY <3>1, <3>2
    <2> QED
      BY <1>1, <2>2, <2>3, Frame DEF Active, NoRow, HeldRowCarriesClaim
  <1> QED
    BY <1>2, <1>3, <1>4, <1>5, <1>6, <1>7, <1>8 DEF Writer

(* Leaving RunOnce with the table unchanged. *)
LEMMA LeaveInv ==
    ASSUME Inv, NEW p \in Procs, NEW w \in Worker,
           w.pc \notin {"claim", "run", "book"},
           worker' = [worker EXCEPT ![p] = w],
           UNCHANGED <<clock, jobs, starts, execs>>, faults' \in Nat
    PROVE  Inv'
  <1>1. TypeOK'
    BY DEF Inv, TypeOK
  <1> QED
    BY <1>1, ReleaseFrame DEF Inv, TypeOK, HeldRowCarriesClaim, Active

LEMMA OutsideType ==
    ASSUME NEW pc \in Pcs, NEW c \in BOOLEAN, NEW k \in BOOLEAN
    PROVE  Outside(pc, c, k) \in Worker /\ Outside(pc, c, k).pc = pc
  BY JobRunsAssumption DEF Outside, Worker, Outcomes

LEMMA LeaveType ==
    ASSUME TypeOK, NEW p \in Procs, NEW pc \in Pcs
    PROVE  Leave(p, pc) \in Worker /\ Leave(p, pc).pc = pc
  BY OutsideType DEF TypeOK, Leave, Worker

(* What a bookkeeping write does: the worker's own row leaves "running"    *)
(* within its budget, every other row is untouched.                        *)
Settled(w, T) ==
    /\ T \in JobTable
    /\ \A i \in JobIds \ {w.id} : T[i] = jobs[i]
    /\ T[w.id].kind = jobs[w.id].kind
    /\ \/ T[w.id].status = "done" /\ ~FreeRequeue(w)
       \/ T[w.id].status = "failed" /\ ~FreeRequeue(w)
       \/ /\ T[w.id].status = "queued"
          /\ T[w.id].attempts < MaxAttempts
          /\ T[w.id].attempts = IF FreeRequeue(w) THEN w.attempts
                                                  ELSE w.attempts + 1

LEMMA BookTable ==
    ASSUME Inv, NEW p \in Procs, NEW w, w = worker[p], w.pc = "book"
    PROVE  Settled(w, Bookkeep(w, clock))
  <1> DEFINE T == Bookkeep(w, clock)
  <1>1. /\ w \in Worker /\ w.id \in JobIds /\ w.attempts \in 0..MaxAttempts
        /\ w.attempts < MaxAttempts /\ w.now \in Nat /\ clock \in Nat
        /\ jobs \in JobTable /\ jobs[w.id].status = "running"
    BY DEF Inv, TypeOK, HeldRowCarriesClaim, HeldRowsAreExclusive, Holding, Worker
  <1>2. jobs[w.id] \in JobRow /\ Exists(jobs, w.id)
    BY <1>1, RowTypes DEF Exists
  <1>3. w.attempts + 1 \in 0..MaxAttempts
    BY <1>1, JobRunsAssumption
  <1>4. w.now + Delay(w.attempts) \in Nat
    <2>1. (IF w.attempts < BackoffLen THEN w.attempts + 1 ELSE BackoffLen)
            \in 1..BackoffLen
      BY <1>1, JobQueueAssumption
    <2>2. Delay(w.attempts) \in Nat
      BY <2>1, JobQueueAssumption DEF Delay
    <2> QED
      BY <1>1, <2>2
  <1>5. CASE w.outcome = "ok"
    <2> DEFINE row == [jobs[w.id] EXCEPT !.status = "done", !.updatedAt = w.now]
    <2>1. T = CompleteJobRun(jobs, w.id, w.now)
      BY <1>5 DEF Bookkeep, FreeRequeue
    <2>2. T \in JobTable
      BY <1>1, <1>3, <1>4, <2>1, CompleteTable
    <2>3. T = [jobs EXCEPT ![w.id] = row]
      BY <1>2, <2>1 DEF CompleteJobRun, Update
    <2>4. T[w.id] = row /\ \A i \in JobIds \ {w.id} : T[i] = jobs[i]
      BY <1>1, <2>3 DEF JobTable
    <2> QED
      BY <1>1, <1>2, <1>5, <2>2, <2>4 DEF JobRow, Settled, FreeRequeue
  <1>6. CASE w.outcome = "unknown"
    <2> DEFINE row == [jobs[w.id] EXCEPT !.status = "failed",
                                       !.attempts = w.attempts, !.updatedAt = clock]
    <2>1. T = FailJobRun(jobs, w.id, w.attempts, clock)
      BY <1>6 DEF Bookkeep, FreeRequeue
    <2>2. T \in JobTable
      BY <1>1, <1>3, <1>4, <2>1, FailTable
    <2>3. T = [jobs EXCEPT ![w.id] = row]
      BY <1>2, <2>1 DEF FailJobRun, Update
    <2>4. T[w.id] = row /\ \A i \in JobIds \ {w.id} : T[i] = jobs[i]
      BY <1>1, <2>3 DEF JobTable
    <2> QED
      BY <1>1, <1>2, <1>6, <2>2, <2>4 DEF JobRow, Settled, FreeRequeue
  <1>7. CASE FreeRequeue(w)
    <2> DEFINE row == [jobs[w.id] EXCEPT !.status = "queued", !.attempts = w.attempts,
                                       !.runAt = w.now, !.updatedAt = w.now]
    <2>1. T = RescheduleJobRun(jobs, w.id, w.attempts, w.now, w.now)
      BY <1>7 DEF Bookkeep, FreeRequeue
    <2>2. T \in JobTable
      BY <1>1, <1>3, <1>4, <2>1, RescheduleTable
    <2>3. T = [jobs EXCEPT ![w.id] = row]
      BY <1>2, <2>1 DEF RescheduleJobRun, Update
    <2>4. T[w.id] = row /\ \A i \in JobIds \ {w.id} : T[i] = jobs[i]
      BY <1>1, <2>3 DEF JobTable
    <2> QED
      BY <1>1, <1>2, <1>7, <2>2, <2>4 DEF JobRow, Settled, FreeRequeue
  <1>8. CASE w.outcome \notin {"ok", "unknown"} /\ ~FreeRequeue(w)
    <2>1. CASE w.attempts + 1 >= MaxAttempts
      <3> DEFINE row == [jobs[w.id] EXCEPT !.status = "failed",
                                         !.attempts = w.attempts + 1, !.updatedAt = clock]
      <3>1. T = FailJobRun(jobs, w.id, w.attempts + 1, clock)
        BY <1>8, <2>1 DEF Bookkeep
      <3>2. T \in JobTable
        BY <1>1, <1>3, <1>4, <3>1, FailTable
      <3>3. T = [jobs EXCEPT ![w.id] = row]
        BY <1>2, <3>1 DEF FailJobRun, Update
      <3>4. T[w.id] = row /\ \A i \in JobIds \ {w.id} : T[i] = jobs[i]
        BY <1>1, <3>3 DEF JobTable
      <3> QED
        BY <1>1, <1>2, <1>8, <3>2, <3>4 DEF JobRow, Settled, FreeRequeue
    <2>2. CASE ~(w.attempts + 1 >= MaxAttempts)
      <3> DEFINE row == [jobs[w.id] EXCEPT !.status = "queued",
                       !.attempts = w.attempts + 1,
                       !.runAt = w.now + Delay(w.attempts), !.updatedAt = w.now]
      <3>1. T = RescheduleJobRun(jobs, w.id, w.attempts + 1,
                                  w.now + Delay(w.attempts), w.now)
        BY <1>8, <2>2 DEF Bookkeep
      <3>2. T \in JobTable
        BY <1>1, <1>3, <1>4, <3>1, RescheduleTable
      <3>3. T = [jobs EXCEPT ![w.id] = row]
        BY <1>2, <3>1 DEF RescheduleJobRun, Update
      <3>4. T[w.id] = row /\ \A i \in JobIds \ {w.id} : T[i] = jobs[i]
        BY <1>1, <3>3 DEF JobTable
      <3>5. w.attempts + 1 < MaxAttempts
        BY <1>3, <2>2, JobRunsAssumption
      <3> QED
        BY <1>1, <1>2, <1>8, <3>5, <3>2, <3>4 DEF JobRow, Settled, FreeRequeue
    <2> QED  BY <2>1, <2>2
  <1> QED
    BY <1>5, <1>6, <1>7, <1>8

LEMMA WorkerInv ==
    ASSUME Inv, NEW p \in Procs, WorkerStep(p)
    PROVE  Inv'
  <1> USE DEF Inv
  <1>0. worker \in [Procs -> Worker] /\ worker[p] \in Worker /\ faults \in Nat
    BY DEF TypeOK
  <1>1. CASE TakeWake(p) \/ PollTick(p)
    <2>1. PICK w \in Worker : /\ worker' = [worker EXCEPT ![p] = w]
                              /\ w.pc = "poll"
      <3>1. /\ [worker[p] EXCEPT !.pc = "poll", !.wake = FALSE] \in Worker
            /\ [worker[p] EXCEPT !.pc = "poll"] \in Worker
        BY <1>0 DEF Worker, Pcs
      <3>2. \/ worker' = [worker EXCEPT ![p] = [worker[p] EXCEPT !.pc = "poll", !.wake = FALSE]]
            \/ worker' = [worker EXCEPT ![p] = [worker[p] EXCEPT !.pc = "poll"]]
        BY <1>1 DEF TakeWake, PollTick
      <3> QED
        BY <1>0, <3>1, <3>2 DEF Worker
    <2> QED
      BY <1>1, <1>0, <2>1, LeaveInv DEF TakeWake, PollTick
  <1>2. CASE StartReturns(p) \/ NoneDue(p) \/ LostRace(p) \/ QueryError(p)
    <2>1. Leave(p, "stopped") \in Worker /\ Leave(p, "stopped").pc = "stopped"
      BY LeaveType DEF Pcs
    <2>2. Leave(p, "wait") \in Worker /\ Leave(p, "wait").pc = "wait"
      BY LeaveType DEF Pcs
    <2>3. /\ UNCHANGED <<clock, jobs, starts, execs>> /\ faults' \in Nat
          /\ \/ worker' = [worker EXCEPT ![p] = Leave(p, "stopped")]
             \/ worker' = [worker EXCEPT ![p] = Leave(p, "wait")]
      BY <1>2, <1>0 DEF StartReturns, NoneDue, LostRace, QueryError
    <2> QED
      BY <2>1, <2>2, <2>3, LeaveInv
  <1>3. CASE GetDue(p)
    <2>1. PICK i \in GetDueJobRun(jobs, clock) :
            worker' = [worker EXCEPT ![p].pc = "claim", ![p].id = i,
                                     ![p].kind = jobs[i].kind,
                                     ![p].attempts = jobs[i].attempts,
                                     ![p].now = clock]
      BY <1>3 DEF GetDue
    <2>2. i \in JobIds /\ Queued(jobs, i)
      BY DEF GetDueJobRun, Due
    <2>3. /\ jobs[i] \in JobRow /\ jobs[i].attempts < MaxAttempts
          /\ clock \in Nat
      BY <2>2, RowTypes DEF Queued, TypeOK, HeldRowCarriesClaim, Active
    <2> DEFINE w == [worker[p] EXCEPT !.pc = "claim", !.id = i,
                       !.kind = jobs[i].kind, !.attempts = jobs[i].attempts,
                       !.now = clock]
    <2>4. w \in Worker /\ w.pc = "claim" /\ w.id = i /\ w.attempts < MaxAttempts
      BY <1>0, <2>2, <2>3 DEF Worker, Pcs, JobRow
    <2>5. worker' = [worker EXCEPT ![p] = w]
      BY <1>0, <2>1
    <2>6. TypeOK'
      BY <1>3, <2>4, <2>5 DEF GetDue, TypeOK
    <2> HIDE DEF w
    <2>7. UNCHANGED jobs
      BY <1>3 DEF GetDue
    <2> QED
      BY <1>0, <2>2, <2>4, <2>5, <2>6, <2>7
         DEF HeldRowCarriesClaim, HeldRowsAreExclusive, Holding, Active
  <1>4. CASE Claim(p)
    <2> DEFINE i == worker[p].id
    <2>1. /\ i \in JobIds /\ Queued(jobs, i) /\ worker[p].now \in Nat
          /\ jobs \in JobTable /\ jobs' = ClaimJobRun(jobs, i, worker[p].now)
      BY <1>4, <1>0 DEF Claim, HeldRowCarriesClaim, TypeOK, Worker
    <2>2. jobs' \in JobTable /\ jobs[i] \in JobRow
      BY <2>1, ClaimTable, RowTypes DEF Queued
    <2>3. /\ jobs'[i].status = "running" /\ jobs'[i].updatedAt = worker[p].now
          /\ jobs'[i].attempts = jobs[i].attempts
          /\ \A j \in JobIds \ {i} : jobs'[j] = jobs[j]
      BY <2>1, <2>2 DEF ClaimJobRun, JobTable, JobRow
    <2>4. PICK pc \in {"run", "book"}, o \in Outcomes :
            worker' = [worker EXCEPT ![p].pc = pc, ![p].outcome = o]
      BY <1>4 DEF Claim, Outcomes
    <2> DEFINE w == [worker[p] EXCEPT !.pc = pc, !.outcome = o]
    <2>5. /\ w \in Worker /\ w.pc \in {"run", "book"} /\ w.id = i
          /\ w.attempts = worker[p].attempts /\ w.now = worker[p].now
      BY <1>0 DEF Worker, Pcs
    <2>6. worker' = [worker EXCEPT ![p] = w]
      BY <1>0, <2>4
    <2> HIDE DEF w
    <2>7. TypeOK'
      <3>1. execs' \in [JobIds -> Int]
        BY <1>4, <2>1 DEF Claim, TypeOK
      <3> QED
        BY <1>4, <1>0, <2>2, <2>5, <2>6, <3>1 DEF Claim, TypeOK
    <2>w. worker'[p] = w /\ \A q \in Procs \ {p} : worker'[q] = worker[q]
      BY <1>0, <2>6
    <2>8. HeldRowCarriesClaim'
      <3>1. \A j \in JobIds : Active(j)' => jobs'[j].attempts < MaxAttempts
        BY <1>0, <2>1, <2>3 DEF HeldRowCarriesClaim, Active, Queued
      <3>2. \A q \in Procs : worker'[q].pc \in {"claim", "run", "book"} =>
              worker'[q].id \in JobIds /\ worker'[q].attempts < MaxAttempts
        <4>1. worker[p].attempts < MaxAttempts
          BY <1>4, <1>0 DEF Claim, HeldRowCarriesClaim
        <4> QED
          BY <1>0, <2>1, <2>5, <2>w, <4>1 DEF HeldRowCarriesClaim
      <3>3. \A q \in Procs : Holding(q)' => jobs'[worker'[q].id].updatedAt = worker'[q].now
        <4> SUFFICES ASSUME NEW q \in Procs, q # p, Holding(q)'
                     PROVE  jobs'[worker'[q].id].updatedAt = worker'[q].now
          BY <2>3, <2>5, <2>w
        <4>1. worker'[q] = worker[q] /\ Holding(q)
          BY <2>w DEF Holding
        <4>2. worker[q].id \in JobIds /\ worker[q].id # i
          BY <1>0, <2>1, <4>1 DEF HeldRowCarriesClaim, HeldRowsAreExclusive, Holding, Queued
        <4> QED
          BY <1>0, <2>3, <4>1, <4>2 DEF HeldRowCarriesClaim
      <3> QED
        BY <3>1, <3>2, <3>3 DEF HeldRowCarriesClaim
    <2>9. HeldRowsAreExclusive'
      BY <1>4, <1>0, <2>1, <2>3, <2>5, <2>6
         DEF Claim, HeldRowCarriesClaim, HeldRowsAreExclusive, Holding, Queued
    <2> QED
      BY <2>7, <2>8, <2>9
  <1>5. CASE HandlerReturns(p)
    <2>1. PICK o \in Outcomes :
            worker' = [worker EXCEPT ![p].pc = "book", ![p].outcome = o]
      BY <1>5 DEF HandlerReturns, Outcomes
    <2> DEFINE w == [worker[p] EXCEPT !.pc = "book", !.outcome = o]
    <2>2. /\ w \in Worker /\ w.pc = "book" /\ w.id = worker[p].id
          /\ w.attempts = worker[p].attempts /\ w.now = worker[p].now
      BY <1>0 DEF Worker, Pcs
    <2>3. worker' = [worker EXCEPT ![p] = w]
      BY <1>0, <2>1
    <2> HIDE DEF w
    <2>4. TypeOK'
      BY <1>5, <2>2, <2>3 DEF HandlerReturns, TypeOK
    <2> QED
      BY <1>5, <1>0, <2>2, <2>3, <2>4
         DEF HandlerReturns, HeldRowCarriesClaim, HeldRowsAreExclusive, Holding, Active
  <1>6. CASE Book(p)
    <2> DEFINE v == worker[p]
    <2>1. /\ v.pc = "book" /\ jobs' = Bookkeep(v, clock)
          /\ worker' = [worker EXCEPT ![p] = AfterRun(p)]
      BY <1>6 DEF Book
    <2>2. Settled(v, jobs')
      BY <2>1, BookTable
    <2>3. AfterRun(p) \in Worker /\ AfterRun(p).pc \in {"wait", "poll"}
      BY LeaveType DEF AfterRun, Pcs
    <2>4. TypeOK'
      <3>1. v.id \in JobIds
        BY <2>1 DEF HeldRowCarriesClaim
      <3>2. execs' \in [JobIds -> Int]
        BY <1>6, <3>1 DEF Book, TypeOK
      <3> QED
        BY <1>6, <1>0, <2>2, <2>1, <2>3, <3>2 DEF Book, TypeOK, Settled
    <2>5. \A i \in JobIds : Active(i)' => jobs'[i].attempts < MaxAttempts
      BY <2>2 DEF Settled, Active, HeldRowCarriesClaim
    <2>6. \A q \in Procs \ {p} : Holding(q) => jobs'[worker[q].id] = jobs[worker[q].id]
      BY <2>1, <2>2 DEF Settled, Holding, HeldRowsAreExclusive, HeldRowCarriesClaim
    <2> QED
      BY <1>0, <2>1, <2>3, <2>4, <2>5, <2>6, ReleaseFrame
  <1>7. CASE BookError(p)
    <2>1. AfterRun(p) \in Worker /\ AfterRun(p).pc \in {"wait", "poll"}
      BY LeaveType DEF AfterRun, Pcs
    <2>2. /\ worker' = [worker EXCEPT ![p] = AfterRun(p)] /\ faults' \in Nat
          /\ UNCHANGED <<clock, jobs, starts, execs>>
      BY <1>7, <1>0 DEF BookError
    <2> QED
      BY <2>1, <2>2, LeaveInv
  <1> QED
    BY <1>1, <1>2, <1>3, <1>4, <1>5, <1>6, <1>7 DEF WorkerStep

-----------------------------------------------------------------------------
(* Startup recovery spares the rows of live workers: MayStart puts their   *)
(* claims at or after the cutoff, and a held row carries its claim time.   *)
LEMMA LifecycleInv ==
    ASSUME Inv, NEW p \in Procs, Lifecycle(p)
    PROVE  Inv'
  <1> USE DEF Inv
  <1>0. worker \in [Procs -> Worker] /\ worker[p] \in Worker /\ faults \in Nat
    BY DEF TypeOK
  <1>1. CASE Shutdown(p)
    <2> DEFINE w == [worker[p] EXCEPT !.cancelled = TRUE]
    <2>1. w \in Worker /\ SamePlace(w, worker[p])
      BY <1>0 DEF Worker, SamePlace
    <2>2. worker' = [worker EXCEPT ![p] = w] /\ UNCHANGED jobs
      BY <1>0, <1>1 DEF Shutdown
    <2>3. TypeOK'
      BY <1>0, <1>1, <2>1, <2>2 DEF Shutdown, TypeOK
    <2> HIDE DEF w
    <2>4. \A q \in Procs : SamePlace(worker'[q], worker[q])
      BY <1>0, <2>1, <2>2 DEF SamePlace
    <2> QED
      BY <2>2, <2>3, <2>4, Frame DEF Active, HeldRowCarriesClaim
  <1>2. CASE Exit(p) \/ Kill(p)
    <2>1. Down \in Worker /\ Down.pc = "down"
      BY OutsideType DEF Down, Pcs
    <2>2. /\ worker' = [worker EXCEPT ![p] = Down] /\ faults' \in Nat
          /\ UNCHANGED <<clock, jobs, starts, execs>>
      BY <1>0, <1>2 DEF Exit, Kill
    <2> QED
      BY <2>1, <2>2, LeaveInv
  <1>3. CASE StartProcess(p)
    <2> DEFINE w == Outside("wait", FALSE, FALSE)
               cutoff == clock - StaleAfter
    <2>1. w \in Worker /\ w.pc = "wait"
      BY OutsideType DEF Pcs
    <2>2. /\ worker' = [worker EXCEPT ![p] = w] /\ MayStart(p)
          /\ clock \in Nat /\ jobs \in JobTable
          /\ clock' = clock /\ faults' \in Nat /\ starts' \in Nat
          /\ execs' \in [JobIds -> Int]
      BY <1>3 DEF StartProcess, TypeOK
    <2>0. CASE UNCHANGED jobs
      <3>1. TypeOK'
        BY <1>0, <2>0, <2>1, <2>2 DEF TypeOK
      <3> QED
        BY <1>0, <2>0, <2>1, <2>2, <3>1, ReleaseFrame DEF HeldRowCarriesClaim, Active
    <2> SUFFICES ASSUME jobs' = RequeueStaleRunningJobRuns(jobs, cutoff, clock)
                 PROVE  Inv'
      BY <1>3, <2>0 DEF StartProcess
    <2> HIDE DEF w
    <2>3. jobs' \in JobTable
      BY <2>2, RequeueTable DEF HeldRowCarriesClaim, Active
    <2>4. TypeOK'
      BY <1>0, <2>1, <2>2, <2>3 DEF TypeOK
    <2>5. \A q \in Procs \ {p} : Holding(q) => ~Stale(jobs[worker[q].id], cutoff)
      <3> TAKE q \in Procs \ {p}
      <3> HAVE Holding(q)
      <3>1. worker[q].now >= cutoff /\ jobs[worker[q].id].updatedAt = worker[q].now
        BY <2>2 DEF MayStart, Holding, HeldRowCarriesClaim
      <3>2. worker[q].now \in Nat /\ cutoff \in Int
        BY <1>0, <2>2, JobQueueAssumption DEF Worker
      <3> QED
        BY <3>1, <3>2 DEF Stale
    <2>6. \A q \in Procs \ {p} : Holding(q) => jobs'[worker[q].id] = jobs[worker[q].id]
      BY <2>2, <2>5 DEF RequeueStaleRunningJobRuns, HeldRowCarriesClaim, Holding
    <2>7. \A i \in JobIds : Active(i)' => jobs'[i].attempts < MaxAttempts
      <3> TAKE i \in JobIds
      <3>1. CASE Stale(jobs[i], cutoff)
        <4>1. jobs[i] \in JobRow
          BY <3>1, <2>2, RowTypes DEF Stale
        <4>2. /\ jobs'[i].status = IF jobs[i].attempts + 1 >= MaxAttempts
                                   THEN "failed" ELSE "queued"
              /\ jobs'[i].attempts = jobs[i].attempts + 1
          BY <2>2, <3>1, <4>1 DEF RequeueStaleRunningJobRuns, JobRow
        <4> QED
          BY <4>1, <4>2, JobRunsAssumption DEF Active, JobRow
      <3>2. CASE ~Stale(jobs[i], cutoff)
        BY <3>2, <2>2 DEF RequeueStaleRunningJobRuns, Active, HeldRowCarriesClaim
      <3> QED  BY <3>1, <3>2
    <2> QED
      BY <1>0, <2>1, <2>2, <2>4, <2>6, <2>7, ReleaseFrame
  <1> QED
    BY <1>1, <1>2, <1>3 DEF Lifecycle

LEMMA TickInv ==
    ASSUME Inv, Tick
    PROVE  Inv'
  <1>1. TypeOK'
    BY DEF Inv, TypeOK, Tick
  <1> QED
    BY <1>1 DEF Inv, Tick, HeldRowCarriesClaim, HeldRowsAreExclusive, Holding, Active

LEMMA NextInv ==
    ASSUME Inv, [Next]_vars
    PROVE  Inv'
  <1>1. CASE UNCHANGED vars
    BY <1>1 DEF vars, Inv, TypeOK, HeldRowCarriesClaim, HeldRowsAreExclusive,
                Holding, Active
  <1>2. CASE Next
    BY <1>2, TickInv, WorkerInv, WriterInv, LifecycleInv DEF Next
  <1> QED  BY <1>1, <1>2

(* The inductive invariant holds in every reachable state. *)
THEOREM InvHolds == Spec => []Inv
  BY InitInv, NextInv, PTL DEF Spec

(* Type correctness of the queue: in particular a row's attempts never     *)
(* leave 0..MaxAttempts, although no statement of jobs.sql checks it.      *)
THEOREM TypeCorrect == Spec => []TypeOK
  <1>1. Inv => TypeOK
    BY DEF Inv
  <1> QED
    BY <1>1, InvHolds, PTL

(* Mutual exclusion of executions, for any number of overlapping processes *)
(* that respect MayStart: no two workers execute one row, and nothing      *)
(* takes a row out of "running" under its worker.                          *)
THEOREM Exclusive == Spec => []HeldRowsAreExclusive
  <1>1. Inv => HeldRowsAreExclusive
    BY DEF Inv
  <1> QED
    BY <1>1, InvHolds, PTL

-----------------------------------------------------------------------------
(* Singleton kinds.  Only inserts make a row active that was not, or give  *)
(* an active row another kind.                                             *)

NoNewActive(T) ==
    \A i \in JobIds : T[i].status \in {"queued", "running"} =>
        Active(i) /\ T[i].kind = jobs[i].kind

LEMMA ShrinkSingleton ==
    ASSUME SingletonIsSingle, NoNewActive(jobs')
    PROVE  SingletonIsSingle'
  BY DEF SingletonIsSingle, NoNewActive, Active

LEMMA InsertSingleton ==
    ASSUME SingletonIsSingle, NEW T \in JobTable, NoNewActive(T),
           NEW i \in JobIds, NEW k, NEW at, NEW now,
           jobs' = EnqueueJobRun(T, i, k, at, now),
           k \notin SingletonKinds \/ NoActiveRow(T, k)
    PROVE  SingletonIsSingle'
  <1>1. /\ jobs'[i].kind = k
        /\ \A j \in JobIds \ {i} : jobs'[j] = T[j]
    BY DEF EnqueueJobRun, JobTable
  <1>2. ASSUME NEW a \in JobIds, NEW b \in JobIds, Active(a)', Active(b)',
               jobs'[a].kind = jobs'[b].kind, jobs'[a].kind \in SingletonKinds
        PROVE  a = b
    <2>1. CASE a # i /\ b # i
      BY <1>1, <1>2, <2>1 DEF SingletonIsSingle, NoNewActive, Active
    <2>2. CASE a = i /\ b # i
      BY <1>1, <1>2, <2>2 DEF NoActiveRow, Active
    <2>3. CASE a # i /\ b = i
      BY <1>1, <1>2, <2>3 DEF NoActiveRow, Active
    <2> QED  BY <2>1, <2>2, <2>3
  <1> QED
    BY <1>2 DEF SingletonIsSingle

LEMMA NextSingleton ==
    ASSUME Inv, SingletonIsSingle, [Next]_vars
    PROVE  SingletonIsSingle'
  <1>0. jobs \in JobTable /\ NoNewActive(jobs)
    BY DEF Inv, TypeOK, NoNewActive, Active
  <1>1. CASE UNCHANGED jobs
    BY <1>0, <1>1, ShrinkSingleton DEF NoNewActive, Active
  <1>2. ASSUME NEW p \in Procs, WorkerStep(p)
        PROVE  SingletonIsSingle'
    <2>1. CASE Claim(p)
      <3>1. /\ jobs' = ClaimJobRun(jobs, worker[p].id, worker[p].now)
            /\ Queued(jobs, worker[p].id) /\ worker[p].id \in JobIds
        BY <2>1 DEF Claim, Inv, HeldRowCarriesClaim
      <3>2. jobs[worker[p].id] \in JobRow
        BY <1>0, <3>1, RowTypes DEF Queued
      <3>3. NoNewActive(jobs')
        BY <1>0, <3>1, <3>2
           DEF NoNewActive, ClaimJobRun, JobTable, JobRow, Active, Queued
      <3> QED
        BY <3>3, ShrinkSingleton
    <2>2. CASE Book(p)
      <3>1. worker[p].pc = "book" /\ jobs' = Bookkeep(worker[p], clock)
        BY <2>2 DEF Book
      <3>2. Settled(worker[p], jobs')
        BY <3>1, BookTable
      <3>3. jobs[worker[p].id].status = "running"
        BY <3>1 DEF Inv, HeldRowsAreExclusive, Holding
      <3>4. NoNewActive(jobs')
        BY <1>0, <3>2, <3>3 DEF Settled, NoNewActive, Active
      <3> QED
        BY <3>4, ShrinkSingleton
    <2>3. CASE ~Claim(p) /\ ~Book(p)
      BY <1>1, <1>2, <2>3
         DEF WorkerStep, TakeWake, PollTick, StartReturns, GetDue, NoneDue,
             QueryError, LostRace, HandlerReturns, BookError
    <2> QED  BY <2>1, <2>2, <2>3
  <1>3. ASSUME NEW p \in Procs, Writer(p)
        PROVE  SingletonIsSingle'
    <2>1. CASE Enqueue(p)
      BY <1>0, <2>1, InsertSingleton DEF Enqueue
    <2>7. CASE EnqueueTx(p)
      <3>1. \A k \in TxKinds : k \notin SingletonKinds
        BY JobQueueAssumption
      <3> QED
        BY <1>0, <2>7, <3>1, InsertSingleton DEF EnqueueTx
    <2>2. CASE SaveSchedule(p)
      <3>1. PICK k \in ArticleKinds, d \in Delays, i \in JobIds :
              jobs' = EnqueueJobRun(CancelQueuedPublishJobs(jobs, k),
                                    i, k, clock + d, clock)
        BY <2>2 DEF SaveSchedule
      <3>2. NoNewActive(CancelQueuedPublishJobs(jobs, k))
        BY <1>0 DEF NoNewActive, CancelQueuedPublishJobs, NoRow, Active
      <3>3. CancelQueuedPublishJobs(jobs, k) \in JobTable
        BY <1>0, CancelTable
      <3>4. k \notin SingletonKinds
        BY JobQueueAssumption
      <3> QED
        BY <3>1, <3>2, <3>3, <3>4, InsertSingleton
    <2>3. CASE DestroyArticle(p)
      <3>1. PICK k \in ArticleKinds : jobs' = CancelQueuedPublishJobs(jobs, k)
        BY <2>3 DEF DestroyArticle
      <3>2. NoNewActive(jobs')
        BY <1>0, <3>1 DEF NoNewActive, CancelQueuedPublishJobs, NoRow, Active
      <3> QED
        BY <3>2, ShrinkSingleton
    <2>4. CASE CancelPageJobs(p)
      <3>1. PICK k \in PageKinds : jobs' = CancelQueuedPublishPageJobs(jobs, k, clock)
        BY <2>4 DEF CancelPageJobs
      <3>2. ASSUME NEW i \in JobIds, jobs'[i].status \in {"queued", "running"}
            PROVE  jobs'[i] = jobs[i]
        <4>1. CASE Queued(jobs, i) /\ jobs[i].kind = k
          <5>1. jobs[i] \in JobRow
            BY <1>0, <4>1, RowTypes DEF Queued
          <5> QED
            BY <3>1, <3>2, <4>1, <5>1 DEF CancelQueuedPublishPageJobs, JobRow
        <4>2. CASE ~(Queued(jobs, i) /\ jobs[i].kind = k)
          BY <3>1, <4>2 DEF CancelQueuedPublishPageJobs
        <4> QED  BY <4>1, <4>2
      <3>3. NoNewActive(jobs')
        BY <3>2 DEF NoNewActive, Active
      <3> QED
        BY <3>3, ShrinkSingleton
    <2>5. CASE EnqueueUnlessActive(p)
      BY <1>0, <2>5, InsertSingleton DEF EnqueueUnlessActive
    <2>6. CASE CleanupFinishedJobRuns(p)
      <3>1. jobs' = DeleteFinishedJobRuns(jobs, clock - Retention)
        BY <2>6 DEF CleanupFinishedJobRuns
      <3>2. NoNewActive(jobs')
        BY <1>0, <3>1 DEF NoNewActive, DeleteFinishedJobRuns, NoRow, Active
      <3> QED
        BY <3>2, ShrinkSingleton
    <2> QED
      BY <1>3, <2>1, <2>2, <2>3, <2>4, <2>5, <2>6, <2>7 DEF Writer
  <1>4. ASSUME NEW p \in Procs, Lifecycle(p)
        PROVE  SingletonIsSingle'
    <2>1. CASE StartProcess(p)
      <3> DEFINE cutoff == clock - StaleAfter
      <3> SUFFICES ASSUME jobs' = RequeueStaleRunningJobRuns(jobs, cutoff, clock)
                   PROVE  SingletonIsSingle'
        BY <1>1, <2>1 DEF StartProcess
      <3>1. jobs' = RequeueStaleRunningJobRuns(jobs, cutoff, clock)
        OBVIOUS
      <3>2. ASSUME NEW i \in JobIds
            PROVE  \/ jobs'[i] = jobs[i]
                   \/ jobs[i].status = "running" /\ jobs'[i].kind = jobs[i].kind
        <4>1. CASE Stale(jobs[i], cutoff)
          <5>1. jobs[i] \in JobRow
            BY <1>0, <4>1, RowTypes DEF Stale
          <5> QED
            BY <3>1, <4>1, <5>1 DEF RequeueStaleRunningJobRuns, JobRow, Stale
        <4>2. CASE ~Stale(jobs[i], cutoff)
          BY <3>1, <4>2 DEF RequeueStaleRunningJobRuns
        <4> QED  BY <4>1, <4>2
      <3>3. NoNewActive(jobs')
        BY <3>2 DEF NoNewActive, Active
      <3> QED
        BY <3>3, ShrinkSingleton
    <2>2. CASE Shutdown(p) \/ Exit(p) \/ Kill(p)
      BY <1>1, <2>2 DEF Shutdown, Exit, Kill
    <2> QED
      BY <1>4, <2>1, <2>2 DEF Lifecycle
  <1>5. CASE Tick
    BY <1>1, <1>5 DEF Tick
  <1>6. CASE UNCHANGED vars
    BY <1>1, <1>6 DEF vars
  <1> QED
    BY <1>2, <1>3, <1>4, <1>5, <1>6 DEF Next

(* EnqueueUnlessActive keeps a singleton kind (twitter_sync) to one queued *)
(* or running row for any number of processes, overlapping or not.         *)
THEOREM Singleton == Spec => []SingletonIsSingle
  <1>1. Init => SingletonIsSingle
    BY DEF Init, SingletonIsSingle, EmptyTable, NoRow, Active
  <1> QED
    BY <1>1, InvHolds, NextSingleton, PTL DEF Spec
-----------------------------------------------------------------------------
(* What one step does to the row under an id and to the executions charged *)
(* to it.  The budget and the refinement both read off these moves.        *)

Same(i) ==
    /\ jobs'[i].status = jobs[i].status /\ jobs'[i].attempts = jobs[i].attempts
    /\ execs'[i] = execs[i]

Inserted(i) ==
    /\ jobs[i].status \in {"none", "queued"} /\ jobs'[i].status = "queued"
    /\ jobs'[i].attempts = 0 /\ execs'[i] = 0

Removed(i) ==
    /\ jobs[i].status \in {"queued", "done", "failed"} /\ jobs'[i].status = "none"
    /\ execs'[i] = execs[i]

Cancelled(i) ==
    Queued(jobs, i) /\ jobs'[i].status = "failed" /\ execs'[i] = execs[i]

Taken(p, i) ==
    /\ worker[p].pc = "claim" /\ worker[p].id = i /\ Queued(jobs, i)
    /\ jobs'[i].status = "running" /\ jobs'[i].attempts = jobs[i].attempts
    /\ execs'[i] = execs[i] + 1

Booked(p, i) ==
    /\ worker[p].pc = "book" /\ worker[p].id = i /\ jobs[i].status = "running"
    /\ \/ jobs'[i].status \in {"done", "failed"} /\ execs'[i] = execs[i]
       \/ /\ jobs'[i].status = "queued" /\ execs'[i] = execs[i]
          /\ jobs'[i].attempts = worker[p].attempts + 1
       \/ /\ jobs'[i].status = "queued" /\ execs'[i] = execs[i] - 1
          /\ jobs'[i].attempts = worker[p].attempts

Recovered(i) ==
    /\ \A q \in Procs : Up(q) => MayOverlap
    /\ jobs[i].status = "running" /\ execs'[i] = execs[i]
    /\ \/ jobs'[i].status = "failed"
       \/ jobs'[i].status = "queued" /\ jobs'[i].attempts = jobs[i].attempts + 1

RowMove(i) ==
    \/ Same(i) \/ Inserted(i) \/ Removed(i) \/ Cancelled(i) \/ Recovered(i)
    \/ \E p \in Procs : Taken(p, i) \/ Booked(p, i)

LEMMA InsertMove ==
    ASSUME Inv, NEW T \in JobTable, NEW i \in JobIds, IsNextRowId(T, i),
           \A j \in JobIds : T[j] = jobs[j] \/ (Queued(jobs, j) /\ T[j] = NoRow),
           NEW k, NEW at, NEW now,
           jobs' = EnqueueJobRun(T, i, k, at, now),
           execs' = [execs EXCEPT ![i] = 0]
    PROVE  \A j \in JobIds : RowMove(j)
  <1>1. T[i].status = "none" /\ jobs[i].status \in {"none", "queued"}
    BY JobRunsAssumption DEF IsNextRowId, Exists, JobIds, Queued
  <1>2. /\ jobs'[i].status = "queued" /\ jobs'[i].attempts = 0
        /\ \A j \in JobIds \ {i} : jobs'[j] = T[j]
    BY DEF EnqueueJobRun, JobTable
  <1>3. execs'[i] = 0 /\ \A j \in JobIds \ {i} : execs'[j] = execs[j]
    BY DEF Inv, TypeOK
  <1> TAKE j \in JobIds
  <1>4. CASE j = i
    BY <1>1, <1>2, <1>3, <1>4 DEF RowMove, Inserted
  <1>5. CASE j # i /\ T[j] = jobs[j]
    BY <1>2, <1>3, <1>5 DEF RowMove, Same
  <1>6. CASE j # i /\ Queued(jobs, j) /\ T[j] = NoRow
    BY <1>2, <1>3, <1>6 DEF RowMove, Removed, Queued, NoRow
  <1> QED  BY <1>4, <1>5, <1>6

LEMMA WriterMoves ==
    ASSUME Inv, NEW p \in Procs, Writer(p)
    PROVE  \A i \in JobIds : RowMove(i)
  <1>0. jobs \in JobTable
    BY DEF Inv, TypeOK
  <1>1. CASE Enqueue(p)
    BY <1>0, <1>1, InsertMove DEF Enqueue
  <1>2. CASE EnqueueTx(p)
    BY <1>0, <1>2, InsertMove DEF EnqueueTx
  <1>3. CASE EnqueueUnlessActive(p)
    BY <1>0, <1>3, InsertMove DEF EnqueueUnlessActive
  <1>4. CASE SaveSchedule(p)
    <2>1. PICK k \in ArticleKinds, d \in Delays, i \in JobIds :
            /\ IsNextRowId(CancelQueuedPublishJobs(jobs, k), i)
            /\ jobs' = EnqueueJobRun(CancelQueuedPublishJobs(jobs, k), i, k,
                                     clock + d, clock)
            /\ execs' = [execs EXCEPT ![i] = 0]
      BY <1>4 DEF SaveSchedule
    <2>2. /\ CancelQueuedPublishJobs(jobs, k) \in JobTable
          /\ \A j \in JobIds :
                \/ CancelQueuedPublishJobs(jobs, k)[j] = jobs[j]
                \/ Queued(jobs, j) /\ CancelQueuedPublishJobs(jobs, k)[j] = NoRow
      BY <1>0, CancelTable DEF CancelQueuedPublishJobs
    <2> QED
      BY <2>1, <2>2, InsertMove
  <1>5. CASE DestroyArticle(p)
    <2>1. PICK k \in ArticleKinds : jobs' = CancelQueuedPublishJobs(jobs, k)
      BY <1>5 DEF DestroyArticle
    <2>2. execs' = execs
      BY <1>5 DEF DestroyArticle
    <2>3. \A i \in JobIds : jobs'[i] = jobs[i] \/ (Queued(jobs, i) /\ jobs'[i] = NoRow)
      BY <2>1 DEF CancelQueuedPublishJobs
    <2> QED
      BY <2>2, <2>3 DEF RowMove, Same, Removed, Queued, NoRow
  <1>6. CASE CancelPageJobs(p)
    <2>1. PICK k \in PageKinds : jobs' = CancelQueuedPublishPageJobs(jobs, k, clock)
      BY <1>6 DEF CancelPageJobs
    <2>2. execs' = execs
      BY <1>6 DEF CancelPageJobs
    <2> TAKE i \in JobIds
    <2>3. CASE Queued(jobs, i) /\ jobs[i].kind = k
      <3>1. jobs[i] \in JobRow
        BY <1>0, <2>3, RowTypes DEF Queued
      <3>2. jobs'[i].status = "failed"
        BY <2>1, <2>3, <3>1 DEF CancelQueuedPublishPageJobs, JobRow
      <3> QED
        BY <2>2, <2>3, <3>2 DEF RowMove, Cancelled
    <2>4. CASE ~(Queued(jobs, i) /\ jobs[i].kind = k)
      <3>1. jobs'[i] = jobs[i]
        BY <2>1, <2>4 DEF CancelQueuedPublishPageJobs
      <3> QED
        BY <2>2, <3>1 DEF RowMove, Same
    <2> QED  BY <2>3, <2>4
  <1>7. CASE CleanupFinishedJobRuns(p)
    <2>1. jobs' = DeleteFinishedJobRuns(jobs, clock - Retention) /\ execs' = execs
      BY <1>7 DEF CleanupFinishedJobRuns
    <2> TAKE i \in JobIds
    <2>2. \/ jobs'[i] = jobs[i]
          \/ jobs[i].status \in {"done", "failed"} /\ jobs'[i] = NoRow
      BY <2>1 DEF DeleteFinishedJobRuns
    <2> QED
      BY <2>1, <2>2 DEF RowMove, Same, Removed, NoRow
  <1> QED
    BY <1>1, <1>2, <1>3, <1>4, <1>5, <1>6, <1>7 DEF Writer

LEMMA ClaimMove ==
    ASSUME Inv, NEW p \in Procs, Claim(p)
    PROVE  /\ Taken(p, worker[p].id)
           /\ \A i \in JobIds \ {worker[p].id} :
                jobs'[i] = jobs[i] /\ execs'[i] = execs[i]
  <1> DEFINE w == worker[p]
  <1>1. /\ jobs' = ClaimJobRun(jobs, w.id, w.now)
        /\ execs' = [execs EXCEPT ![w.id] = @ + 1]
        /\ w.pc = "claim" /\ Queued(jobs, w.id) /\ w.id \in JobIds
        /\ jobs \in JobTable /\ execs \in [JobIds -> Int]
    BY DEF Claim, Inv, HeldRowCarriesClaim, TypeOK
  <1>2. jobs[w.id] \in JobRow
    BY <1>1, RowTypes DEF Queued
  <1>3. /\ jobs'[w.id].status = "running"
        /\ jobs'[w.id].attempts = jobs[w.id].attempts
        /\ execs'[w.id] = execs[w.id] + 1
    BY <1>1, <1>2 DEF ClaimJobRun, JobTable, JobRow
  <1>4. \A i \in JobIds \ {w.id} : jobs'[i] = jobs[i] /\ execs'[i] = execs[i]
    BY <1>1 DEF ClaimJobRun, JobTable
  <1> QED
    BY <1>1, <1>3, <1>4 DEF Taken

LEMMA WorkerMoves ==
    ASSUME Inv, NEW p \in Procs, WorkerStep(p)
    PROVE  \A i \in JobIds : RowMove(i)
  <1>0. jobs \in JobTable /\ execs \in [JobIds -> Int]
    BY DEF Inv, TypeOK
  <1>1. CASE Claim(p)
    BY <1>1, ClaimMove DEF RowMove, Same
  <1>2. CASE Book(p)
    <2> DEFINE w == worker[p]
    <2>1. /\ w.pc = "book" /\ jobs' = Bookkeep(w, clock)
          /\ execs' = IF FreeRequeue(w) THEN [execs EXCEPT ![w.id] = @ - 1] ELSE execs
      BY <1>2 DEF Book
    <2>2. Settled(w, jobs')
      BY <2>1, BookTable
    <2>3. jobs[w.id].status = "running" /\ w.id \in JobIds
      BY <2>1 DEF Inv, HeldRowsAreExclusive, Holding, HeldRowCarriesClaim
    <2>4. \A i \in JobIds \ {w.id} : jobs'[i] = jobs[i] /\ execs'[i] = execs[i]
      BY <1>0, <2>1, <2>2 DEF Settled
    <2>5. execs'[w.id] = IF FreeRequeue(w) THEN execs[w.id] - 1 ELSE execs[w.id]
      BY <1>0, <2>1, <2>3
    <2>6. Booked(p, w.id)
      BY <2>1, <2>2, <2>3, <2>5 DEF Settled, Booked
    <2> QED
      BY <2>4, <2>6 DEF RowMove, Same
  <1>3. CASE ~Claim(p) /\ ~Book(p)
    BY <1>3 DEF WorkerStep, TakeWake, PollTick, StartReturns, GetDue, NoneDue,
         QueryError, LostRace, HandlerReturns, BookError, RowMove, Same
  <1> QED  BY <1>1, <1>2, <1>3

LEMMA LifecycleMoves ==
    ASSUME Inv, NEW p \in Procs, Lifecycle(p)
    PROVE  \A i \in JobIds : RowMove(i)
  <1>0. jobs \in JobTable
    BY DEF Inv, TypeOK
  <1>1. CASE UNCHANGED <<jobs, execs>>
    BY <1>1 DEF RowMove, Same
  <1>2. CASE StartProcess(p) /\ ~UNCHANGED jobs
    <2> DEFINE cutoff == clock - StaleAfter
    <2>1. /\ jobs' = RequeueStaleRunningJobRuns(jobs, cutoff, clock)
          /\ execs' = execs /\ MayStart(p)
      BY <1>2 DEF StartProcess
    <2>2. \A q \in Procs : Up(q) => MayOverlap
      BY <2>1 DEF MayStart, Up
    <2> TAKE i \in JobIds
    <2>3. CASE Stale(jobs[i], cutoff)
      <3>1. jobs[i] \in JobRow /\ jobs[i].status = "running"
        BY <1>0, <2>3, RowTypes DEF Stale
      <3>2. /\ jobs'[i].status = IF jobs[i].attempts + 1 >= MaxAttempts
                                 THEN "failed" ELSE "queued"
            /\ jobs'[i].attempts = jobs[i].attempts + 1
        BY <2>1, <2>3, <3>1 DEF RequeueStaleRunningJobRuns, JobRow
      <3> QED
        BY <2>1, <2>2, <3>1, <3>2 DEF RowMove, Recovered
    <2>4. CASE ~Stale(jobs[i], cutoff)
      BY <2>1, <2>4 DEF RequeueStaleRunningJobRuns, RowMove, Same
    <2> QED  BY <2>3, <2>4
  <1> QED
    BY <1>1, <1>2 DEF Lifecycle, Shutdown, Exit, Kill, StartProcess

LEMMA RowMoves ==
    ASSUME Inv, [Next]_vars
    PROVE  \A i \in JobIds : RowMove(i)
  <1>1. CASE UNCHANGED <<jobs, execs>>
    BY <1>1 DEF RowMove, Same
  <1> QED
    BY <1>1, WriterMoves, WorkerMoves, LifecycleMoves DEF Next, Tick, vars

(* A step of one process leaves the other workers alone. *)
LEMMA OthersStay ==
    ASSUME Inv, NEW p \in Procs, WorkerStep(p) \/ Writer(p) \/ Lifecycle(p),
           NEW q \in Procs \ {p}
    PROVE  worker'[q] = worker[q]
  <1>0. worker \in [Procs -> Worker]
    BY DEF Inv, TypeOK
  <1>1. CASE WorkerStep(p)
    BY <1>0, <1>1
       DEF WorkerStep, TakeWake, PollTick, StartReturns, GetDue, NoneDue,
           QueryError, Claim, LostRace, HandlerReturns, Book, BookError
  <1>2. CASE Writer(p)
    BY <1>0, <1>2
       DEF Writer, Enqueue, EnqueueTx, SaveSchedule, DestroyArticle, CancelPageJobs,
           EnqueueUnlessActive, CleanupFinishedJobRuns, Nudge
  <1>3. CASE Lifecycle(p)
    BY <1>0, <1>3 DEF Lifecycle, Shutdown, Exit, Kill, StartProcess
  <1> QED  BY <1>1, <1>2, <1>3

(* How a worker comes to hold a row, or to have read one. *)
CameToHold(q) ==
    Holding(q)' =>
        /\ worker'[q].id = worker[q].id /\ worker'[q].attempts = worker[q].attempts
        /\ Holding(q) \/ Taken(q, worker[q].id)

CameToRead(q) ==
    worker'[q].pc = "claim" =>
        \/ /\ worker[q].pc = "claim" /\ worker'[q].id = worker[q].id
           /\ worker'[q].attempts = worker[q].attempts
        \/ /\ UNCHANGED <<jobs, execs>> /\ worker'[q].id \in JobIds
           /\ worker'[q].attempts = jobs[worker'[q].id].attempts

LEMMA WorkerPlaces ==
    ASSUME Inv, [Next]_vars, NEW q \in Procs
    PROVE  CameToHold(q) /\ CameToRead(q)
  <1>0. worker \in [Procs -> Worker] /\ worker[q] \in Worker
    BY DEF Inv, TypeOK
  <1>1. CASE SamePlace(worker'[q], worker[q])
    BY <1>1 DEF SamePlace, CameToHold, CameToRead, Holding
  <1>2. CASE worker'[q].pc \notin {"claim", "run", "book"}
    BY <1>2 DEF CameToHold, CameToRead, Holding
  <1>3. CASE WorkerStep(q)
    <2>1. CASE TakeWake(q) \/ PollTick(q) \/ StartReturns(q) \/ NoneDue(q)
                 \/ QueryError(q) \/ LostRace(q) \/ Book(q) \/ BookError(q)
      BY <1>0, <1>2, <2>1
         DEF TakeWake, PollTick, StartReturns, NoneDue, QueryError, LostRace, Book,
             BookError, AfterRun, Leave, Outside, Worker
    <2>2. CASE GetDue(q)
      <3>1. PICK i \in GetDueJobRun(jobs, clock) :
              worker' = [worker EXCEPT ![q].pc = "claim", ![q].id = i,
                                       ![q].kind = jobs[i].kind,
                                       ![q].attempts = jobs[i].attempts,
                                       ![q].now = clock]
        BY <2>2 DEF GetDue
      <3>2. /\ worker'[q].pc = "claim" /\ worker'[q].id = i
            /\ worker'[q].attempts = jobs[i].attempts
        BY <1>0, <3>1 DEF Worker
      <3>3. i \in JobIds /\ UNCHANGED <<jobs, execs>>
        BY <2>2 DEF GetDue, GetDueJobRun, Due
      <3> QED
        BY <3>2, <3>3 DEF CameToHold, CameToRead, Holding
    <2>3. CASE Claim(q)
      <3>1. /\ worker'[q].pc \in {"run", "book"} /\ worker'[q].id = worker[q].id
            /\ worker'[q].attempts = worker[q].attempts
        BY <1>0, <2>3 DEF Claim, Worker
      <3>2. Taken(q, worker[q].id)
        BY <2>3, ClaimMove
      <3> QED
        BY <3>1, <3>2 DEF CameToHold, CameToRead, Holding
    <2>4. CASE HandlerReturns(q)
      <3>1. /\ worker[q].pc = "run" /\ worker'[q].pc = "book"
            /\ worker'[q].id = worker[q].id
            /\ worker'[q].attempts = worker[q].attempts
        BY <1>0, <2>4 DEF HandlerReturns, Worker
      <3> QED
        BY <3>1 DEF CameToHold, CameToRead, Holding
    <2> QED
      BY <1>3, <2>1, <2>2, <2>3, <2>4 DEF WorkerStep
  <1>4. CASE Writer(q)
    <2>1. worker' = worker \/ worker' = Nudge(q)
      BY <1>4 DEF Writer, Enqueue, EnqueueTx, SaveSchedule, DestroyArticle,
             CancelPageJobs, EnqueueUnlessActive, CleanupFinishedJobRuns
    <2> QED
      BY <1>0, <1>1, <2>1 DEF Nudge, Worker, SamePlace
  <1>5. CASE Lifecycle(q)
    <2>1. CASE Shutdown(q)
      BY <1>0, <1>1, <2>1 DEF Shutdown, Worker, SamePlace
    <2>2. CASE ~Shutdown(q)
      BY <1>0, <1>2, <1>5, <2>2
         DEF Lifecycle, Exit, Kill, StartProcess, Down, Outside
    <2> QED  BY <2>1, <2>2
  <1>6. CASE worker'[q] = worker[q]
    BY <1>1, <1>6 DEF SamePlace
  <1> QED
    BY <1>3, <1>4, <1>5, <1>6, OthersStay DEF Next, Tick, vars

(* Without overlap a process starts only when every other one is down. *)
LEMMA OneStaysUp ==
    ASSUME Inv, [Next]_vars, ~MayOverlap,
           \A p, q \in Procs : Up(p) /\ Up(q) => p = q
    PROVE  \A p, q \in Procs : Up(p)' /\ Up(q)' => p = q
  <1>0. worker \in [Procs -> Worker]
    BY DEF Inv, TypeOK
  <1>1. CASE UNCHANGED worker
    BY <1>1 DEF Up
  <1>2. ASSUME NEW p \in Procs, WorkerStep(p) \/ Writer(p) \/ Lifecycle(p)
        PROVE  \A a, b \in Procs : Up(a)' /\ Up(b)' => a = b
    <2>1. \A q \in Procs \ {p} : worker'[q] = worker[q]
      BY <1>2, OthersStay
    <2>2. CASE StartProcess(p)
      <3>1. \A q \in Procs \ {p} : ~Up(q)
        BY <2>2 DEF StartProcess, MayStart, Up
      <3>2. \A q \in Procs \ {p} : ~Up(q)'
        BY <2>1, <3>1 DEF Up
      <3> QED
        BY <3>2
    <2>3. CASE ~StartProcess(p)
      <3>1. Up(p)' => Up(p)
        <4>1. CASE WorkerStep(p)
          BY <4>1 DEF WorkerStep, TakeWake, PollTick, StartReturns, GetDue, NoneDue,
               QueryError, Claim, LostRace, HandlerReturns, Book, BookError, Up
        <4>2. CASE Writer(p)
          BY <4>2 DEF Writer, Enqueue, EnqueueTx, SaveSchedule, DestroyArticle,
               CancelPageJobs, EnqueueUnlessActive, CleanupFinishedJobRuns
        <4>3. CASE Lifecycle(p)
          BY <1>0, <2>3, <4>3 DEF Lifecycle, Shutdown, Exit, Kill, Down, Outside, Up
        <4> QED  BY <1>2, <4>1, <4>2, <4>3
      <3> QED
        BY <2>1, <3>1 DEF Up
    <2> QED  BY <2>2, <2>3
  <1> QED
    BY <1>1, <1>2 DEF Next, Tick, vars

-----------------------------------------------------------------------------
(* The attempt budget, for one live process at a time.                     *)

Charged ==
    /\ ExecutionsAreCharged
    /\ \A i \in JobIds : execs[i] <= MaxAttempts

LEMMA NextCharged ==
    ASSUME Inv, Inv', Charged, [Next]_vars, ~MayOverlap
    PROVE  Charged'
  <1>0. /\ execs \in [JobIds -> Int] /\ execs' \in [JobIds -> Int]
        /\ jobs \in JobTable /\ jobs' \in JobTable
        /\ MaxAttempts \in Nat
        /\ \A p \in Procs : worker[p] \in Worker
    BY JobRunsAssumption DEF Inv, TypeOK
  <1>1. \A p, q \in Procs : Up(p)' /\ Up(q)' => p = q
    BY OneStaysUp DEF Charged, ExecutionsAreCharged
  <1>2. ASSUME NEW i \in JobIds
        PROVE  /\ jobs'[i].status = "queued" => execs'[i] <= jobs'[i].attempts
               /\ jobs'[i].status = "running" => execs'[i] <= jobs'[i].attempts + 1
               /\ execs'[i] <= MaxAttempts
    <2>0. /\ jobs[i].attempts \in 0..MaxAttempts /\ jobs'[i].attempts \in 0..MaxAttempts
          /\ execs[i] \in Int /\ execs[i] <= MaxAttempts
          /\ jobs[i].status = "queued" => execs[i] <= jobs[i].attempts
          /\ jobs[i].status = "running" => execs[i] <= jobs[i].attempts + 1
      BY <1>0, <1>2, RowTypes DEF Charged, ExecutionsAreCharged
    <2>1. CASE Same(i)
      BY <2>0, <2>1 DEF Same
    <2>2. CASE Inserted(i) \/ Removed(i) \/ Cancelled(i)
      BY <1>0, <2>0, <2>2 DEF Inserted, Removed, Cancelled
    <2>3. CASE Recovered(i)
      BY <2>0, <2>3 DEF Recovered
    <2>4. ASSUME NEW p \in Procs, Taken(p, i)
          PROVE  <1>2!2
      <3>1. jobs[i].attempts < MaxAttempts
        BY <1>2, <2>4 DEF Taken, Inv, HeldRowCarriesClaim, Active, Queued
      <3> QED
        BY <1>0, <2>0, <2>4, <3>1 DEF Taken, Queued
    <2>5. ASSUME NEW p \in Procs, Booked(p, i)
          PROVE  <1>2!2
      <3>1. /\ execs[i] <= worker[p].attempts + 1 /\ worker[p].attempts \in Nat
        BY <1>0, <2>5 DEF Booked, Charged, ExecutionsAreCharged, Holding, Worker
      <3> QED
        BY <1>0, <2>0, <2>5, <3>1 DEF Booked
    <2> QED
      BY <1>2, <2>1, <2>2, <2>3, <2>4, <2>5, RowMoves DEF RowMove
  <1>3. ASSUME NEW q \in Procs, worker'[q].pc = "claim", Queued(jobs', worker'[q].id)
        PROVE  jobs'[worker'[q].id].attempts <= worker'[q].attempts
    <2> DEFINE i == worker'[q].id
    <2>0. /\ i \in JobIds /\ jobs[i].attempts \in Nat /\ worker'[q].attempts \in Nat
      BY <1>0, <1>3, RowTypes DEF Inv, HeldRowCarriesClaim, TypeOK, Worker
    <2>1. CameToRead(q)
      BY WorkerPlaces
    <2>2. CASE UNCHANGED <<jobs, execs>> /\ worker'[q].attempts = jobs[i].attempts
      BY <2>0, <2>2
    <2>3. CASE /\ worker[q].pc = "claim" /\ worker'[q].id = worker[q].id
               /\ worker'[q].attempts = worker[q].attempts
      <3>1. RowMove(i)
        BY <2>0, RowMoves
      <3>2. CASE Same(i)
        BY <1>3, <2>3, <3>2 DEF Same, Queued, Charged, ExecutionsAreCharged
      <3>3. CASE Inserted(i)
        BY <2>0, <3>3 DEF Inserted
      <3>4. ~Removed(i) /\ ~Cancelled(i) /\ \A p \in Procs : ~Taken(p, i)
        BY <1>3 DEF Removed, Cancelled, Taken, Queued
      <3>5. ~Recovered(i)
        BY <2>3 DEF Recovered, Up
      <3>6. \A p \in Procs : ~Booked(p, i)
        BY <2>3 DEF Booked, Up, Charged, ExecutionsAreCharged
      <3> QED
        BY <3>1, <3>2, <3>3, <3>4, <3>5, <3>6 DEF RowMove
    <2> QED
      BY <1>3, <2>1, <2>2, <2>3 DEF CameToRead
  <1>4. ASSUME NEW q \in Procs, Holding(q)'
        PROVE  execs'[worker'[q].id] <= worker'[q].attempts + 1
    <2> DEFINE i == worker'[q].id
    <2>0. /\ i \in JobIds /\ execs[i] \in Int /\ worker[q].attempts \in Nat
          /\ jobs'[i].status = "running" /\ jobs[i].attempts \in Nat
      <3>1. worker'[q].id \in JobIds /\ jobs'[worker'[q].id].status = "running"
        BY <1>4 DEF Inv, HeldRowCarriesClaim, HeldRowsAreExclusive, Holding
      <3> QED
        BY <1>0, <3>1, RowTypes DEF Worker
    <2>1. /\ i = worker[q].id /\ worker'[q].attempts = worker[q].attempts
          /\ Holding(q) \/ Taken(q, i)
      BY <1>4, WorkerPlaces DEF CameToHold
    <2>2. CASE Taken(q, i)
      <3>1. execs[i] <= jobs[i].attempts /\ jobs[i].attempts <= worker[q].attempts
        BY <2>0, <2>1, <2>2 DEF Taken, Queued, Charged, ExecutionsAreCharged
      <3> QED
        BY <2>0, <2>1, <2>2, <3>1 DEF Taken
    <2>3. CASE Holding(q)
      <3>1. jobs[i].status = "running" /\ execs[i] <= worker[q].attempts + 1
        BY <2>1, <2>3 DEF Inv, HeldRowsAreExclusive, Charged, ExecutionsAreCharged
      <3>2. Same(i)
        BY <2>0, <3>1, RowMoves
           DEF RowMove, Inserted, Removed, Cancelled, Recovered, Taken, Booked, Queued
      <3> QED
        BY <2>1, <3>1, <3>2 DEF Same
    <2> QED  BY <2>1, <2>2, <2>3
  <1> QED
    BY <1>1, <1>2, <1>3, <1>4 DEF Charged, ExecutionsAreCharged, Queued

LEMMA ChargedHolds == ~MayOverlap /\ Spec => []Charged
  <1> SUFFICES ASSUME ~MayOverlap
               PROVE  Spec => []Charged
    OBVIOUS
  <1>1. Init => Charged
    BY JobRunsAssumption
       DEF Init, Charged, ExecutionsAreCharged, EmptyTable, NoRow, Queued, Holding,
           Up, Down, Outside
  <1>2. Inv /\ Charged /\ [Next]_vars => Charged'
    BY NextInv, NextCharged
  <1> QED
    BY <1>1, <1>2, InvHolds, PTL DEF Spec

(* MaxAttempts bounds the charged executions of a row across errors,       *)
(* crashes and failed bookkeeping writes, for any number of rows, restarts *)
(* and failing statements, when processes never overlap.                   *)
THEOREM Budget == ~MayOverlap /\ Spec => []AttemptBudget
  <1>1. Inv /\ Charged => AttemptBudget
    BY DEF Inv, HeldRowCarriesClaim, Charged, AttemptBudget
  <1> QED
    BY <1>1, InvHolds, ChargedHolds, PTL

-----------------------------------------------------------------------------
(* The queue implements the lifecycle of one row.                          *)

RowStatus == [i \in JobIds |-> jobs[i].status]

LEMMA MoveIsRowStep ==
    ASSUME Inv, Charged, NEW i \in JobIds, RowMove(i)
    PROVE  Life!RowStep(i)
  <1>0. /\ RowStatus[i] = jobs[i].status /\ RowStatus'[i] = jobs'[i].status
        /\ execs[i] \in Int
    BY DEF Inv, TypeOK, RowStatus
  <1> USE DEF Life!RowStep, RowStatus
  <1>1. CASE Same(i)
    BY <1>0, <1>1 DEF Same, Life!Keep
  <1>2. CASE Inserted(i)
    BY <1>0, <1>2 DEF Inserted, Life!Insert, Life!Replace, Life!Move
  <1>3. CASE Removed(i)
    BY <1>0, <1>3 DEF Removed, Life!Delete, Life!Move
  <1>4. CASE Cancelled(i)
    BY <1>0, <1>4 DEF Cancelled, Queued, Life!Fail, Life!Move
  <1>5. CASE Recovered(i)
    BY <1>0, <1>5 DEF Recovered, Life!Fail, Life!Retry, Life!Move
  <1>6. ASSUME NEW p \in Procs, Taken(p, i)
        PROVE  Life!RowStep(i)
    <2>1. execs[i] < MaxAttempts
      <3>1. execs[i] <= jobs[i].attempts /\ jobs[i].attempts < MaxAttempts
        BY <1>6 DEF Taken, Queued, Active, Charged, ExecutionsAreCharged,
                    Inv, HeldRowCarriesClaim
      <3>2. jobs[i].attempts \in Nat
        BY RowTypes DEF Inv, TypeOK
      <3> QED
        BY <1>0, <3>1, <3>2, JobRunsAssumption
    <2> QED
      BY <1>0, <1>6, <2>1 DEF Taken, Queued, Life!Begin, Life!Move
  <1>7. ASSUME NEW p \in Procs, Booked(p, i)
        PROVE  Life!RowStep(i)
    BY <1>0, <1>7
       DEF Booked, Life!Succeed, Life!Fail, Life!Retry, Life!GiveBack, Life!Move
  <1> QED
    BY <1>1, <1>2, <1>3, <1>4, <1>5, <1>6, <1>7 DEF RowMove

(* Every row follows JobLifecycle: it is claimed at most MaxAttempts times *)
(* not counting the runs a shutdown gave back, it is finished once, and a  *)
(* finished row never comes back to the queue.                             *)
THEOREM Refines == ~MayOverlap /\ Spec => FollowsLifecycle
  <1>1. Init => Life!Init
    BY DEF Init, Life!Init, EmptyTable, NoRow
  <1>2. Inv /\ Charged /\ [Next]_vars =>
            [Life!Next]_<<[i \in JobIds |-> jobs[i].status], execs>>
    <2> SUFFICES ASSUME Inv, Charged, [Next]_vars
                 PROVE  Life!Next
      OBVIOUS
    <2>1. Inv'
      BY NextInv
    <2>2. \A i \in JobIds : Life!RowStep(i)
      BY RowMoves, MoveIsRowStep
    <2>3. [i \in JobIds |-> jobs'[i].status]
            \in [JobIds -> {"none", "queued", "running", "done", "failed"}]
      BY <2>1, RowTypes DEF Inv, TypeOK, Status
    <2>4. DOMAIN execs' = JobIds
      BY <2>1 DEF Inv, TypeOK
    <2> QED
      BY <2>2, <2>3, <2>4 DEF Life!Next
  <1> QED
    BY <1>1, <1>2, InvHolds, ChargedHolds, PTL DEF Spec, FollowsLifecycle, Life!Spec

-----------------------------------------------------------------------------
(* Draining.  run_at is a natural number, so if any row is due one of the  *)
(* due rows has the least run_at and GetDueJobRun returns a row.           *)

LEMMA DueIsFound ==
    ASSUME NEW T \in JobTable, NEW now, Due(T, now) # {}
    PROVE  GetDueJobRun(T, now) # {}
  <1> DEFINE R == {ss \in Nat \X Nat : ss[1] < ss[2]}
             A == {T[i].runAt : i \in Due(T, now)}
  <1>1. \A i \in Due(T, now) : i \in JobIds /\ T[i].runAt \in Nat
    BY RowTypes DEF Due
  <1>2. A \subseteq Nat /\ A # {}
    BY <1>1
  <1>0. IsWellFoundedOn(R, Nat)
    BY NatLessThanWellFounded DEF OpToRel
  <1>3. PICK m \in A : \A n \in A : ~(<<n, m>> \in R)
    <2> HIDE DEF R, A
    <2> QED
      BY <1>0, <1>2, WFMin
  <1>4. \A n \in A : m <= n
    <2> TAKE n \in A
    <2>1. n \in Nat /\ m \in Nat /\ ~(<<n, m>> \in R)
      BY <1>2, <1>3
    <2>2. ~(n < m)
      BY <2>1
    <2> QED
      BY <2>1, <2>2
  <1>5. PICK i \in Due(T, now) : T[i].runAt = m
    BY <1>3
  <1> QED
    BY <1>4, <1>5 DEF GetDueJobRun

(* A wakeup drains the queue: for any number of processes, a worker whose  *)
(* statements succeed goes back to its select only with nothing left due.  *)
THEOREM Drains == Spec => DrainLeavesNothingDue
  <1>1. ASSUME Inv, [Next]_vars, NEW p \in Procs,
               worker[p].pc \in {"poll", "book"}, worker'[p].pc = "wait",
               ~worker[p].cancelled, UNCHANGED faults
        PROVE  Due(jobs, IF worker[p].pc = "poll" THEN clock ELSE worker[p].now) = {}
    <2>0. worker \in [Procs -> Worker] /\ jobs \in JobTable /\ faults \in Nat
      BY <1>1 DEF Inv, TypeOK
    <2>1. CASE NoneDue(p)
      BY <1>1, <2>0, <2>1, DueIsFound DEF NoneDue
    <2>2. ~Book(p) /\ ~BookError(p)
      BY <1>1, <2>0 DEF Book, BookError, AfterRun, Leave, Outside
    <2>3. ~QueryError(p)
      BY <1>1, <2>0 DEF QueryError
    <2>4. /\ ~TakeWake(p) /\ ~PollTick(p) /\ ~StartReturns(p)
          /\ ~Claim(p) /\ ~LostRace(p) /\ ~HandlerReturns(p)
      BY <1>1 DEF TakeWake, PollTick, StartReturns, Claim, LostRace, HandlerReturns
    <2>10. ~GetDue(p)
      <3> SUFFICES ASSUME GetDue(p) PROVE worker'[p].pc = "claim"
        BY <1>1
      <3> QED
        BY <2>0 DEF GetDue, Worker
    <2>5. ~Writer(p)
      <3>1. ~(worker' = worker \/ worker' = Nudge(p))
        BY <1>1, <2>0 DEF Nudge, Worker
      <3> QED
        BY <3>1 DEF Writer, Enqueue, EnqueueTx, SaveSchedule, DestroyArticle,
               CancelPageJobs, EnqueueUnlessActive, CleanupFinishedJobRuns
    <2>6. ~Lifecycle(p)
      BY <1>1, <2>0 DEF Lifecycle, Shutdown, Exit, Kill, StartProcess, MayStart,
                        Down, Outside, Worker
    <2>7. worker'[p] # worker[p]
      BY <1>1
    <2>8. PICK q \in Procs : WorkerStep(q) \/ Writer(q) \/ Lifecycle(q)
      BY <1>1, <2>7 DEF Next, Tick, vars
    <2>9. q = p
      BY <1>1, <2>7, <2>8, OthersStay
    <2> QED
      BY <2>1, <2>2, <2>3, <2>4, <2>5, <2>6, <2>8, <2>9, <2>10 DEF WorkerStep
  <1>2. Inv /\ [Next]_vars =>
          [\A p \in Procs :
            /\ worker[p].pc \in {"poll", "book"} /\ worker'[p].pc = "wait"
            /\ ~worker[p].cancelled /\ UNCHANGED faults
            => Due(jobs, IF worker[p].pc = "poll" THEN clock ELSE worker[p].now) = {}]_vars
    BY <1>1
  <1> QED
    BY <1>2, InvHolds, PTL DEF Spec, DrainLeavesNothingDue
=============================================================================
