------------------------- MODULE HandlerRunsProofs -------------------------
(***************************************************************************)
(* What the proofs about the job handlers share: the worker of HandlerRuns *)
(* keeps its types, a row it executes stays "running", and every statement *)
(* of the worker on job_runs is spelled out row by row.  Each action is    *)
(* treated on its own, so that a component can combine it with its steps.  *)
(***************************************************************************)
EXTENDS HandlerRuns, TLAPS

(* Between ClaimJobRun and the bookkeeping write the worker holds a row. *)
Holds == {"load", "visit", "act", "write", "book"}

HeldRowRuns ==
    /\ runner.pc = "claim" => runner.id \in JobIds
    /\ runner.pc \in Holds => runner.id \in JobIds /\ jobs[runner.id].status = "running"

(* A row that may still run has an attempt left. *)
AttemptLeft ==
    \A i \in JobIds :
        jobs[i].status \in {"queued", "running"} => jobs[i].attempts < MaxAttempts

RunInv == RunTypeOK /\ AttemptLeft /\ HeldRowRuns

-----------------------------------------------------------------------------
LEMMA RowTypes ==
    ASSUME NEW T \in JobTable, NEW i \in JobIds
    PROVE  /\ T[i] \in JobRow \cup {NoRow}
           /\ T[i].status \in Status \cup {"none"}
           /\ T[i].attempts \in 0..MaxAttempts
           /\ T[i].runAt \in Nat /\ T[i].updatedAt \in Nat
           /\ T[i].status # "none" => T[i] \in JobRow
  BY JobRunsAssumption DEF JobTable, JobRow, NoRow, Status

LEMMA RunInitInv ==
    ASSUME RunInit
    PROVE  RunInv
  BY JobRunsAssumption, HandlerRunsAssumption
     DEF RunInit, RunInv, RunTypeOK, AttemptLeft, HeldRowRuns, Holds, JobTable,
         EmptyTable, NoRow, Runner, At

(* A step of the handler, returns included: the worker keeps its row. *)
LEMMA HandlerStepInv ==
    ASSUME RunInv, runner.pc \in Holds,
           runner' \in Runner, runner'.pc \in Holds, runner'.id = runner.id,
           UNCHANGED <<clock, jobs>>, faults' \in 0..MaxFaults, crashes' \in 0..MaxCrashes
    PROVE  RunInv'
  BY DEF RunInv, RunTypeOK, AttemptLeft, HeldRowRuns

LEMMA Moved ==
    ASSUME RunInv, NEW pc \in Holds, NEW o \in {"ok", "error", "canceled"}
    PROVE  /\ [runner EXCEPT !.pc = pc] \in Runner
           /\ [runner EXCEPT !.pc = pc].pc = pc
           /\ [runner EXCEPT !.pc = pc].id = runner.id
           /\ [runner EXCEPT !.pc = pc].outcome = runner.outcome
           /\ [runner EXCEPT !.pc = pc, !.outcome = o] \in Runner
           /\ [runner EXCEPT !.pc = pc, !.outcome = o].pc = pc
           /\ [runner EXCEPT !.pc = pc, !.outcome = o].id = runner.id
           /\ [runner EXCEPT !.pc = pc, !.outcome = o].outcome = o
  BY DEF RunInv, RunTypeOK, Runner, Holds

LEMMA ProceedInv ==
    ASSUME RunInv, runner.pc \in Holds, NEW pc \in Holds, Proceed(pc)
    PROVE  RunInv' /\ runner'.pc = pc /\ runner'.id = runner.id
  <1>1. /\ runner' \in Runner /\ runner'.pc = pc /\ runner'.id = runner.id
    BY Moved DEF Proceed
  <1>2. /\ UNCHANGED <<clock, jobs>>
        /\ faults' \in 0..MaxFaults /\ crashes' \in 0..MaxCrashes
    BY DEF Proceed, RunInv, RunTypeOK
  <1> QED
    BY <1>1, <1>2, HandlerStepInv

LEMMA ReturnErrorInv ==
    ASSUME RunInv, runner.pc \in Holds, ReturnError
    PROVE  RunInv' /\ runner'.pc = "book" /\ runner'.id = runner.id /\ jobs' = jobs
  <1>0. faults \in 0..MaxFaults /\ crashes \in 0..MaxCrashes
    BY DEF RunInv, RunTypeOK
  <1>1. runner' \in Runner /\ runner'.pc = "book" /\ runner'.id = runner.id
    <2>1. PICK o \in {"error", "canceled"} : runner' = [runner EXCEPT !.pc = "book", !.outcome = o]
      BY DEF ReturnError
    <2>2. runner \in Runner
      BY DEF RunInv, RunTypeOK
    <2> QED
      BY <2>1, <2>2 DEF Runner
  <1>2. /\ UNCHANGED <<clock, jobs>>
        /\ faults' \in 0..MaxFaults /\ crashes' \in 0..MaxCrashes
    BY <1>0, HandlerRunsAssumption DEF ReturnError
  <1> QED
    BY <1>1, <1>2, HandlerStepInv DEF Holds

(* A writer beside the worker: a request, the scheduler. *)
LEMMA WriterInv ==
    ASSUME RunInv, jobs' \in JobTable, AttemptLeft',
           \A i \in JobIds : jobs[i].status = "running" => jobs'[i].status = "running",
           UNCHANGED <<clock, runner, crashes>>, faults' \in 0..MaxFaults
    PROVE  RunInv'
  BY DEF RunInv, RunTypeOK, HeldRowRuns

LEMMA EnqueueRows ==
    ASSUME NEW T \in JobTable, NEW i \in JobIds, IsNextRowId(T, i),
           NEW k \in Kinds, NEW at \in Nat, NEW now \in Nat
    PROVE  /\ EnqueueJobRun(T, i, k, at, now) \in JobTable
           /\ T[i] = NoRow
           /\ EnqueueJobRun(T, i, k, at, now)[i] =
                [kind |-> k, status |-> "queued", runAt |-> at, attempts |-> 0,
                 updatedAt |-> now]
           /\ \A j \in JobIds \ {i} : EnqueueJobRun(T, i, k, at, now)[j] = T[j]
  <1>1. T[i].status = "none"
    BY JobRunsAssumption DEF IsNextRowId, Exists, JobIds
  <1>2. T[i] = NoRow
    BY <1>1, RowTypes DEF JobRow, Status
  <1> QED
    BY <1>2, JobRunsAssumption DEF EnqueueJobRun, JobTable, JobRow, Status

LEMMA EnqueueInv ==
    ASSUME RunInv, NEW i \in JobIds, IsNextRowId(jobs, i), NEW k \in Kinds,
           NEW at \in Nat, jobs' = EnqueueJobRun(jobs, i, k, at, clock),
           UNCHANGED <<clock, runner, crashes>>, faults' \in 0..MaxFaults
    PROVE  RunInv'
  <1>1. jobs \in JobTable /\ clock \in Nat
    BY DEF RunInv, RunTypeOK
  <1>2. /\ jobs' \in JobTable /\ jobs[i] = NoRow
        /\ jobs'[i] = [kind |-> k, status |-> "queued", runAt |-> at, attempts |-> 0,
                       updatedAt |-> clock]
        /\ \A j \in JobIds \ {i} : jobs'[j] = jobs[j]
    BY <1>1, EnqueueRows
  <1>3. AttemptLeft'
    BY <1>2, JobRunsAssumption DEF RunInv, AttemptLeft
  <1>4. \A j \in JobIds : jobs[j].status = "running" => jobs'[j].status = "running"
    BY <1>2 DEF NoRow
  <1> QED
    BY <1>2, <1>3, <1>4, WriterInv

-----------------------------------------------------------------------------
(* The worker's own statements.                                            *)

LEMMA GetDueInv ==
    ASSUME RunInv, GetDue
    PROVE  /\ RunInv' /\ runner'.pc = "claim"
           /\ runner'.id \in Due(jobs, clock)
           /\ runner'.now = clock /\ UNCHANGED <<clock, jobs, faults, crashes>>
  <1>1. PICK i \in GetDueJobRun(jobs, clock) :
          runner' = [At("claim") EXCEPT !.id = i, !.attempts = jobs[i].attempts,
                                        !.now = clock]
    BY DEF GetDue
  <1>2. i \in Due(jobs, clock) /\ i \in JobIds /\ Queued(jobs, i)
    BY DEF GetDueJobRun, Due
  <1>3. jobs[i].attempts \in 0..(MaxAttempts - 1)
    BY <1>2, RowTypes, JobRunsAssumption DEF RunInv, RunTypeOK, AttemptLeft, Queued
  <1>4. runner' = [pc |-> "claim", id |-> i, attempts |-> jobs[i].attempts,
                   now |-> clock, outcome |-> "ok"]
    BY <1>1 DEF At
  <1>5. UNCHANGED <<clock, jobs, faults, crashes>>
    BY DEF GetDue
  <1>6. runner' \in Runner
    BY <1>2, <1>3, <1>4 DEF Runner, RunInv, RunTypeOK
  <1> QED
    BY <1>2, <1>4, <1>5, <1>6 DEF RunInv, RunTypeOK, AttemptLeft, HeldRowRuns, Holds

LEMMA ClaimInv ==
    ASSUME RunInv, Claim
    PROVE  /\ RunInv' /\ runner'.pc = "load" /\ runner'.id = runner.id
           /\ runner.id \in JobIds /\ Queued(jobs, runner.id)
           /\ jobs'[runner.id].kind = jobs[runner.id].kind
           /\ jobs'[runner.id].runAt = jobs[runner.id].runAt
           /\ \A i \in JobIds \ {runner.id} : jobs'[i] = jobs[i]
  <1> DEFINE i == runner.id
  <1>1. /\ i \in JobIds /\ Queued(jobs, i) /\ jobs \in JobTable /\ runner.now \in Nat
        /\ jobs' = ClaimJobRun(jobs, i, runner.now)
    BY DEF Claim, RunInv, RunTypeOK, HeldRowRuns, Runner
  <1>2. jobs[i] \in JobRow
    BY <1>1, RowTypes DEF Queued
  <1>3. /\ jobs' \in JobTable
        /\ jobs'[i].status = "running" /\ jobs'[i].attempts = jobs[i].attempts
        /\ jobs'[i].kind = jobs[i].kind /\ jobs'[i].runAt = jobs[i].runAt
        /\ \A j \in JobIds \ {i} : jobs'[j] = jobs[j]
    BY <1>1, <1>2 DEF ClaimJobRun, JobTable, JobRow, Status
  <1>4. runner' \in Runner /\ runner'.pc = "load" /\ runner'.id = i
    BY Moved DEF Claim, Holds
  <1>5. RunTypeOK'
    BY <1>3, <1>4 DEF Claim, RunInv, RunTypeOK
  <1>6. AttemptLeft'
    BY <1>1, <1>3 DEF RunInv, AttemptLeft, Queued
  <1> QED
    BY <1>1, <1>3, <1>4, <1>5, <1>6 DEF RunInv, HeldRowRuns, Holds

LEMMA AtInv ==
    ASSUME NEW pc \in {"down", "idle"}
    PROVE  At(pc) \in Runner /\ At(pc).pc = pc /\ At(pc).id = 0
  BY JobRunsAssumption DEF At, Runner

LEMMA LostRaceInv ==
    ASSUME RunInv, LostRace
    PROVE  RunInv' /\ runner'.pc = "idle"
  BY AtInv DEF LostRace, RunInv, RunTypeOK, AttemptLeft, HeldRowRuns, Holds

LEMMA CrashInv ==
    ASSUME RunInv, Crash
    PROVE  RunInv' /\ runner'.pc = "down"
  <1>1. crashes' \in 0..MaxCrashes
    BY HandlerRunsAssumption DEF Crash, RunInv, RunTypeOK
  <1> QED
    BY <1>1, AtInv DEF Crash, RunInv, RunTypeOK, AttemptLeft, HeldRowRuns, Holds

LEMMA TickInv ==
    ASSUME RunInv, Tick
    PROVE  RunInv'
  BY DEF Tick, RunInv, RunTypeOK, AttemptLeft, HeldRowRuns

(* The bookkeeping write: by the outcome, the held row is done, queued     *)
(* again at a known time, or failed with its attempts used up.             *)
LEMMA BookInv ==
    ASSUME RunInv, Book
    PROVE  /\ RunInv'
           /\ runner'.pc = (IF runner.outcome = "canceled" THEN "down" ELSE "idle")
           /\ runner.id \in JobIds /\ jobs[runner.id].status = "running"
           /\ jobs'[runner.id].kind = jobs[runner.id].kind
           /\ \A i \in JobIds \ {runner.id} : jobs'[i] = jobs[i]
           /\ \/ runner.outcome = "ok" /\ jobs'[runner.id].status = "done"
              \/ /\ runner.outcome = "canceled" /\ jobs'[runner.id].status = "queued"
                 /\ jobs'[runner.id].runAt = runner.now
              \/ /\ runner.outcome = "error" /\ jobs'[runner.id].status = "queued"
                 /\ jobs'[runner.id].runAt = runner.now + RetryDelay
              \/ /\ runner.outcome = "error" /\ jobs'[runner.id].status = "failed"
                 /\ jobs'[runner.id].attempts >= MaxAttempts
  <1> DEFINE i == runner.id
  <1>1. /\ i \in JobIds /\ jobs[i].status = "running" /\ jobs \in JobTable
        /\ runner.now \in Nat /\ clock \in Nat /\ jobs' = Booked
        /\ runner.attempts \in 0..(MaxAttempts - 1)
        /\ runner.outcome \in {"ok", "error", "canceled"}
    BY DEF Book, RunInv, RunTypeOK, HeldRowRuns, Holds, Runner
  <1>2. /\ jobs[i] \in JobRow /\ Exists(jobs, i)
        /\ runner.attempts \in 0..MaxAttempts /\ runner.attempts < MaxAttempts
        /\ runner.attempts + 1 \in 0..MaxAttempts /\ runner.now + RetryDelay \in Nat
    BY <1>1, RowTypes, JobRunsAssumption, HandlerRunsAssumption DEF Exists
  <1>3. PICK row \in JobRow :
          /\ jobs' = [jobs EXCEPT ![i] = row] /\ row.kind = jobs[i].kind
          /\ row.status = "queued" => row.attempts < MaxAttempts
          /\ \/ runner.outcome = "ok" /\ row.status = "done"
             \/ /\ runner.outcome = "canceled" /\ row.status = "queued"
                /\ row.runAt = runner.now
             \/ /\ runner.outcome = "error" /\ row.status = "queued"
                /\ row.runAt = runner.now + RetryDelay
             \/ /\ runner.outcome = "error" /\ row.status = "failed"
                /\ row.attempts >= MaxAttempts
    <2>1. CASE runner.outcome = "ok"
      <3> DEFINE r == [jobs[i] EXCEPT !.status = "done", !.updatedAt = runner.now]
      <3>1. jobs' = CompleteJobRun(jobs, i, runner.now)
        BY <1>1, <2>1 DEF Booked
      <3>2. jobs' = [jobs EXCEPT ![i] = r]
        BY <1>2, <3>1 DEF CompleteJobRun, Update
      <3>3. /\ r \in JobRow /\ r.kind = jobs[i].kind
            /\ r.status = "done"
        BY <1>1, <1>2, <2>1 DEF JobRow, Status
      <3> QED
        BY <2>1, <3>2, <3>3
    <2>2. CASE runner.outcome = "canceled"
      <3> DEFINE r == [jobs[i] EXCEPT !.status = "queued", !.attempts = runner.attempts,
                                      !.runAt = runner.now, !.updatedAt = runner.now]
      <3>1. jobs' = RescheduleJobRun(jobs, i, runner.attempts, runner.now, runner.now)
        BY <1>1, <2>2 DEF Booked
      <3>2. jobs' = [jobs EXCEPT ![i] = r]
        BY <1>2, <3>1 DEF RescheduleJobRun, Update
      <3>3. /\ r \in JobRow /\ r.kind = jobs[i].kind
            /\ r.status = "queued" /\ r.runAt = runner.now /\ r.attempts < MaxAttempts
        BY <1>1, <1>2, <2>2 DEF JobRow, Status
      <3> QED
        BY <2>2, <3>2, <3>3
    <2>3. CASE runner.outcome = "error" /\ runner.attempts + 1 >= MaxAttempts
      <3> DEFINE r == [jobs[i] EXCEPT !.status = "failed", !.attempts = runner.attempts + 1,
                                      !.updatedAt = clock]
      <3>1. jobs' = FailJobRun(jobs, i, runner.attempts + 1, clock)
        BY <1>1, <2>3 DEF Booked
      <3>2. jobs' = [jobs EXCEPT ![i] = r]
        BY <1>2, <3>1 DEF FailJobRun, Update
      <3>3. /\ r \in JobRow /\ r.kind = jobs[i].kind
            /\ r.status = "failed" /\ r.attempts >= MaxAttempts
        BY <1>1, <1>2, <2>3 DEF JobRow, Status
      <3> QED
        BY <2>3, <3>2, <3>3
    <2>4. CASE runner.outcome = "error" /\ ~(runner.attempts + 1 >= MaxAttempts)
      <3> DEFINE r == [jobs[i] EXCEPT !.status = "queued", !.attempts = runner.attempts + 1,
                                      !.runAt = runner.now + RetryDelay,
                                      !.updatedAt = runner.now]
      <3>1. jobs' = RescheduleJobRun(jobs, i, runner.attempts + 1,
                                     runner.now + RetryDelay, runner.now)
        BY <1>1, <2>4 DEF Booked
      <3>2. jobs' = [jobs EXCEPT ![i] = r]
        BY <1>2, <3>1 DEF RescheduleJobRun, Update
      <3>3. /\ r \in JobRow /\ r.kind = jobs[i].kind
            /\ r.status = "queued" /\ r.runAt = runner.now + RetryDelay /\ r.attempts = runner.attempts + 1
        BY <1>1, <1>2, <2>4 DEF JobRow, Status
      <3>4. r.attempts < MaxAttempts
        BY <1>2, <2>4, <3>3, JobRunsAssumption
      <3> QED
        BY <2>4, <3>2, <3>3, <3>4
    <2> QED  BY <1>1, <2>1, <2>2, <2>3, <2>4
  <1>4. /\ jobs' \in JobTable /\ jobs'[i] = row
        /\ \A j \in JobIds \ {i} : jobs'[j] = jobs[j]
    BY <1>1, <1>3 DEF JobTable
  <1>5. /\ runner' \in Runner
        /\ runner'.pc = (IF runner.outcome = "canceled" THEN "down" ELSE "idle")
    BY AtInv DEF Book
  <1>6. AttemptLeft'
    BY <1>3, <1>4 DEF RunInv, AttemptLeft
  <1>7. RunTypeOK'
    BY <1>4, <1>5 DEF Book, RunInv, RunTypeOK
  <1>8. HeldRowRuns'
    BY <1>5 DEF HeldRowRuns, Holds
  <1> QED
    BY <1>1, <1>3, <1>4, <1>5, <1>6, <1>7, <1>8 DEF RunInv

(* Startup recovery: an old running row is queued again at its old time,   *)
(* or failed when its attempts are used up; other rows are left alone.     *)
LEMMA RestartInv ==
    ASSUME RunInv, Restart
    PROVE  /\ RunInv' /\ runner'.pc = "idle"
           /\ \A i \in JobIds :
                \/ jobs'[i] = jobs[i]
                \/ /\ jobs[i].status = "running"
                   /\ jobs'[i].kind = jobs[i].kind /\ jobs'[i].runAt = jobs[i].runAt
                   /\ \/ jobs'[i].status = "queued"
                      \/ jobs'[i].status = "failed" /\ jobs'[i].attempts >= MaxAttempts
  <1> DEFINE cutoff == clock - StaleAfter
  <1>1. /\ jobs \in JobTable /\ clock \in Nat
        /\ jobs' = RequeueStaleRunningJobRuns(jobs, cutoff, clock)
    BY DEF Restart, RunInv, RunTypeOK
  <1>2. ASSUME NEW i \in JobIds
        PROVE  /\ jobs'[i] \in JobRow \cup {NoRow}
               /\ jobs'[i].status \in {"queued", "running"} => jobs'[i].attempts < MaxAttempts
               /\ \/ jobs'[i] = jobs[i]
                  \/ /\ jobs[i].status = "running"
                     /\ jobs'[i].kind = jobs[i].kind /\ jobs'[i].runAt = jobs[i].runAt
                     /\ \/ jobs'[i].status = "queued"
                        \/ jobs'[i].status = "failed" /\ jobs'[i].attempts >= MaxAttempts
    <2>1. CASE Stale(jobs[i], cutoff)
      <3>1. /\ jobs[i] \in JobRow /\ jobs[i].status = "running"
            /\ jobs[i].attempts + 1 \in 0..MaxAttempts
        BY <1>1, <2>1, RowTypes, JobRunsAssumption DEF Stale, RunInv, AttemptLeft
      <3>2. jobs'[i] = [kind |-> jobs[i].kind, runAt |-> jobs[i].runAt,
                        status |-> IF jobs[i].attempts + 1 >= MaxAttempts
                                   THEN "failed" ELSE "queued",
                        attempts |-> jobs[i].attempts + 1, updatedAt |-> clock]
        BY <1>1, <2>1, <3>1 DEF RequeueStaleRunningJobRuns, JobRow
      <3> QED
        BY <1>1, <3>1, <3>2, JobRunsAssumption DEF JobRow, Status
    <2>2. CASE ~Stale(jobs[i], cutoff)
      <3>1. jobs'[i] = jobs[i]
        BY <1>1, <2>2 DEF RequeueStaleRunningJobRuns
      <3> QED
        BY <1>1, <3>1, RowTypes DEF RunInv, AttemptLeft
    <2> QED  BY <2>1, <2>2
  <1>3. jobs' \in JobTable
    BY <1>1, <1>2 DEF RequeueStaleRunningJobRuns, JobTable
  <1>4. runner' \in Runner /\ runner'.pc = "idle"
    BY AtInv DEF Restart
  <1> QED
    BY <1>2, <1>3, <1>4 DEF Restart, RunInv, RunTypeOK, AttemptLeft, HeldRowRuns, Holds
=============================================================================
