---------------------------- MODULE HandlerRuns ----------------------------
(***************************************************************************)
(* The worker of one process as a job handler sees it: RunOnce from the    *)
(* due row to the bookkeeping write, with the steps of the handler left to *)
(* the modules that extend this one.  JobQueue is the full model of the    *)
(* queue; here one worker runs, wakes are left out, and the theorems of    *)
(* JobQueueProofs justify that a row is executed by one worker at a time.  *)
(***************************************************************************)
EXTENDS JobRuns

CONSTANTS
    RetryDelay,  \* worker.go: backoff after a failed run
    StaleAfter,  \* main.go: age of a claim that startup recovery requeues
    MaxTime,     \* bound on the clock
    MaxFaults,   \* bound on failing statements and calls
    MaxCrashes   \* bound on crashes and shutdowns

ASSUME HandlerRunsAssumption ==
    /\ RetryDelay \in Nat /\ StaleAfter \in Nat
    /\ MaxTime \in Nat /\ MaxFaults \in Nat /\ MaxCrashes \in Nat

VARIABLES
    clock,    \* wall clock
    jobs,     \* the job_runs table
    runner,   \* the worker goroutine
    faults,   \* statements and calls that failed so far
    crashes   \* crashes and shutdowns so far

runVars == <<clock, jobs, runner, faults, crashes>>

(* load: the handler is about to read its record; visit: at the top of its *)
(* loop; act: about to call out; write: about to write.                    *)
Runner == [pc : {"down", "idle", "claim", "load", "visit", "act", "write", "book"},
           id : {0} \cup JobIds, attempts : 0..(MaxAttempts - 1), now : Nat,
           outcome : {"ok", "error", "canceled"}]

At(pc) == [pc |-> pc, id |-> 0, attempts |-> 0, now |-> 0, outcome |-> "ok"]

RunTypeOK ==
    /\ clock \in Nat
    /\ jobs \in JobTable
    /\ runner \in Runner
    /\ faults \in 0..MaxFaults
    /\ crashes \in 0..MaxCrashes

RunInit ==
    /\ clock = 1
    /\ jobs = EmptyTable
    /\ runner = At("idle")
    /\ faults = 0
    /\ crashes = 0

GetDue ==
    /\ runner.pc = "idle"
    /\ \E i \in GetDueJobRun(jobs, clock) :
        runner' = [At("claim") EXCEPT !.id = i, !.attempts = jobs[i].attempts, !.now = clock]
    /\ UNCHANGED <<clock, jobs, faults, crashes>>

Claim ==
    /\ runner.pc = "claim" /\ Queued(jobs, runner.id)
    /\ jobs' = ClaimJobRun(jobs, runner.id, runner.now)
    /\ runner' = [runner EXCEPT !.pc = "load"]
    /\ UNCHANGED <<clock, faults, crashes>>

LostRace ==
    /\ runner.pc = "claim" /\ ~Queued(jobs, runner.id)
    /\ runner' = At("idle")
    /\ UNCHANGED <<clock, jobs, faults, crashes>>

(* The handler goes on to pc; "book" is its return without an error.       *)
Proceed(pc) ==
    /\ runner' = [runner EXCEPT !.pc = pc]
    /\ UNCHANGED <<clock, jobs, faults, crashes>>

(* The handler returns an error: a statement or a call failed, or ctx was  *)
(* cancelled by a shutdown under way.                                      *)
ReturnError ==
    /\ \/ /\ faults < MaxFaults /\ faults' = faults + 1
          /\ runner' = [runner EXCEPT !.pc = "book", !.outcome = "error"]
          /\ UNCHANGED crashes
       \/ /\ crashes < MaxCrashes /\ crashes' = crashes + 1
          /\ runner' = [runner EXCEPT !.pc = "book", !.outcome = "canceled"]
          /\ UNCHANGED faults
    /\ UNCHANGED <<clock, jobs>>

HandlerError == runner.pc \in {"load", "write"} /\ ReturnError

(* The table after the bookkeeping write of RunOnce. *)
Booked ==
    CASE runner.outcome = "ok" -> CompleteJobRun(jobs, runner.id, runner.now)
      [] runner.outcome = "canceled" ->
           RescheduleJobRun(jobs, runner.id, runner.attempts, runner.now, runner.now)
      [] runner.outcome = "error" /\ runner.attempts + 1 >= MaxAttempts ->
           FailJobRun(jobs, runner.id, runner.attempts + 1, clock)
      [] OTHER ->
           RescheduleJobRun(jobs, runner.id, runner.attempts + 1,
                            runner.now + RetryDelay, runner.now)

(* After a cancelled run the worker goroutine returns and the process ends. *)
Book ==
    /\ runner.pc = "book"
    /\ jobs' = Booked
    /\ runner' = At(IF runner.outcome = "canceled" THEN "down" ELSE "idle")
    /\ UNCHANGED <<clock, faults, crashes>>

Crash ==
    /\ runner.pc # "down" /\ crashes < MaxCrashes
    /\ runner' = At("down")
    /\ crashes' = crashes + 1
    /\ UNCHANGED <<clock, jobs, faults>>

Restart ==
    /\ runner.pc = "down"
    /\ jobs' = RequeueStaleRunningJobRuns(jobs, clock - StaleAfter, clock)
    /\ runner' = At("idle")
    /\ UNCHANGED <<clock, faults, crashes>>

Tick ==
    /\ clock < MaxTime
    /\ clock' = clock + 1
    /\ UNCHANGED <<jobs, runner, faults, crashes>>

Serving == runner.pc # "down"

(* A row a dead process left running and a restart within StaleAfter did    *)
(* not requeue: it waits for a start that comes later than that.           *)
Stranded ==
    \E i \in JobIds :
        /\ jobs[i].status = "running"
        /\ runner.pc \in {"idle", "claim"} \/ (Serving /\ runner.id # i)
=============================================================================
