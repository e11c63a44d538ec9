------------------------------ MODULE JobQueue ------------------------------
(***************************************************************************)
(* The job queue: internal/jobs (Enqueuer, Worker, RecoverStaleJobs, the   *)
(* hourly cleanup) and the process lifecycle of cmd/server/main.go.        *)
(*                                                                         *)
(* A process runs one worker goroutine; HTTP handlers and the cron         *)
(* goroutine of the same process write job_runs between any two of its     *)
(* statements.  RunOnce is therefore cut at every statement: read a due    *)
(* row, claim it, run the handler, write the outcome.                      *)
(***************************************************************************)
EXTENDS JobRuns

CONSTANTS
    Procs,          \* server processes (one, or two during a rolling deploy)
    SingletonKinds, \* enqueued through EnqueueUnlessActive (twitter_sync)
    TxKinds,        \* also enqueued by enqueueTx inside an article transaction
    ArticleKinds,   \* publish_article rows: cancelled by deletion
    PageKinds,      \* publish_page rows: cancelled by marking them failed
    UnknownKinds,   \* kinds no handler is registered for
    Delays,         \* how far ahead Enqueue callers schedule run_at
    Backoff,        \* Backoff[n + 1]: delay after a failure at attempts n
    BackoffLen,     \* len(Backoff)
    StaleAfter,     \* main.go: age of a claim that startup recovery requeues
    Retention,      \* scheduler.go: age of a finished row that is deleted
    MayOverlap,     \* TRUE: a new process may start beside an old one
    MaxTime,        \* bound on the clock
    MaxFaults,      \* bound on failing statements
    MaxStarts       \* bound on process starts

ASSUME JobQueueAssumption ==
    /\ SingletonKinds \subseteq Kinds
    /\ TxKinds \subseteq Kinds \ SingletonKinds
    /\ ArticleKinds \subseteq Kinds \ SingletonKinds
    /\ PageKinds \subseteq Kinds
    /\ UnknownKinds \subseteq Kinds
    /\ Delays \subseteq Nat
    /\ BackoffLen \in Nat \ {0}
    /\ Backoff \in [1..BackoffLen -> Nat]
    /\ StaleAfter \in Nat
    /\ Retention \in Nat
    /\ MayOverlap \in BOOLEAN

VARIABLES
    clock,    \* wall clock, in seconds
    jobs,     \* the job_runs table
    worker,   \* per process: the Worker goroutine and its local variables
    faults,   \* statements that failed so far
    starts,   \* process starts so far
    execs     \* ghost: executions charged to the row now stored under an id

vars == <<clock, jobs, worker, faults, starts, execs>>

-----------------------------------------------------------------------------
(* pc: down (no process), wait (Start's select), poll (about to run         *)
(* GetDueJobRun), claim (holds a row it read), run (handler executing),     *)
(* book (outcome known, not yet written), stopped (Start has returned, main *)
(* is still draining HTTP requests).  cancelled is ctx.Err() # nil,    *)
(* wake the one-slot channel; id, kind and attempts are the row as RunOnce  *)
(* read it, now the time it took at its start.                              *)

Pcs == {"down", "wait", "poll", "claim", "run", "book", "stopped"}
Outcomes == {"none", "ok", "error", "canceled", "unknown"}

Worker == [pc : Pcs, cancelled : BOOLEAN, wake : BOOLEAN, id : {0} \cup JobIds,
           kind : Kinds \cup {NoKind}, attempts : 0..MaxAttempts, now : Nat,
           outcome : Outcomes]

(* A worker outside RunOnce: RunOnce's locals are out of scope. *)
Outside(pc, cancelled, wake) ==
    [pc |-> pc, cancelled |-> cancelled, wake |-> wake, id |-> 0,
     kind |-> NoKind, attempts |-> 0, now |-> 0, outcome |-> "none"]

Down == Outside("down", FALSE, FALSE)

Up(p) == worker[p].pc # "down"

Holding(p) == worker[p].pc \in {"run", "book"}

Leave(p, pc) == Outside(pc, worker[p].cancelled, worker[p].wake)

Nudge(p) == [worker EXCEPT ![p].wake = TRUE]

(* Types.  Rows stay within their attempt range, although no statement of   *)
(* jobs.sql checks attempts against the maximum.                            *)
TypeOK ==
    /\ clock \in Nat
    /\ jobs \in JobTable
    /\ worker \in [Procs -> Worker]
    /\ faults \in Nat
    /\ starts \in Nat
    /\ execs \in [JobIds -> Int]

Init ==
    /\ clock = 0
    /\ jobs = EmptyTable
    /\ worker = [p \in Procs |-> Down]
    /\ faults = 0
    /\ starts = 0
    /\ execs = [i \in JobIds |-> 0]

-----------------------------------------------------------------------------
(* Writers of the table other than the worker.                              *)

(* Enqueuer.Enqueue by an HTTP handler or the scheduler: insert, then wake. *)
Enqueue(p) ==
    /\ Up(p)
    /\ \E k \in Kinds \ SingletonKinds, d \in Delays, i \in JobIds :
        /\ IsNextRowId(jobs, i)
        /\ jobs' = EnqueueJobRun(jobs, i, k, clock + d, clock)
        /\ execs' = [execs EXCEPT ![i] = 0]
    /\ worker' = Nudge(p)
    /\ UNCHANGED <<clock, faults, starts>>

(* EnqueuePublishEffects and the publish handler: enqueueTx inserts a row   *)
(* due at once and has no wake.                                             *)
EnqueueTx(p) ==
    /\ Up(p)
    /\ \E k \in TxKinds, i \in JobIds :
        /\ IsNextRowId(jobs, i)
        /\ jobs' = EnqueueJobRun(jobs, i, k, clock, clock)
        /\ execs' = [execs EXCEPT ![i] = 0]
    /\ UNCHANGED <<clock, worker, faults, starts>>

(* articles.Save storing a schedule: in one transaction the queued          *)
(* publish_article rows of the article are deleted and a new one is         *)
(* inserted; enqueueTx has no wake.                                         *)
SaveSchedule(p) ==
    /\ Up(p)
    /\ \E k \in ArticleKinds, d \in Delays, i \in JobIds :
        LET T == CancelQueuedPublishJobs(jobs, k) IN
        /\ IsNextRowId(T, i)
        /\ jobs' = EnqueueJobRun(T, i, k, clock + d, clock)
        /\ execs' = [execs EXCEPT ![i] = 0]
    /\ UNCHANGED <<clock, worker, faults, starts>>

(* articles.Destroy: the queued publish_article rows go with the article.   *)
DestroyArticle(p) ==
    /\ Up(p)
    /\ \E k \in ArticleKinds :
        /\ \E i \in JobIds : Queued(jobs, i) /\ jobs[i].kind = k
        /\ jobs' = CancelQueuedPublishJobs(jobs, k)
    /\ UNCHANGED <<clock, worker, faults, starts, execs>>

(* schedulePagePublication, first statement; the new row is an Enqueue.     *)
CancelPageJobs(p) ==
    /\ Up(p)
    /\ \E k \in PageKinds :
        /\ \E i \in JobIds : Queued(jobs, i) /\ jobs[i].kind = k
        /\ jobs' = CancelQueuedPublishPageJobs(jobs, k, clock)
    /\ UNCHANGED <<clock, worker, faults, starts, execs>>

(* The twitter_sync hook and the admin "Sync Now": insert unless active.    *)
EnqueueUnlessActive(p) ==
    /\ Up(p)
    /\ \E k \in SingletonKinds, i \in JobIds :
        /\ NoActiveRow(jobs, k)
        /\ IsNextRowId(jobs, i)
        /\ jobs' = EnqueueJobRun(jobs, i, k, clock, clock)
        /\ execs' = [execs EXCEPT ![i] = 0]
    /\ worker' = Nudge(p)
    /\ UNCHANGED <<clock, faults, starts>>

(* cleanupFinishedJobRuns, hourly. *)
CleanupFinishedJobRuns(p) ==
    /\ Up(p)
    /\ jobs' = DeleteFinishedJobRuns(jobs, clock - Retention)
    /\ jobs' # jobs
    /\ UNCHANGED <<clock, worker, faults, starts, execs>>

-----------------------------------------------------------------------------
(* Worker.Start and Worker.RunOnce.                                         *)

(* select: a pending nudge is taken from the channel.                       *)
TakeWake(p) ==
    /\ worker[p].pc = "wait" /\ ~worker[p].cancelled /\ worker[p].wake
    /\ worker' = [worker EXCEPT ![p].pc = "poll", ![p].wake = FALSE]
    /\ UNCHANGED <<clock, jobs, faults, starts, execs>>

(* Faulty: the loop forgets the ticker and polls only when nudged. *)
MutPollTick(p) == TakeWake(p)

(* select: the poll ticker fires.                                           *)
PollTick(p) ==
    /\ worker[p].pc = "wait" /\ ~worker[p].cancelled
    /\ worker' = [worker EXCEPT ![p].pc = "poll"]
    /\ UNCHANGED <<clock, jobs, faults, starts, execs>>

(* select on a cancelled ctx: Start returns. *)
StartReturns(p) ==
    /\ worker[p].pc = "wait" /\ worker[p].cancelled
    /\ worker' = [worker EXCEPT ![p] = Leave(p, "stopped")]
    /\ UNCHANGED <<clock, jobs, faults, starts, execs>>

GetDue(p) ==
    /\ worker[p].pc = "poll" /\ ~worker[p].cancelled
    /\ \E i \in GetDueJobRun(jobs, clock) :
        worker' = [worker EXCEPT ![p].pc = "claim", ![p].id = i,
                                 ![p].kind = jobs[i].kind,
                                 ![p].attempts = jobs[i].attempts,
                                 ![p].now = clock]
    /\ UNCHANGED <<clock, jobs, faults, starts, execs>>

NoneDue(p) ==
    /\ worker[p].pc = "poll" /\ ~worker[p].cancelled
    /\ GetDueJobRun(jobs, clock) = {}
    /\ worker' = [worker EXCEPT ![p] = Leave(p, "wait")]
    /\ UNCHANGED <<clock, jobs, faults, starts, execs>>

(* GetDueJobRun or ClaimJobRun returns an error: always on a cancelled ctx, *)
(* at times on a busy database.  RunOnce gives up and the drain ends.       *)
QueryError(p) ==
    /\ worker[p].pc \in {"poll", "claim"}
    /\ \/ worker[p].cancelled /\ UNCHANGED faults
       \/ ~worker[p].cancelled /\ faults < MaxFaults /\ faults' = faults + 1
    /\ worker' = [worker EXCEPT ![p] = Leave(p, "wait")]
    /\ UNCHANGED <<clock, jobs, starts, execs>>

(* UPDATE ... WHERE id = ? AND status = 'queued' affects one row.           *)
Claim(p) ==
    LET i == worker[p].id
        unknown == worker[p].kind \in UnknownKinds IN
    /\ worker[p].pc = "claim" /\ Queued(jobs, i)
    /\ jobs' = ClaimJobRun(jobs, i, worker[p].now)
    /\ execs' = [execs EXCEPT ![i] = @ + 1]
    /\ worker' = [worker EXCEPT
                    ![p].pc = IF unknown THEN "book" ELSE "run",
                    ![p].outcome = IF unknown THEN "unknown" ELSE "none"]
    /\ UNCHANGED <<clock, faults, starts>>

(* ... or none: the row was claimed or deleted since it was read.           *)
LostRace(p) ==
    /\ worker[p].pc = "claim" /\ ~Queued(jobs, worker[p].id)
    /\ worker' = [worker EXCEPT ![p] = Leave(p, "wait")]
    /\ UNCHANGED <<clock, jobs, faults, starts, execs>>

(* The handler returns nil, an error (a panic is one), or context.Canceled. *)
HandlerReturns(p) ==
    /\ worker[p].pc = "run"
    /\ \E o \in {"ok", "error", "canceled"} :
        worker' = [worker EXCEPT ![p].pc = "book", ![p].outcome = o]
    /\ UNCHANGED <<clock, jobs, faults, starts, execs>>

(* ctx.Err() != nil && errors.Is(runErr, context.Canceled) *)
FreeRequeue(w) == w.outcome = "canceled" /\ w.cancelled

Delay(attempts) == Backoff[IF attempts < BackoffLen THEN attempts + 1 ELSE BackoffLen]

(* Faulty: the attempt budget is off by one (> for >=). *)
MutBookkeep(w, now) ==
    IF w.outcome = "ok" THEN CompleteJobRun(jobs, w.id, w.now)
    ELSE IF w.attempts + 1 > MaxAttempts
         THEN FailJobRun(jobs, w.id, w.attempts + 1, now)
         ELSE RescheduleJobRun(jobs, w.id, w.attempts + 1,
                               w.now + Delay(w.attempts), w.now)

(* The table after RunOnce's bookkeeping write for worker state w.          *)
Bookkeep(w, now) ==
    CASE w.outcome = "ok" -> CompleteJobRun(jobs, w.id, w.now)
      [] w.outcome = "unknown" -> FailJobRun(jobs, w.id, w.attempts, now)
      [] FreeRequeue(w) -> RescheduleJobRun(jobs, w.id, w.attempts, w.now, w.now)
      [] OTHER ->
           IF w.attempts + 1 >= MaxAttempts
           THEN FailJobRun(jobs, w.id, w.attempts + 1, now)
           ELSE RescheduleJobRun(jobs, w.id, w.attempts + 1,
                                 w.now + Delay(w.attempts), w.now)

(* Faulty: one job per wakeup. *)
MutAfterRun(p) == Leave(p, "wait")

(* RunOnce returns (true, _): the drain goes on unless ctx is cancelled.    *)
AfterRun(p) == Leave(p, IF worker[p].cancelled THEN "wait" ELSE "poll")

Book(p) ==
    LET w == worker[p] IN
    /\ w.pc = "book"
    /\ jobs' = Bookkeep(w, clock)
    /\ execs' = IF FreeRequeue(w) THEN [execs EXCEPT ![w.id] = @ - 1] ELSE execs
    /\ worker' = [worker EXCEPT ![p] = AfterRun(p)]
    /\ UNCHANGED <<clock, faults, starts>>

(* The bookkeeping write fails: the error is logged and the drain goes on.  *)
BookError(p) ==
    /\ worker[p].pc = "book"
    /\ faults < MaxFaults
    /\ faults' = faults + 1
    /\ worker' = [worker EXCEPT ![p] = AfterRun(p)]
    /\ UNCHANGED <<clock, jobs, starts, execs>>

-----------------------------------------------------------------------------
(* Process lifecycle.                                                       *)

(* SIGTERM: the worker's ctx is cancelled. *)
Shutdown(p) ==
    /\ Up(p) /\ ~worker[p].cancelled
    /\ worker' = [worker EXCEPT ![p].cancelled = TRUE]
    /\ UNCHANGED <<clock, jobs, faults, starts, execs>>

(* workerDone is closed and the HTTP server is shut down: main returns.     *)
Exit(p) ==
    /\ worker[p].pc = "stopped"
    /\ worker' = [worker EXCEPT ![p] = Down]
    /\ UNCHANGED <<clock, jobs, faults, starts, execs>>

(* SIGKILL, out of memory, or main's 15s wait for the worker running out.   *)
Kill(p) ==
    /\ Up(p)
    /\ worker' = [worker EXCEPT ![p] = Down]
    /\ UNCHANGED <<clock, jobs, faults, starts, execs>>

(* RecoverStaleJobs assumes a single live process; with a rolling deploy it *)
(* relies on no live process holding a row claimed before the cutoff.       *)
MayStart(p) ==
    /\ worker[p].pc = "down" /\ starts < MaxStarts
    /\ \A q \in Procs \ {p} :
        \/ worker[q].pc = "down"
        \/ /\ MayOverlap
           /\ worker[q].pc \in {"claim", "run", "book"}
                => worker[q].now >= clock - StaleAfter

(* main: recovery runs before the worker starts polling; if its statement   *)
(* fails, the error is logged and the process starts without it.            *)
StartProcess(p) ==
    /\ MayStart(p)
    /\ \/ /\ jobs' = RequeueStaleRunningJobRuns(jobs, clock - StaleAfter, clock)
          /\ UNCHANGED faults
       \/ /\ faults < MaxFaults
          /\ faults' = faults + 1
          /\ UNCHANGED jobs
    /\ worker' = [worker EXCEPT ![p] = Outside("wait", FALSE, FALSE)]
    /\ starts' = starts + 1
    /\ UNCHANGED <<clock, execs>>

Tick ==
    /\ clock < MaxTime
    /\ clock' = clock + 1
    /\ UNCHANGED <<jobs, worker, faults, starts, execs>>

-----------------------------------------------------------------------------
WorkerStep(p) ==
    \/ TakeWake(p) \/ PollTick(p) \/ StartReturns(p)
    \/ GetDue(p) \/ NoneDue(p) \/ QueryError(p)
    \/ Claim(p) \/ LostRace(p) \/ HandlerReturns(p)
    \/ Book(p) \/ BookError(p)

Writer(p) ==
    \/ Enqueue(p) \/ EnqueueTx(p) \/ SaveSchedule(p) \/ DestroyArticle(p)
    \/ CancelPageJobs(p) \/ EnqueueUnlessActive(p)
    \/ CleanupFinishedJobRuns(p)

Lifecycle(p) == Shutdown(p) \/ Exit(p) \/ Kill(p) \/ StartProcess(p)

Next == Tick \/ \E p \in Procs : WorkerStep(p) \/ Writer(p) \/ Lifecycle(p)

Spec == Init /\ [][Next]_vars

(* Fairness: the Go scheduler keeps running the worker goroutine, the poll  *)
(* ticker keeps firing, handlers return (network calls carry timeouts) and  *)
(* systemd's Restart=always brings a dead process back.  Failing statements *)
(* are bounded by MaxFaults; nothing is assumed of users or of the clock.   *)
Fairness ==
    \A p \in Procs :
        /\ WF_vars(TakeWake(p) \/ PollTick(p) \/ StartReturns(p))
        /\ WF_vars(GetDue(p) \/ NoneDue(p) \/ QueryError(p))
        /\ WF_vars(Claim(p) \/ LostRace(p))
        /\ WF_vars(HandlerReturns(p))
        /\ WF_vars(Book(p))
        /\ WF_vars(Exit(p))
        /\ WF_vars(StartProcess(p))

FairSpec == Spec /\ Fairness

-----------------------------------------------------------------------------
(* Properties.                                                              *)

(* No row is executed by two workers at once, and the row a worker executes *)
(* stays "running" under it: nothing requeues, finishes or deletes it, so   *)
(* the id-keyed bookkeeping write of RunOnce hits the row it claimed.       *)
HeldRowsAreExclusive ==
    \A p \in Procs : Holding(p) =>
        /\ jobs[worker[p].id].status = "running"
        /\ \A q \in Procs \ {p} : Holding(q) => worker[q].id # worker[p].id

Active(i) == jobs[i].status \in {"queued", "running"}

(* MaxAttempts bounds the executions of a row across errors, crashes and    *)
(* failed bookkeeping writes; only runs cut short by a shutdown are free.   *)
(* ClaimJobRun never checks attempts, so this rests on every path that puts *)
(* a row back having charged it.                                            *)
AttemptBudget ==
    /\ \A i \in JobIds : execs[i] <= MaxAttempts
    /\ \A i \in JobIds : Active(i) => jobs[i].attempts < MaxAttempts

(* EnqueueUnlessActive keeps a singleton kind to one queued or running row, *)
(* whatever retries, crashes and recoveries do to that row.                 *)
SingletonIsSingle ==
    \A i, j \in JobIds :
        (Active(i) /\ Active(j) /\ jobs[i].kind = jobs[j].kind
            /\ jobs[i].kind \in SingletonKinds) => i = j

Life == INSTANCE JobLifecycle WITH
    Rows <- JobIds, Budget <- MaxAttempts,
    st <- [i \in JobIds |-> jobs[i].status], runs <- execs

(* Every row follows the abstract lifecycle: finished rows stay finished,   *)
(* at most MaxAttempts charged runs, attempts given back only by shutdown.  *)
FollowsLifecycle == Life!Spec

(* The inductive invariant behind TypeOK and HeldRowsAreExclusive: a worker *)
(* past GetDueJobRun has a real row id and budget left, and a row it holds  *)
(* carries its claim time, which is what the recovery cutoff looks at.      *)
HeldRowCarriesClaim ==
    /\ \A i \in JobIds : Active(i) => jobs[i].attempts < MaxAttempts
    /\ \A p \in Procs : worker[p].pc \in {"claim", "run", "book"} =>
        worker[p].id \in JobIds /\ worker[p].attempts < MaxAttempts
    /\ \A p \in Procs : Holding(p) => jobs[worker[p].id].updatedAt = worker[p].now

(* The strengthening behind AttemptBudget, for one live process: a row's    *)
(* attempts account for its charged executions, and so does the attempts    *)
(* value the worker read, even when its id was given to a newer row.        *)
ExecutionsAreCharged ==
    /\ \A p, q \in Procs : Up(p) /\ Up(q) => p = q
    /\ \A i \in JobIds :
        /\ jobs[i].status = "queued" => execs[i] <= jobs[i].attempts
        /\ jobs[i].status = "running" => execs[i] <= jobs[i].attempts + 1
    /\ \A p \in Procs :
        /\ (worker[p].pc = "claim" /\ Queued(jobs, worker[p].id))
                => jobs[worker[p].id].attempts <= worker[p].attempts
        /\ Holding(p) => execs[worker[p].id] <= worker[p].attempts + 1

(* A wakeup "drains every due job": the worker goes back to its select only *)
(* when no row that was due when it last looked is still queued.  Only a    *)
(* failed statement, a cancelled ctx or a lost claim ("picked up on a later *)
(* poll") cut the drain short.                                              *)
DrainLeavesNothingDue ==
    [][\A p \in Procs :
        /\ worker[p].pc \in {"poll", "book"} /\ worker'[p].pc = "wait"
        /\ ~worker[p].cancelled /\ UNCHANGED faults
        => Due(jobs, IF worker[p].pc = "poll" THEN clock ELSE worker[p].now) = {}]_vars

(* A due row is not starved: with a process that stays up, it is claimed,   *)
(* cancelled or replaced in the end.                                        *)
DueRowIsTaken ==
    (\E p \in Procs : <>[](Up(p) /\ ~worker[p].cancelled)) =>
        \A i \in JobIds :
            (Queued(jobs, i) /\ jobs[i].runAt <= clock)
                ~> ~(Queued(jobs, i) /\ jobs[i].runAt <= clock)
=============================================================================
