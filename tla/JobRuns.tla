------------------------------- MODULE JobRuns -------------------------------
(***************************************************************************)
(* The job_runs table and the statements of queries/jobs.sql (with the two *)
(* cancellations of queries/articles_admin.sql and queries/pages_admin.sql)*)
(* as operators on table values.  A table T is a function from row ids to  *)
(* rows; NoRow marks an id with no row.  kind and payload are one value:   *)
(* nothing in the queue looks inside a payload.  last_error is left out:   *)
(* no statement reads it.                                                  *)
(***************************************************************************)
EXTENDS Integers

CONSTANTS
    Kinds,        \* what a row asks to run: kind plus payload
    NoKind,       \* not a kind: fills the kind column of an absent row
    MaxRows,      \* bound: row ids are 1..MaxRows
    MaxAttempts   \* worker.go: executions after which a row is failed

ASSUME JobRunsAssumption ==
    /\ MaxRows \in Nat \ {0}
    /\ MaxAttempts \in Nat \ {0}
    /\ NoKind \notin Kinds

JobIds == 1..MaxRows

Status == {"queued", "running", "done", "failed"}

NoRow == [kind |-> NoKind, status |-> "none", runAt |-> 0,
          attempts |-> 0, updatedAt |-> 0]

JobRow == [kind : Kinds, status : Status, runAt : Nat,
           attempts : 0..MaxAttempts, updatedAt : Nat]

JobTable == [JobIds -> JobRow \cup {NoRow}]

EmptyTable == [i \in JobIds |-> NoRow]

Exists(T, i) == T[i].status # "none"

Queued(T, i) == T[i].status = "queued"

-----------------------------------------------------------------------------
(* job_runs.id is INTEGER PRIMARY KEY without AUTOINCREMENT: SQLite gives a *)
(* new row the largest id in the table plus one, so the id of a deleted     *)
(* last row is given out again.                                             *)

IsNextRowId(T, i) ==
    /\ \A j \in JobIds : Exists(T, j) => j < i
    /\ i > 1 => Exists(T, i - 1)

EnqueueJobRun(T, i, kind, runAt, now) ==
    [T EXCEPT ![i] = [kind |-> kind, status |-> "queued", runAt |-> runAt,
                      attempts |-> 0, updatedAt |-> now]]

(* Faulty: a running row does not count as active. *)
MutNoActiveRow(T, kind) ==
    \A i \in JobIds : T[i].kind = kind => T[i].status # "queued"

(* WHERE NOT EXISTS (... kind = :kind AND status IN ('queued','running'))   *)
NoActiveRow(T, kind) ==
    \A i \in JobIds : T[i].kind = kind => T[i].status \notin {"queued", "running"}

Due(T, now) == {i \in JobIds : Queued(T, i) /\ T[i].runAt <= now}

(* The candidates of ORDER BY run_at LIMIT 1: SQLite may return any of the  *)
(* rows that tie on run_at.                                                 *)
GetDueJobRun(T, now) ==
    {i \in Due(T, now) : \A j \in Due(T, now) : T[i].runAt <= T[j].runAt}

ClaimJobRun(T, i, now) ==
    [T EXCEPT ![i] = [@ EXCEPT !.status = "running", !.updatedAt = now]]

(* The bookkeeping statements are keyed by id alone.  An UPDATE of an id    *)
(* that has no row changes nothing.                                         *)
Update(T, i, row) == IF Exists(T, i) THEN [T EXCEPT ![i] = row] ELSE T

CompleteJobRun(T, i, now) ==
    Update(T, i, [T[i] EXCEPT !.status = "done", !.updatedAt = now])

RescheduleJobRun(T, i, attempts, runAt, now) ==
    Update(T, i, [T[i] EXCEPT !.status = "queued", !.attempts = attempts,
                              !.runAt = runAt, !.updatedAt = now])

FailJobRun(T, i, attempts, now) ==
    Update(T, i, [T[i] EXCEPT !.status = "failed", !.attempts = attempts,
                              !.updatedAt = now])

Stale(row, cutoff) == row.status = "running" /\ row.updatedAt < cutoff

(* Faulty: the requeue consumes no attempt. *)
MutRequeueStaleRunningJobRuns(T, cutoff, now) ==
    [i \in JobIds |->
        IF Stale(T[i], cutoff)
        THEN [T[i] EXCEPT !.status = "queued", !.updatedAt = now]
        ELSE T[i]]

RequeueStaleRunningJobRuns(T, cutoff, now) ==
    [i \in JobIds |->
        IF Stale(T[i], cutoff)
        THEN [T[i] EXCEPT
                !.status = IF T[i].attempts + 1 >= MaxAttempts
                           THEN "failed" ELSE "queued",
                !.attempts = T[i].attempts + 1,
                !.updatedAt = now]
        ELSE T[i]]

(* Faulty: the age condition without the status condition. *)
MutDeleteFinishedJobRuns(T, cutoff) ==
    [i \in JobIds |-> IF T[i].updatedAt < cutoff THEN NoRow ELSE T[i]]

DeleteFinishedJobRuns(T, cutoff) ==
    [i \in JobIds |->
        IF T[i].status \in {"done", "failed"} /\ T[i].updatedAt < cutoff
        THEN NoRow ELSE T[i]]

(* Faulty: the article's rows are deleted whatever their status. *)
MutCancelQueuedPublishJobs(T, kind) ==
    [i \in JobIds |-> IF T[i].kind = kind THEN NoRow ELSE T[i]]

(* articles.CancelQueuedPublishJobs: the queued rows of one publish_article *)
(* payload are deleted, a running one is left alone.                        *)
CancelQueuedPublishJobs(T, kind) ==
    [i \in JobIds |-> IF Queued(T, i) /\ T[i].kind = kind THEN NoRow ELSE T[i]]

(* CancelQueuedPublishPageJobs: the queued rows of one publish_page payload *)
(* are marked failed and stay in the table.                                 *)
CancelQueuedPublishPageJobs(T, kind, now) ==
    [i \in JobIds |->
        IF Queued(T, i) /\ T[i].kind = kind
        THEN [T[i] EXCEPT !.status = "failed", !.updatedAt = now]
        ELSE T[i]]
=============================================================================
