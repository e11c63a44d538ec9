---------------------------- MODULE JobLifecycle ----------------------------
(***************************************************************************)
(* What the queue promises about one job_runs row, with no table, clock or *)
(* worker in sight: a row is queued, runs, and is queued again or finished;*)
(* it runs at most Budget times, not counting runs that were given back;   *)
(* a finished row never comes back, it can only be deleted.                *)
(***************************************************************************)
EXTENDS Integers

CONSTANTS Rows, Budget

VARIABLES
    st,    \* per row id: none, queued, running, done or failed
    runs   \* per row id: runs charged to the row stored under it

Init ==
    /\ st = [r \in Rows |-> "none"]
    /\ runs = [r \in Rows |-> 0]

Move(r, from, to, n) == st[r] \in from /\ st'[r] = to /\ runs'[r] = n

Insert(r) == Move(r, {"none"}, "queued", 0)
Replace(r) == Move(r, {"queued"}, "queued", 0)
Begin(r) == runs[r] < Budget /\ Move(r, {"queued"}, "running", runs[r] + 1)
Retry(r) == Move(r, {"running"}, "queued", runs[r])
GiveBack(r) == Move(r, {"running"}, "queued", runs[r] - 1)
Succeed(r) == Move(r, {"running"}, "done", runs[r])
Fail(r) == Move(r, {"queued", "running"}, "failed", runs[r])
Delete(r) == Move(r, {"queued", "done", "failed"}, "none", runs[r])
Keep(r) == st'[r] = st[r] /\ runs'[r] = runs[r]

RowStep(r) ==
    \/ Insert(r) \/ Replace(r) \/ Begin(r) \/ Retry(r) \/ GiveBack(r)
    \/ Succeed(r) \/ Fail(r) \/ Delete(r) \/ Keep(r)

(* Recovery and cleanup move many rows in one statement. *)
Next ==
    /\ st' \in [Rows -> {"none", "queued", "running", "done", "failed"}]
    /\ DOMAIN runs' = Rows
    /\ \A r \in Rows : RowStep(r)

Spec == Init /\ [][Next]_<<st, runs>>
=============================================================================
