---------------------------- MODULE PublishRows ----------------------------
(***************************************************************************)
(* What articles and pages share when they are scheduled: admin requests   *)
(* book a row of job_runs whose handler publishes the document once its    *)
(* scheduled_at has come (internal/jobs/publish.go).                       *)
(***************************************************************************)
EXTENDS HandlerRuns

CONSTANTS
    Publish,   \* the kind of the publish row: publish_article or publish_page
    Admins,    \* concurrent admin requests
    MaxSaves   \* bound on the schedules saved

ASSUME PublishRowsAssumption == Publish \in Kinds /\ MaxSaves \in Nat

(* The handlers publish only what is still scheduled, and not before its    *)
(* time; at is 0 for a NULL scheduled_at.                                   *)
DueNow(row) == row.status = "schedule" /\ row.at # 0 /\ row.at <= clock
=============================================================================
