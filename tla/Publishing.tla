----------------------------- MODULE Publishing -----------------------------
(***************************************************************************)
(* The life of one article: articles.Save, TransitionStatus and Destroy    *)
(* behind the admin handlers, and the publish_article handler of           *)
(* internal/jobs/publish.go.  Requests of several admins, the worker and   *)
(* the clock interleave between any two statements outside a transaction.  *)
(*                                                                         *)
(* The follow-up jobs (one crosspost job, one send_newsletter job) are     *)
(* counted per schedule: token is a fresh number for every schedule that   *)
(* an admin saves, so a selection that is acted on twice shows.            *)
(***************************************************************************)
EXTENDS PublishRows

CONSTANTS
    Effects,    \* selectable follow-ups: crosspost, newsletter
    Targets,    \* statuses the publish/unpublish/trash buttons move to
    Races       \* TRUE: requests may overlap a publication that is due

ASSUME PublishingAssumption ==
    /\ Targets \subseteq {"publish", "draft", "trash"}
    /\ Races \in BOOLEAN

VARIABLES
    art,     \* the articles row; status "none" when there is none
    seen,    \* the row as the publish handler read it
    req,     \* per admin: the request in flight and the row as it read it
    saves,   \* schedules saved so far
    queued   \* ghost: follow-up jobs enqueued per schedule token and effect

artVars == <<art, seen, req, saves, queued>>
vars == <<clock, jobs, runner, faults, crashes, art, seen, req, saves, queued>>

(* "shared" is left out: like draft it neither schedules nor enqueues.      *)
ArticleStatus == {"none", "draft", "publish", "schedule", "trash"}

(* at is scheduled_at (0 for NULL); sel the snapshot of the selections,     *)
(* token the schedule they were saved with.                                 *)
Article == [status : ArticleStatus, at : Nat, sel : SUBSET Effects,
            token : 0..MaxSaves]

Row(status, at, sel, token) ==
    [status |-> status, at |-> at, sel |-> sel, token |-> token]

NoArticle == Row("none", 0, {}, 0)

Request == [op : {"idle", "destroy"} \cup Targets, read : Article]

Idle == [op |-> "idle", read |-> NoArticle]

TypeOK ==
    /\ RunTypeOK
    /\ art \in Article
    /\ seen \in Article
    /\ req \in [Admins -> Request]
    /\ saves \in 0..MaxSaves
    /\ queued \in [1..MaxSaves -> [Effects -> Nat]]

Init ==
    /\ RunInit
    /\ art = NoArticle
    /\ seen = NoArticle
    /\ req = [a \in Admins |-> Idle]
    /\ saves = 0
    /\ queued = [n \in 1..MaxSaves |-> [e \in Effects |-> 0]]

(* One more job for every effect of sel, on the account of token's schedule. *)
Enqueued(token, sel) ==
    [queued EXCEPT ![token] = [e \in Effects |-> IF e \in sel THEN @[e] + 1 ELSE @[e]]]

-----------------------------------------------------------------------------
(* Admin requests.  With Races FALSE they are served one at a time and only *)
(* while no publish row is due or being executed.                           *)

Undisturbed(a) ==
    Races \/ /\ runner.pc = "idle" /\ Due(jobs, clock) = {}
             /\ \A b \in Admins \ {a} : req[b].op = "idle"

May(a, op) == Serving /\ req[a].op = op /\ Undisturbed(a)

(* articles.Save with status draft, publish or trash, creating the article  *)
(* or overwriting it: the snapshot is cleared, scheduled_at is whatever the *)
(* form holds.  The selections of a form saved as publish act at once, from *)
(* the form and not from a snapshot, and are not counted.                   *)
SavePlain(a) ==
    /\ May(a, "idle")
    /\ \E s \in {"draft", "publish", "trash"}, at \in 0..MaxTime : art' = Row(s, at, {}, 0)
    /\ art' # art
    /\ UNCHANGED <<clock, jobs, runner, faults, crashes, seen, req, saves, queued>>

(* Faulty: the old rows are cancelled after the new one is inserted. *)
MutSaveSchedule(a) ==
    /\ May(a, "idle")
    /\ saves < MaxSaves
    /\ saves' = saves + 1
    /\ \E at \in 1..MaxTime, sel \in SUBSET Effects, i \in JobIds :
        /\ IsNextRowId(jobs, i)
        /\ jobs' = CancelQueuedPublishJobs(EnqueueJobRun(jobs, i, Publish, at, clock), Publish)
        /\ art' = Row("schedule", at, sel, saves + 1)
    /\ UNCHANGED <<clock, runner, faults, crashes, seen, req, queued>>

(* articles.Save with status schedule: one transaction writes the row,      *)
(* drops the queued publish rows of the article and inserts a new one.      *)
SaveSchedule(a) ==
    /\ May(a, "idle")
    /\ saves < MaxSaves
    /\ saves' = saves + 1
    /\ \E at \in 1..MaxTime, sel \in SUBSET Effects, i \in JobIds :
        LET T == CancelQueuedPublishJobs(jobs, Publish) IN
        /\ IsNextRowId(T, i)
        /\ jobs' = EnqueueJobRun(T, i, Publish, at, clock)
        /\ art' = Row("schedule", at, sel, saves + 1)
    /\ UNCHANGED <<clock, runner, faults, crashes, seen, req, queued>>

(* TransitionStatus reads the row outside its transaction.                  *)
AskTransition(a) ==
    /\ May(a, "idle") /\ art.status # "none"
    /\ \E t \in Targets : req' = [req EXCEPT ![a] = [op |-> t, read |-> art]]
    /\ UNCHANGED <<runVars, art, seen, saves, queued>>

(* Its transaction: UpdateArticleStatus keeps scheduled_at and clears the   *)
(* snapshot; publishing what was read as scheduled enqueues the selections  *)
(* that are enabled and ready.  No row: the update returns an error.        *)
CommitTransition(a) ==
    LET t == req[a].op
        old == req[a].read IN
    /\ t \in Targets /\ Serving /\ Undisturbed(a)
    /\ IF art.status = "none" THEN UNCHANGED <<art, queued>>
       ELSE /\ art' = Row(t, art.at, {}, 0)
            /\ IF t = "publish" /\ old.status = "schedule"
               THEN \E ready \in SUBSET old.sel : queued' = Enqueued(old.token, ready)
               ELSE UNCHANGED queued
    /\ req' = [req EXCEPT ![a] = Idle]
    /\ UNCHANGED <<runVars, seen, saves>>

(* adminArticlesDestroy: only an article read as trashed is deleted, any    *)
(* other goes to the trash (AskTransition).                                 *)
AskDestroy(a) ==
    /\ May(a, "idle") /\ art.status = "trash"
    /\ req' = [req EXCEPT ![a] = [op |-> "destroy", read |-> art]]
    /\ UNCHANGED <<runVars, art, seen, saves, queued>>

(* Destroy's transaction: the row and its queued publish rows go.           *)
Destroy(a) ==
    /\ May(a, "destroy")
    /\ art' = NoArticle
    /\ jobs' = CancelQueuedPublishJobs(jobs, Publish)
    /\ req' = [req EXCEPT ![a] = Idle]
    /\ UNCHANGED <<clock, runner, faults, crashes, seen, saves, queued>>

-----------------------------------------------------------------------------
(* publishArticleHandler.                                                   *)

(* schedule? && scheduled_at <= now *)
Load ==
    /\ runner.pc = "load"
    /\ IF DueNow(art) THEN seen' = art /\ Proceed("write")
                      ELSE UNCHANGED seen /\ Proceed("book")
    /\ UNCHANGED <<art, req, saves, queued>>

(* Faulty: the follow-ups are enqueued outside the transaction of the flip, *)
(* which may then fail.                                                     *)
MutFlip ==
    /\ runner.pc = "write" /\ art.status = "schedule"
    /\ queued' = Enqueued(seen.token, seen.sel)
    /\ \/ art' = Row("publish", 0, {}, 0) /\ Proceed("book")
       \/ UNCHANGED art /\ HandlerError
    /\ seen' = NoArticle
    /\ UNCHANGED <<req, saves>>

(* One transaction: PublishScheduledArticle, guarded by the status, and, if *)
(* it flipped the row, the follow-up jobs from the values read before.      *)
Flip ==
    /\ runner.pc = "write"
    /\ IF art.status = "schedule"
       THEN art' = Row("publish", 0, {}, 0) /\ queued' = Enqueued(seen.token, seen.sel)
       ELSE UNCHANGED <<art, queued>>
    /\ seen' = NoArticle
    /\ Proceed("book")
    /\ UNCHANGED <<req, saves>>

-----------------------------------------------------------------------------
(* The requests in flight end with the process. *)
KeepRequests == req' = IF runner'.pc = "down" THEN [a \in Admins |-> Idle] ELSE req

RunStep ==
    \/ GetDue /\ UNCHANGED artVars
    \/ Claim /\ UNCHANGED artVars
    \/ LostRace /\ UNCHANGED artVars
    \/ Book /\ KeepRequests /\ UNCHANGED <<art, seen, saves, queued>>
    \/ HandlerError /\ seen' = NoArticle /\ UNCHANGED <<art, req, saves, queued>>
    \/ Restart /\ UNCHANGED artVars

CrashProcess ==
    /\ Crash
    /\ seen' = NoArticle
    /\ KeepRequests
    /\ UNCHANGED <<art, saves, queued>>

PassTime ==
    /\ Tick
    /\ Races \/ \A a \in Admins : req[a].op = "idle"
    /\ UNCHANGED artVars

AdminStep(a) ==
    \/ SavePlain(a) \/ SaveSchedule(a)
    \/ AskTransition(a) \/ CommitTransition(a)
    \/ AskDestroy(a) \/ Destroy(a)

Next ==
    \/ RunStep \/ Load \/ Flip \/ CrashProcess \/ PassTime
    \/ \E a \in Admins : AdminStep(a)

Spec == Init /\ [][Next]_vars

(* The worker goroutine keeps running; nothing is assumed of admins.        *)
FairSpec == Spec /\ WF_vars(RunStep) /\ WF_vars(Load) /\ WF_vars(Flip)

-----------------------------------------------------------------------------
(* Properties.                                                              *)

(* Every saved schedule stays covered: a scheduled article has a publish    *)
(* row that is still to run (no earlier than scheduled_at), is running, or  *)
(* used up its attempts.  Otherwise nothing would ever publish it.          *)
ScheduledArticleHasJob ==
    art.status = "schedule" =>
        \E i \in JobIds :
            \/ Queued(jobs, i) /\ jobs[i].runAt >= art.at
            \/ jobs[i].status = "running"
            \/ jobs[i].status = "failed" /\ jobs[i].attempts >= MaxAttempts

(* "consumed exactly once": no selection saved with a schedule is turned    *)
(* into more than one job, whatever reruns, crashes and admins do.          *)
SnapshotConsumedOnce ==
    \A n \in 1..MaxSaves, e \in Effects : queued[n][e] <= 1

(* A scheduled article does not stay unpublished once its time has come,    *)
(* whatever one failing run and one crash do, unless its row is stranded.   *)
ScheduledArticleIsPublished == DueNow(art) ~> (~DueNow(art) \/ Stranded)
=============================================================================
