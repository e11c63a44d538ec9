--------------------------- MODULE PagePublishing ---------------------------
(***************************************************************************)
(* The life of one page: the admin handlers of internal/httpd/             *)
(* pages_admin.go and the publish_page handler of internal/jobs/publish.go.*)
(* Unlike articles.Save, a page save is three statements outside any       *)
(* transaction: write the row, mark the queued publish rows failed, insert *)
(* a new one.  Requests and the worker interleave between them.            *)
(***************************************************************************)
EXTENDS PublishRows

VARIABLES
    page,        \* the pages row; status "none" when there is none
    pageReq,     \* per admin: the statement a save will run next, and its form
    pageSaves,   \* schedules saved so far
    broken       \* ghost: a save stopped half-way, by an error or a crash

pageVars == <<page, pageReq, pageSaves, broken>>
pageAndRunVars ==
    <<clock, jobs, runner, faults, crashes, page, pageReq, pageSaves, broken>>

(* at is scheduled_at, 0 for NULL. *)
Page == [status : {"none", "draft", "publish", "schedule", "trash"}, at : Nat]

PageRow(status, at) == [status |-> status, at |-> at]

NoPage == PageRow("none", 0)

PageRequest == [next : {"idle", "cancel", "enqueue", "delete"}, at : Nat]

PageIdle == [next |-> "idle", at |-> 0]

PageTypeOK ==
    /\ RunTypeOK
    /\ page \in Page
    /\ pageReq \in [Admins -> PageRequest]
    /\ pageSaves \in 0..MaxSaves
    /\ broken \in BOOLEAN

PageInit ==
    /\ RunInit
    /\ page = NoPage
    /\ pageReq = [a \in Admins |-> PageIdle]
    /\ pageSaves = 0
    /\ broken = FALSE

-----------------------------------------------------------------------------
(* Admin requests.                                                          *)

(* CreatePage or UpdatePage with a status other than schedule:              *)
(* schedulePagePublication returns at once, queued rows stay.  scheduled_at *)
(* is whatever the form holds.                                              *)
SavePagePlain(a) ==
    /\ Serving /\ pageReq[a].next = "idle"
    /\ \E s \in {"draft", "publish", "trash"}, at \in 0..MaxTime : page' = PageRow(s, at)
    /\ page' # page
    /\ UNCHANGED <<runVars, pageReq, pageSaves, broken>>

(* CreatePage or UpdatePage with status schedule. *)
SavePageSchedule(a) ==
    /\ Serving /\ pageReq[a].next = "idle"
    /\ pageSaves < MaxSaves
    /\ pageSaves' = pageSaves + 1
    /\ \E at \in 1..MaxTime :
        /\ page' = PageRow("schedule", at)
        /\ pageReq' = [pageReq EXCEPT ![a] = [next |-> "cancel", at |-> at]]
    /\ UNCHANGED <<runVars, broken>>

(* schedulePagePublication, first statement; an error is only logged. *)
CancelJobs(a) ==
    /\ Serving /\ pageReq[a].next = "cancel"
    /\ \/ /\ jobs' = CancelQueuedPublishPageJobs(jobs, Publish, clock)
          /\ UNCHANGED faults
       \/ /\ faults < MaxFaults /\ faults' = faults + 1
          /\ UNCHANGED jobs
    /\ broken' = (broken \/ faults' # faults)
    /\ pageReq' = [pageReq EXCEPT ![a].next = "enqueue"]
    /\ UNCHANGED <<clock, runner, crashes, page, pageSaves>>

(* Faulty: the publish row is queued for now instead of scheduled_at. *)
MutEnqueueJob(a) ==
    /\ Serving /\ pageReq[a].next = "enqueue"
    /\ \E i \in JobIds :
        /\ IsNextRowId(jobs, i)
        /\ jobs' = EnqueueJobRun(jobs, i, Publish, clock, clock)
    /\ pageReq' = [pageReq EXCEPT ![a] = PageIdle]
    /\ UNCHANGED <<clock, runner, faults, crashes, page, pageSaves, broken>>

(* ... second statement; an error is only logged. *)
EnqueueJob(a) ==
    /\ Serving /\ pageReq[a].next = "enqueue"
    /\ \/ /\ \E i \in JobIds :
              /\ IsNextRowId(jobs, i)
              /\ jobs' = EnqueueJobRun(jobs, i, Publish, pageReq[a].at, clock)
          /\ UNCHANGED faults
       \/ /\ faults < MaxFaults /\ faults' = faults + 1
          /\ UNCHANGED jobs
    /\ broken' = (broken \/ faults' # faults)
    /\ pageReq' = [pageReq EXCEPT ![a] = PageIdle]
    /\ UNCHANGED <<clock, runner, crashes, page, pageSaves>>

(* UpdatePageStatus: batch publish and unpublish, and the first stage of    *)
(* destroy.  scheduled_at and the publish rows stay.                        *)
SetStatus(a) ==
    /\ Serving /\ pageReq[a].next = "idle" /\ page.status # "none"
    /\ \E s \in {"draft", "publish", "trash"} :
        s # page.status /\ page' = PageRow(s, page.at)
    /\ UNCHANGED <<runVars, pageReq, pageSaves, broken>>

(* deletePageWithComments, by batch destroy or on a page found trashed: the *)
(* publish rows stay queued.                                                *)
AskDelete(a) ==
    /\ Serving /\ pageReq[a].next = "idle" /\ page.status # "none"
    /\ pageReq' = [pageReq EXCEPT ![a].next = "delete"]
    /\ UNCHANGED <<runVars, page, pageSaves, broken>>

Delete(a) ==
    /\ Serving /\ pageReq[a].next = "delete"
    /\ page' = NoPage
    /\ pageReq' = [pageReq EXCEPT ![a] = PageIdle]
    /\ UNCHANGED <<runVars, pageSaves, broken>>

-----------------------------------------------------------------------------
(* publishPageHandler.                                                      *)

LoadPage ==
    /\ runner.pc = "load"
    /\ Proceed(IF DueNow(page) THEN "write" ELSE "book")
    /\ UNCHANGED pageVars

(* Faulty: the flip is not guarded by the status. *)
MutFlipPage ==
    /\ runner.pc = "write"
    /\ page' = PageRow("publish", 0)
    /\ Proceed("book")
    /\ UNCHANGED <<pageReq, pageSaves, broken>>

(* PublishScheduledPage is guarded by the status. *)
FlipPage ==
    /\ runner.pc = "write"
    /\ page' = IF page.status = "schedule" THEN PageRow("publish", 0) ELSE page
    /\ Proceed("book")
    /\ UNCHANGED <<pageReq, pageSaves, broken>>

-----------------------------------------------------------------------------
(* The requests in flight end with the process. *)
KeepPageRequests ==
    IF runner'.pc = "down"
    THEN /\ pageReq' = [a \in Admins |-> PageIdle]
         /\ broken' = (broken \/ \E a \in Admins : pageReq[a].next \in {"cancel", "enqueue"})
    ELSE UNCHANGED <<pageReq, broken>>

PageRunStep ==
    /\ GetDue \/ Claim \/ LostRace \/ HandlerError \/ Book \/ Restart
    /\ KeepPageRequests
    /\ UNCHANGED <<page, pageSaves>>

PageCrash == Crash /\ KeepPageRequests /\ UNCHANGED <<page, pageSaves>>

SaveStep(a) == CancelJobs(a) \/ EnqueueJob(a)

PageAdminStep(a) ==
    \/ SavePagePlain(a) \/ SavePageSchedule(a) \/ SaveStep(a)
    \/ SetStatus(a) \/ AskDelete(a) \/ Delete(a)

PageNext ==
    \/ PageRunStep
    \/ Tick /\ UNCHANGED pageVars
    \/ LoadPage \/ FlipPage \/ PageCrash
    \/ \E a \in Admins : PageAdminStep(a)

PageSpec == PageInit /\ [][PageNext]_pageAndRunVars

(* The worker goroutine keeps running and a save request runs to its end;   *)
(* nothing is assumed of what admins ask for.                               *)
PageFairSpec ==
    /\ PageSpec
    /\ WF_pageAndRunVars(PageRunStep) /\ WF_pageAndRunVars(LoadPage) /\ WF_pageAndRunVars(FlipPage)
    /\ \A a \in Admins : WF_pageAndRunVars(SaveStep(a))

-----------------------------------------------------------------------------
(* Properties.                                                              *)

(* "queued publish_page jobs for it are cancelled and a new one is enqueued *)
(* at scheduled_at": between requests, if no save stopped half-way, a       *)
(* scheduled page has a publish row that is still to run no earlier than    *)
(* scheduled_at, is running, or used up its attempts.                       *)
ScheduledPageHasJob ==
    (/\ page.status = "schedule" /\ ~broken
     /\ \A a \in Admins : pageReq[a].next \in {"idle", "delete"}) =>
        \E i \in JobIds :
            \/ Queued(jobs, i) /\ jobs[i].runAt >= page.at
            \/ jobs[i].status = "running"
            \/ jobs[i].status = "failed" /\ jobs[i].attempts >= MaxAttempts

(* The handler only ever moves a page from schedule to publish: a page that *)
(* was unpublished, trashed or deleted meanwhile stays so.                  *)
HandlerRespectsAdmins ==
    [][runner.pc = "write" /\ runner'.pc = "book" =>
        page' = page \/ (page.status = "schedule" /\ page'.status = "publish")]_pageAndRunVars

(* A scheduled page does not stay unpublished once its time has come,       *)
(* whatever a failing run or a crash of the worker do, unless the save that *)
(* scheduled it stopped half-way or its row is stranded.                    *)
ScheduledPageIsPublished == DueNow(page) ~> (~DueNow(page) \/ broken \/ Stranded)
=============================================================================
