---------------------------- MODULE CommentFetch ----------------------------
(***************************************************************************)
(* The jobs around comments: fetch_social_comments, which reads the thread *)
(* under every post and imports it in two passes (rows first, then the     *)
(* links between replies), the hourly tick that queues it, and the mail    *)
(* about an approved reply.  A platform answers with any part of a thread, *)
(* in any order.                                                           *)
(***************************************************************************)
EXTENDS Comments

CONSTANTS
    CronPlatforms,  \* cronFetchPlatforms that are enabled with auto_fetch_comments
    Period          \* comment_fetch_schedule, in clock units

VARIABLES
    fetch,     \* the handler's locals
    stamp,     \* kv last_fetch_comments_<platform>, 0 when missing
    cron,      \* platforms the hourly tick has still to look at
    queuedAt,  \* ghost: <<platform, time>> of the fetches the tick queued
    mails,     \* ghost: mails sent about a reply, per notification row
    cut        \* ghost: mail runs cut off by a crash or a shutdown

fetchVars == <<fetch, stamp, cron, queuedAt, mails, cut>>
vars == <<runVars, comVars, fetchVars>>

Platforms == {e[1] : e \in Externals}

FetchJob(p) == [job |-> "fetch", platform |-> p, article |-> 0]
ArticleFetchJob(a, p) == [job |-> "fetch", platform |-> p, article |-> a]

(* The rows these jobs and the notifications put in the queue.              *)
JobKinds == {NotifyJob(i) : i \in CommentIds} \cup {FetchJob(p) : p \in CronPlatforms}
            \cup {ArticleFetchJob(a, p) : a \in Articles, p \in Platforms}

ASSUME CommentFetchAssumption ==
    /\ Period \in Nat /\ Kinds = JobKinds
    /\ CronPlatforms \cup Platforms \subseteq {"mastodon", "bluesky", "twitter"}

(* targets: articles still to scan; article: the one being imported;        *)
(* todo: comments of its batch the first pass has not reached; ext, id: the *)
(* one it is at and the row it read for it; known: rows of the first pass,  *)
(* as they were read; links: replies the second pass has not reached.       *)
Stages == {"none", "scan", "find", "save", "link"}

Fetch == [stage : Stages, targets : SUBSET Articles, article : {0} \cup Articles,
          todo : SUBSET Externals, ext : Externals \cup {Root}, id : {0} \cup CommentIds,
          known : SUBSET [ext : Externals, id : CommentIds, parent : {0} \cup CommentIds],
          links : SUBSET Externals]

NoFetch == [stage |-> "none", targets |-> {}, article |-> 0, todo |-> {}, ext |-> Root, id |-> 0,
            known |-> {}, links |-> {}]

Init ==
    /\ RunInit /\ ComInit
    /\ fetch = NoFetch
    /\ stamp = [p \in CronPlatforms |-> 0]
    /\ cron = {}
    /\ queuedAt = {}
    /\ mails = [j \in JobIds |-> 0]
    /\ cut = 0

(* Articles with a post on p.  Posts go with their article. *)
ListCommentFetchTargets(p) ==
    {a \in Articles : GetCommentableArticleByID(a) /\ \E e \in Externals : e[1] = p /\ Thread[e].article = a}

-----------------------------------------------------------------------------
(* enqueueDueCommentFetches.                                                *)

CommentFetchDue(p) == stamp[p] = 0 \/ stamp[p] < clock - Period

CronTick ==
    /\ Serving /\ cron = {} /\ Spend("fetches")
    /\ cron' = {p \in CronPlatforms : CommentFetchDue(p)}
    /\ UNCHANGED <<runVars, articles, comments, req, decided, announced, abandoned,
                   fetch, stamp, queuedAt, mails, cut>>

(* A platform's fetch is queued ...                                         *)
EnqueueDueFetch(p) ==
    /\ p \in cron /\ <<p, clock>> \notin queuedAt
    /\ \E j \in JobIds : IsNextRowId(jobs, j) /\ jobs' = EnqueueJobRun(jobs, j, FetchJob(p), clock, clock)
    /\ queuedAt' = queuedAt \cup {<<p, clock>>}
    /\ UNCHANGED <<clock, runner, faults, crashes, comVars, fetch, stamp, cron, mails, cut>>

(* Faulty: the time is stored first. *)
MutStampFetch(p) ==
    /\ p \in cron
    /\ stamp' = [stamp EXCEPT ![p] = clock]
    /\ UNCHANGED <<runVars, comVars, fetch, cron, queuedAt, mails, cut>>

(* ... and only then its time is stored.                                    *)
StampFetch(p) ==
    /\ p \in cron /\ <<p, clock>> \in queuedAt
    /\ stamp' = [stamp EXCEPT ![p] = clock]
    /\ cron' = cron \ {p}
    /\ UNCHANGED <<runVars, comVars, fetch, queuedAt, mails, cut>>

(* A failing statement ends the tick.                                       *)
CronFails ==
    /\ cron # {} /\ faults < MaxFaults
    /\ faults' = faults + 1
    /\ cron' = {}
    /\ UNCHANGED <<clock, jobs, runner, crashes, comVars, fetch, stamp, queuedAt, mails, cut>>

(* adminArticlesFetchComments: one job for the article's post on p.         *)
FetchForArticle ==
    /\ Serving /\ Spend("fetches")
    /\ \E p \in Platforms : \E a \in ListCommentFetchTargets(p), j \in JobIds :
        /\ IsNextRowId(jobs, j)
        /\ jobs' = EnqueueJobRun(jobs, j, ArticleFetchJob(a, p), clock, clock)
    /\ UNCHANGED <<clock, runner, faults, crashes, articles, comments, req, decided, announced,
                   abandoned, fetchVars>>

-----------------------------------------------------------------------------
(* The fetch handler.                                                       *)

Kind == jobs[runner.id].kind

Fetching == runner.pc \in {"load", "visit"} /\ Kind.job = "fetch"

Return(outcome) == runner' = [runner EXCEPT !.pc = "book", !.outcome = outcome]

Manual == Kind.article # 0

(* Comments on the platform under the article's post. *)
Answers(a) == {e \in Externals : e[1] = Kind.platform /\ Thread[e].article = a}

(* Handle, fetchForArticle and fetchForPlatform up to the loop: the posts   *)
(* of articles that still exist.                                            *)
LoadTargets ==
    /\ Fetching /\ runner.pc = "load"
    /\ fetch' = [NoFetch EXCEPT !.stage = "scan",
                   !.targets = IF Manual THEN ListCommentFetchTargets(Kind.platform) \cap {Kind.article}
                               ELSE ListCommentFetchTargets(Kind.platform)]
    /\ runner' = [runner EXCEPT !.pc = "visit"]
    /\ UNCHANGED <<clock, jobs, faults, crashes, comVars, stamp, cron, queuedAt, mails, cut>>

(* fetchComments, per platform.  A failed call yields nothing; entries that *)
(* cannot be read are skipped, so any part of the thread may come back.     *)
MastodonBatches(a) == SUBSET Answers(a)

(* The nested thread is flattened: what hangs below a skipped entry is      *)
(* skipped with it.                                                         *)
BlueskyBatches(a) ==
    {S \in SUBSET Answers(a) : \A e \in S : Thread[e].parent \in S \cup {Root}}

(* Replies, then quotes, then the replies to each quote that was returned:  *)
(* a failed search leaves its part out.                                     *)
TwitterBatches(a) == SUBSET Answers(a)

FetchComments(a) ==
    CASE Kind.platform = "mastodon" -> MastodonBatches(a)
      [] Kind.platform = "bluesky" -> BlueskyBatches(a)
      [] Kind.platform = "twitter" -> TwitterBatches(a)

(* The articles are visited by id.                                          *)
FetchThread ==
    /\ Fetching /\ fetch.stage = "scan" /\ fetch.targets # {}
    /\ LET a == Min(fetch.targets) IN
       \E batch \in FetchComments(a) :
        fetch' = [fetch EXCEPT !.stage = "find", !.targets = @ \ {a}, !.article = a, !.todo = batch,
                               !.known = {}, !.links = {}]
    /\ UNCHANGED <<runVars, comVars, stamp, cron, queuedAt, mails, cut>>

(* rateLimitActionFor said stop: the batch and the rest of the scan are     *)
(* dropped, the job is done.  An article's own fetch ignores the limit.     *)
RateLimitStop ==
    /\ Fetching /\ fetch.stage = "scan" /\ fetch.targets # {} /\ ~Manual
    /\ fetch' = NoFetch
    /\ Return("ok")
    /\ UNCHANGED <<clock, jobs, faults, crashes, comVars, stamp, cron, queuedAt, mails, cut>>

FetchDone ==
    /\ Fetching /\ fetch.stage = "scan" /\ fetch.targets = {}
    /\ fetch' = NoFetch
    /\ Return("ok")
    /\ UNCHANGED <<clock, jobs, faults, crashes, comVars, stamp, cron, queuedAt, mails, cut>>

(* First pass, UpsertExternal: look for the row ...                         *)
FindExternal ==
    /\ Fetching /\ fetch.stage = "find"
    /\ \E e \in fetch.todo :
        LET rows == GetExternalComment(fetch.article, e) IN
        fetch' = [fetch EXCEPT !.stage = "save", !.todo = @ \ {e}, !.ext = e,
                               !.id = IF rows = {} THEN 0 ELSE CHOOSE i \in rows : TRUE]
    /\ UNCHANGED <<runVars, comVars, stamp, cron, queuedAt, mails, cut>>

(* What the second pass will know of the comment.                           *)
Imported(i) ==
    [fetch EXCEPT !.stage = "find", !.ext = Root, !.id = 0,
        !.known = @ \cup {[ext |-> fetch.ext, id |-> i, parent |-> comments'[i].parent]},
        !.links = IF Thread[fetch.ext].parent = Root THEN @ ELSE @ \cup {fetch.ext}]

(* ... create it, approved when an admin asked for this article ...         *)
CreateExternal ==
    /\ Fetching /\ fetch.stage = "save" /\ fetch.id = 0
    /\ \E i \in CommentIds :
        /\ IsNextCommentId(i)
        /\ comments' = CreateComment(i, [NoComment EXCEPT !.on = fetch.article, !.ext = fetch.ext,
                                           !.status = IF Manual THEN "approved" ELSE "pending"])
        /\ decided' = [decided EXCEPT ![i] = "none"]
        /\ announced' = announced \ {i} /\ abandoned' = abandoned \ {i}
        /\ fetch' = Imported(i)
    /\ UNCHANGED <<runVars, articles, req, budget, stamp, cron, queuedAt, mails, cut>>

(* Faulty: the fetch's status is written over the moderator's. *)
MutUpdateExternalComment(i, text) ==
    [comments EXCEPT ![i].text = text, ![i].status = IF Manual THEN "approved" ELSE "pending"]

UpdateExternalComment(i, text) == [comments EXCEPT ![i].text = text]

(* ... or update it when the platform shows something new.                  *)
UpdateExternal ==
    /\ Fetching /\ fetch.stage = "save" /\ fetch.id # 0 /\ Present(fetch.id)
    /\ \E text \in 0..1 :
        comments' = IF text = comments[fetch.id].text THEN comments ELSE UpdateExternalComment(fetch.id, text)
    /\ fetch' = Imported(fetch.id)
    /\ UNCHANGED <<runVars, articles, req, budget, decided, announced, abandoned, stamp, cron, queuedAt, mails, cut>>

(* A statement failed: the article is given up, the scan goes on.           *)
NextTarget == fetch' = [NoFetch EXCEPT !.stage = "scan", !.targets = fetch.targets]

(* The row was destroyed after it was found.                                *)
UpdateExternalGone ==
    /\ Fetching /\ fetch.stage = "save" /\ fetch.id # 0 /\ ~Present(fetch.id)
    /\ NextTarget
    /\ UNCHANGED <<runVars, comVars, stamp, cron, queuedAt, mails, cut>>

StartLinks ==
    /\ Fetching /\ fetch.stage = "find" /\ fetch.todo = {}
    /\ fetch' = [fetch EXCEPT !.stage = "link"]
    /\ UNCHANGED <<runVars, comVars, stamp, cron, queuedAt, mails, cut>>

(* Faulty: only rows of this batch count as parents. *)
MutParentRow(e) == {k.id : k \in {n \in fetch.known : n.ext = Thread[e].parent}}

(* Second pass: the parent from this batch, else from the table.            *)
ParentRow(e) ==
    LET here == {k.id : k \in {n \in fetch.known : n.ext = Thread[e].parent}} IN
    IF here # {} THEN here ELSE GetExternalComment(fetch.article, Thread[e].parent)

SetCommentParent(i, p) == IF Present(i) THEN [comments EXCEPT ![i].parent = p] ELSE comments

(* SetCommentParent breaks the foreign key when the parent was destroyed,   *)
(* and changes no row when the reply was.                                   *)
LinkReply ==
    /\ Fetching /\ fetch.stage = "link"
    /\ \E k \in fetch.known :
        /\ k.ext \in fetch.links
        /\ \/ /\ ParentRow(k.ext) \subseteq {k.id, k.parent}  \* none, itself, or as it was
              /\ UNCHANGED comments /\ fetch' = [fetch EXCEPT !.links = @ \ {k.ext}]
           \/ \E p \in ParentRow(k.ext) \ {k.id, k.parent} :
                IF Present(p) \/ ~Present(k.id)
                THEN /\ comments' = SetCommentParent(k.id, p)
                     /\ fetch' = [fetch EXCEPT !.links = @ \ {k.ext}]
                ELSE UNCHANGED comments /\ NextTarget
    /\ UNCHANGED <<runVars, articles, req, budget, decided, announced, abandoned, stamp, cron, queuedAt, mails, cut>>

BatchDone ==
    /\ Fetching /\ fetch.stage = "link" /\ fetch.links = {}
    /\ NextTarget
    /\ UNCHANGED <<runVars, comVars, stamp, cron, queuedAt, mails, cut>>

(* A failing read before the loop fails the job; a failing statement in a   *)
(* batch gives the article up.                                              *)
FetchFails ==
    /\ Fetching /\ faults < MaxFaults
    /\ faults' = faults + 1
    /\ IF runner.pc = "load" THEN Return("error") /\ UNCHANGED fetch
       ELSE fetch.stage # "scan" /\ NextTarget /\ UNCHANGED runner
    /\ UNCHANGED <<clock, jobs, crashes, comVars, stamp, cron, queuedAt, mails, cut>>

(* ctx.Err() at the top of the loop, or the slow-down interrupted.          *)
FetchCanceled ==
    /\ Fetching /\ runner.pc = "visit" /\ fetch.stage = "scan" /\ fetch.targets # {} /\ crashes < MaxCrashes
    /\ crashes' = crashes + 1
    /\ fetch' = NoFetch
    /\ Return("canceled")
    /\ UNCHANGED <<clock, jobs, faults, comVars, stamp, cron, queuedAt, mails, cut>>

-----------------------------------------------------------------------------
(* sendReplyNotification.                                                   *)

Notifying == runner.pc \in {"load", "act"} /\ Kind.job = "reply"

LoadReply ==
    /\ Notifying /\ runner.pc = "load"
    /\ IF Present(Kind.id) /\ EligibleReply(comments[Kind.id])
       THEN runner' = [runner EXCEPT !.pc = "act"] ELSE Return("ok")
    /\ UNCHANGED <<clock, jobs, faults, crashes, comVars, fetchVars>>

(* Faulty: a refused mail fails the job. *)
MutSendReplyMail ==
    /\ Notifying /\ runner.pc = "act"
    /\ \/ UNCHANGED faults /\ mails' = [mails EXCEPT ![runner.id] = @ + 1] /\ Return("ok")
       \/ /\ faults < MaxFaults /\ faults' = faults + 1
          /\ mails' \in {mails, [mails EXCEPT ![runner.id] = @ + 1]} /\ Return("error")
    /\ UNCHANGED <<clock, jobs, crashes, comVars, fetch, stamp, cron, queuedAt, cut>>

(* The mail is taken, or refused: either way the job is done.               *)
SendReplyMail ==
    /\ Notifying /\ runner.pc = "act"
    /\ \/ UNCHANGED faults /\ mails' = [mails EXCEPT ![runner.id] = @ + 1]
       \/ /\ faults < MaxFaults /\ faults' = faults + 1
          /\ mails' \in {mails, [mails EXCEPT ![runner.id] = @ + 1]}
    /\ Return("ok")
    /\ UNCHANGED <<clock, jobs, crashes, comVars, fetch, stamp, cron, queuedAt, cut>>

ReplyMailCanceled ==
    /\ Notifying /\ runner.pc = "act" /\ crashes < MaxCrashes
    /\ crashes' = crashes + 1 /\ cut' = cut + 1
    /\ mails' \in {mails, [mails EXCEPT ![runner.id] = @ + 1]}
    /\ Return("canceled")
    /\ UNCHANGED <<clock, jobs, faults, comVars, fetch, stamp, cron, queuedAt>>

ReplyFails ==
    /\ Notifying /\ runner.pc = "load" /\ faults < MaxFaults
    /\ faults' = faults + 1
    /\ Return("error")
    /\ UNCHANGED <<clock, jobs, crashes, comVars, fetchVars>>

-----------------------------------------------------------------------------
(* A shutdown waits for the requests and the tick before the process ends.  *)
RunStep ==
    /\ \/ GetDue \/ Claim
       \/ Book /\ (runner.outcome = "canceled" => cron = {} /\ \A r \in Requests : req[r] = Idle)
       \/ Restart
    /\ UNCHANGED <<comVars, fetchVars>>

CrashProcess ==
    /\ Crash
    /\ cut' = IF runner.pc \in {"act", "book"} THEN cut + 1 ELSE cut
    /\ abandoned' = abandoned \cup {req[r].id : r \in {s \in Requests : req[s].pc = "notify"}}
    /\ req' = [r \in Requests |-> Idle]
    /\ fetch' = NoFetch /\ cron' = {}
    /\ UNCHANGED <<articles, comments, budget, decided, announced, stamp, queuedAt, mails>>

PassTime == cron = {} /\ Tick /\ UNCHANGED <<comVars, fetchVars>>

Held == fetch.stage # "none" \/ \E r \in Requests : req[r] # Idle

WebStep ==
    /\ \/ \E r \in Requests :
            \/ SubmitComment(r) \/ InsertComment(r) \/ InsertRefused(r)
            \/ ReadForModeration(r) \/ Moderate(r) \/ ReadForReply(r) \/ InsertReply(r)
            \/ NotifyReplyApproved(r) \/ RequestFails(r)
       \/ DestroyComment(Held) \/ DestroyArticle(Held) \/ ToggleComments
    /\ UNCHANGED fetchVars

FetchStep ==
    \/ LoadTargets \/ FetchThread \/ RateLimitStop \/ FetchDone
    \/ FindExternal \/ CreateExternal \/ UpdateExternal \/ UpdateExternalGone
    \/ StartLinks \/ LinkReply \/ BatchDone \/ FetchFails \/ FetchCanceled

CronStep ==
    \/ CronTick \/ CronFails \/ FetchForArticle
    \/ \E p \in CronPlatforms : EnqueueDueFetch(p) \/ StampFetch(p)

MailStep == LoadReply \/ SendReplyMail \/ ReplyMailCanceled \/ ReplyFails

Next == WebStep \/ FetchStep \/ CronStep \/ MailStep \/ RunStep \/ CrashProcess \/ PassTime

Spec == Init /\ [][Next]_vars

-----------------------------------------------------------------------------
(* Properties.                                                              *)

TypeOK ==
    /\ RunTypeOK /\ ComTypeOK
    /\ fetch \in Fetch
    /\ stamp \in [CronPlatforms -> Nat] /\ cron \subseteq CronPlatforms
    /\ mails \in [JobIds -> Nat] /\ cut \in Nat

(* "attach parents via parent_external_id (in-batch map first, then the DB  *)
(* so replies attach to parents imported in earlier batches)": when a batch *)
(* is through, every reply of it whose parent is stored hangs below that    *)
(* parent, whatever the order of arrival, the runs before and the admins    *)
(* deleting beside it.                                                      *)
BatchIsThreaded ==
    fetch.stage = "link" /\ fetch.links = {} =>
        \A k \in fetch.known :
            Present(k.id) /\ Thread[k.ext].parent # Root =>
                \A p \in GetExternalComment(fetch.article, Thread[k.ext].parent) : comments[k.id].parent = p

(* "status applies only to newly created rows so re-fetching never          *)
(* overwrites a moderation decision", nor makes a second row for a comment. *)
DecisionsOutliveFetches ==
    \A i \in CommentIds : Present(i) =>
        /\ decided[i] # "none" => comments[i].status = decided[i]
        /\ \A j \in CommentIds : Present(j) /\ comments[i].ext = comments[j].ext /\ ~IsLocal(comments[i]) => i = j

(* Every reply that stands approved with someone to tell has had its        *)
(* notification queued, unless the request doing so failed: whoever         *)
(* approved, rejected or approved again in whatever order.                  *)
ApprovedReplyAnnounced ==
    \A i \in CommentIds :
        decided[i] = "approved" /\ Present(i) /\ EligibleReply(comments[i]) =>
            i \in announced \cup abandoned \cup {req[r].id : r \in {s \in Requests : req[s].pc = "notify"}}

(* "a retry could duplicate a notification the SMTP server already          *)
(* accepted": a notification row mails once, plus once per run of it that   *)
(* a crash or a shutdown cut off.                                           *)
ReplyMailRepeatsOnlyAfterCut == \A j \in JobIds : mails[j] <= 1 + cut

(* "a failed enqueue does not silently postpone the platform by a whole     *)
(* schedule period": a stored fetch time is the time of a queued fetch.     *)
StampFollowsEnqueue == \A p \in CronPlatforms : stamp[p] # 0 => <<p, stamp[p]>> \in queuedAt

(* The page shows a comment once, exactly when it and all it hangs from     *)
(* may be shown: an unapproved local comment takes its whole subtree with   *)
(* it, and no import leaves a cycle that hides one.                         *)
TreeShowsEachOnce ==
    \A a \in Articles :
        LET shown == BuildTree(a)
            visible == Visible(a)
            Chain(i) == {j \in CommentIds : i \in Subtree(j)} IN
        /\ \A i \in CommentIds : Cardinality({t \in shown : t[2] = i}) <= 1
        /\ {t[2] : t \in shown} =
             {i \in visible : \A j \in Chain(i) : j \in visible /\ comments[j].ext[1] = comments[i].ext[1]}
=============================================================================
