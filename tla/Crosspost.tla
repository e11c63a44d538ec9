----------------------------- MODULE Crosspost -----------------------------
(***************************************************************************)
(* Crossposting one article: the requests (articles.EnqueuePublishEffects  *)
(* on save, the scheduled-publish worker, the batch Crosspost action), the *)
(* crosspost handler of internal/service/crosspost/crosspost.go, and the   *)
(* social_media_posts rows that keep a retry from posting again.  Posting  *)
(* and recording are two steps against two systems; the answer of either   *)
(* may be lost.                                                            *)
(***************************************************************************)
EXTENDS HandlerRuns, FiniteSets, SequencesExt

CONSTANTS
    Kind,        \* the kind of the rows: crosspost
    Platforms,   \* platforms with an implementation
    Sources,     \* how requests arise: subset of {"save", "schedule", "batch"}
    StaleForms   \* TRUE: the worker may run between opening and saving a form

ASSUME CrosspostAssumption ==
    /\ Kind \in Kinds
    /\ IsFiniteSet(Platforms)
    /\ Sources \subseteq {"save", "schedule", "batch"}
    /\ StaleForms \in BOOLEAN

VARIABLES
    exists,    \* the article's row is there
    enabled,   \* platforms whose crossposts row is enabled
    social,    \* social_media_posts.updated_at per platform; 0 for no row
    form,      \* the open edit form: platforms whose URL it shows
    payload,   \* per crosspost row: platforms and requested_at
    todo,      \* platforms the handler has still to visit
    public,    \* ghost: public posts made per row and platform
    lost,      \* ghost: ... of which the handler never learnt
    blind,     \* ghost: ... of which it learnt but recorded no URL
    batch      \* ghost: rows the batch action asked for

postVars == <<exists, enabled, social, form, payload, todo, public, lost, blind, batch>>
crosspostVars == <<clock, jobs, runner, faults, crashes, exists, enabled, social, form,
          payload, todo, public, lost, blind, batch>>

Closed == [open |-> FALSE, shows |-> {}]

Payload == [platforms : UNION {[1..n -> Platforms] : n \in 0..Cardinality(Platforms)},
            requestedAt : 0..MaxTime]

Counts == [JobIds -> [Platforms -> Nat]]

None == [i \in JobIds |-> [p \in Platforms |-> 0]]

CrosspostTypeOK ==
    /\ RunTypeOK
    /\ exists \in BOOLEAN
    /\ enabled \subseteq Platforms
    /\ social \in [Platforms -> 0..MaxTime]
    /\ form.open \in BOOLEAN /\ form.shows \subseteq Platforms
    /\ payload \in [JobIds -> Payload]
    /\ Range(todo) \subseteq Platforms
    /\ public \in Counts /\ lost \in Counts /\ blind \in Counts
    /\ batch \subseteq JobIds

CrosspostInit ==
    /\ RunInit
    /\ exists = TRUE
    /\ enabled = Platforms
    /\ social = [p \in Platforms |-> 0]
    /\ form = Closed
    /\ payload = [i \in JobIds |-> [platforms |-> <<>>, requestedAt |-> 0]]
    /\ todo = <<>>
    /\ public = None /\ lost = None /\ blind = None
    /\ batch = {}

-----------------------------------------------------------------------------
(* Requests.                                                                *)

(* One row per element of ps, in order, after the rows already there.       *)
EnqueueAll(ps, requestedAt) ==
    LET used == Cardinality({i \in JobIds : Exists(jobs, i)})
        new == {i \in JobIds : i > used /\ i <= used + Len(ps)} IN
    /\ used + Len(ps) <= MaxRows
    /\ jobs' = [i \in JobIds |->
                    IF i \in new THEN EnqueueJobRun(jobs, i, Kind, clock, clock)[i] ELSE jobs[i]]
    /\ payload' = [i \in JobIds |->
                    IF i \in new THEN [platforms |-> ps[i - used], requestedAt |-> requestedAt]
                    ELSE payload[i]]

(* EnqueuePublishEffects: one job per selected platform that is enabled and *)
(* has no URL recorded.                                                     *)
Wanted(selected, rows) == {p \in selected \cap enabled : rows[p] = 0}

(* The edit form shows the URLs recorded so far. *)
OpenForm ==
    /\ "save" \in Sources /\ Serving /\ exists /\ ~form.open
    /\ form' = [open |-> TRUE, shows |-> {p \in Platforms : social[p] # 0}]
    /\ UNCHANGED <<runVars, exists, enabled, social, payload, todo, public, lost, blind, batch>>

(* articles.Save of that form as published: every URL field is written back *)
(* (upsert with updated_at = now, or delete when blank), then the follow-up *)
(* jobs.  The fields are saved as the form showed them: clearing one is the *)
(* way to ask for a second post, and is left out.                           *)
SaveForm ==
    /\ Serving /\ form.open
    /\ form' = Closed
    /\ \E selected \in SUBSET Platforms :
        LET rows == [p \in Platforms |-> IF p \in form.shows THEN clock ELSE 0] IN
        IF exists
        THEN /\ social' = rows
             /\ EnqueueAll([n \in 1..Cardinality(Wanted(selected, rows)) |->
                              <<SetToSeq(Wanted(selected, rows))[n]>>], clock)
        ELSE UNCHANGED <<social, jobs, payload>>
    /\ UNCHANGED <<clock, runner, faults, crashes, exists, enabled, todo, public, lost, blind, batch>>

(* The publish_article handler: one job for all selections, no requested_at. *)
(* Bound: the article is published from a schedule once.                     *)
PublishScheduled ==
    /\ "schedule" \in Sources /\ Serving /\ exists
    /\ \A i \in JobIds : Exists(jobs, i) => payload[i].requestedAt # 0
    /\ EnqueueAll(<<SetToSeq(Platforms)>>, 0)
    /\ UNCHANGED <<clock, runner, faults, crashes, exists, enabled, social, form, todo, public, lost, blind, batch>>

(* adminArticlesBatchCrosspost: a deliberate request, one job per platform. *)
BatchCrosspost ==
    /\ "batch" \in Sources /\ Serving /\ exists
    /\ \E p \in enabled : EnqueueAll(<<<<p>>>>, clock)
    /\ batch' = batch \cup {i \in JobIds : Exists(jobs', i) /\ ~Exists(jobs, i)}
    /\ UNCHANGED <<clock, runner, faults, crashes, exists, enabled, social, form, todo, public, lost, blind>>

(* The crosspost settings form. *)
Toggle ==
    /\ Serving
    /\ \E p \in Platforms : enabled' = IF p \in enabled THEN enabled \ {p} ELSE enabled \cup {p}
    /\ UNCHANGED <<runVars, exists, social, form, payload, todo, public, lost, blind, batch>>

(* articles.Destroy takes the social_media_posts rows and leaves the jobs.  *)
DestroyArticle ==
    /\ Serving /\ exists
    /\ exists' = FALSE
    /\ social' = [p \in Platforms |-> 0]
    /\ UNCHANGED <<runVars, enabled, form, payload, todo, public, lost, blind, batch>>

-----------------------------------------------------------------------------
(* Dispatcher.Handle.                                                       *)

Now == payload[runner.id]

(* Faulty: a request without a timestamp never skips. *)
MutUrlRecordedSince(p, requestedAt) == social[p] # 0 /\ requestedAt # 0 /\ social[p] >= requestedAt

UrlRecordedSince(p, requestedAt) == social[p] # 0 /\ (requestedAt = 0 \/ social[p] >= requestedAt)

(* The article is looked up once; a job for a deleted one is a no-op.       *)
LookUpArticle ==
    /\ runner.pc = "load"
    /\ IF exists THEN todo' = Now.platforms /\ Proceed("visit")
                 ELSE UNCHANGED todo /\ Proceed("book")
    /\ UNCHANGED <<exists, enabled, social, form, payload, public, lost, blind, batch>>

Finish ==
    /\ runner.pc = "visit" /\ todo = <<>>
    /\ Proceed("book")
    /\ UNCHANGED postVars

(* Disabled, or a URL is recorded since the request: next platform.         *)
Skip ==
    /\ runner.pc = "visit" /\ todo # <<>>
    /\ Head(todo) \notin enabled \/ UrlRecordedSince(Head(todo), Now.requestedAt)
    /\ todo' = Tail(todo)
    /\ Proceed("visit")
    /\ UNCHANGED <<exists, enabled, social, form, payload, public, lost, blind, batch>>

BuildInput ==
    /\ runner.pc = "visit" /\ todo # <<>>
    /\ Head(todo) \in enabled /\ ~UrlRecordedSince(Head(todo), Now.requestedAt)
    /\ Proceed("act")
    /\ UNCHANGED postVars

Visible == public' = [public EXCEPT ![runner.id][Head(todo)] = @ + 1]

(* platform.Post: the post is public and its URL known ...                  *)
Posted ==
    /\ runner.pc = "act" /\ Visible /\ Proceed("write")
    /\ UNCHANGED <<exists, enabled, social, form, payload, todo, lost, blind, batch>>

(* ... public, but the answer holds no URL: not retried ...                 *)
PostedBlind ==
    /\ runner.pc = "act" /\ faults < MaxFaults /\ faults' = faults + 1
    /\ Visible
    /\ blind' = [blind EXCEPT ![runner.id][Head(todo)] = @ + 1]
    /\ todo' = Tail(todo)
    /\ runner' = [runner EXCEPT !.pc = "visit"]
    /\ UNCHANGED <<clock, jobs, crashes, exists, enabled, social, form, payload, lost, batch>>

(* ... public, but the answer is lost (timeout, reset, shutdown): retried.  *)
PostedLost ==
    /\ runner.pc = "act" /\ ReturnError
    /\ Visible
    /\ lost' = [lost EXCEPT ![runner.id][Head(todo)] = @ + 1]
    /\ todo' = <<>>
    /\ UNCHANGED <<exists, enabled, social, form, payload, blind, batch>>

(* Not accepted: a permanent failure goes on to the next platform ...       *)
Rejected ==
    /\ runner.pc = "act"
    /\ todo' = Tail(todo)
    /\ Proceed("visit")
    /\ UNCHANGED <<exists, enabled, social, form, payload, public, lost, blind, batch>>

(* ... a transient one, or a failing statement, ends the run.               *)
Fails ==
    /\ runner.pc \in {"load", "visit", "act"} /\ ReturnError
    /\ todo' = <<>>
    /\ UNCHANGED <<exists, enabled, social, form, payload, public, lost, blind, batch>>

(* recordURL; social_media_posts.article_id must still have an article. *)
Record ==
    /\ runner.pc = "write" /\ exists
    /\ social' = [social EXCEPT ![Head(todo)] = clock]
    /\ todo' = Tail(todo)
    /\ Proceed("visit")
    /\ UNCHANGED <<exists, enabled, form, payload, public, lost, blind, batch>>

(* A failing recordURL is logged and not retried. *)
RecordFails ==
    /\ runner.pc = "write"
    /\ ~exists \/ faults < MaxFaults
    /\ faults' = IF exists THEN faults + 1 ELSE faults
    /\ blind' = [blind EXCEPT ![runner.id][Head(todo)] = @ + 1]
    /\ todo' = Tail(todo)
    /\ runner' = [runner EXCEPT !.pc = "visit"]
    /\ UNCHANGED <<clock, jobs, crashes, exists, enabled, social, form, payload, public, lost, batch>>

-----------------------------------------------------------------------------
HandlerStep ==
    \/ LookUpArticle \/ Finish \/ Skip \/ BuildInput
    \/ Posted \/ PostedBlind \/ PostedLost \/ Rejected \/ Fails
    \/ Record \/ RecordFails

CrosspostRunStep ==
    /\ GetDue \/ Claim \/ Book \/ Restart
    /\ UNCHANGED postVars

(* A crash after Post and before recordURL loses the answer. *)
CrosspostCrash ==
    /\ Crash
    /\ lost' = IF runner.pc = "write" THEN [lost EXCEPT ![runner.id][Head(todo)] = @ + 1] ELSE lost
    /\ todo' = <<>>
    /\ UNCHANGED <<exists, enabled, social, form, payload, public, blind, batch>>

CrosspostTime == Tick /\ UNCHANGED postVars

RequestStep ==
    \/ OpenForm \/ SaveForm \/ PublishScheduled \/ BatchCrosspost
    \/ Toggle \/ DestroyArticle

(* With StaleForms FALSE an open form is saved before anything else moves.  *)
CrosspostNext ==
    \/ RequestStep
    \/ /\ StaleForms \/ ~form.open
       /\ HandlerStep \/ CrosspostRunStep \/ CrosspostCrash \/ CrosspostTime

CrosspostSpec == CrosspostInit /\ [][CrosspostNext]_crosspostVars

-----------------------------------------------------------------------------
(* Properties.  Once the article is deleted its URLs are gone too, so they  *)
(* speak of an article that is still there.                                 *)

(* One request makes one public post per platform, plus at most one for     *)
(* every post that left no URL behind: retries after transient failures,    *)
(* shutdowns, restarts and racing requests add none.                        *)
RetriesRepeatOnlyUnrecorded ==
    exists => \A i \in JobIds, p \in Platforms : public[i][p] <= 1 + lost[i][p] + blind[i][p]

Total(count, p) == MapThenSumSet(LAMBDA i : count[i][p], JobIds)

(* "saving with the box checked must never publish a duplicate": however    *)
(* often the article is saved and whatever else requested the platform, it  *)
(* has one public post there, plus one per batch request, which asks for it *)
(* deliberately, and one per post that left no URL behind.                  *)
SavingNeverDuplicates ==
    exists => \A p \in Platforms :
        Total(public, p) <= 1 + Total(lost, p) + Total(blind, p)
                              + Cardinality({i \in batch : payload[i].platforms = <<p>>})
=============================================================================
