----------------------------- MODULE TwitterSync -----------------------------
(***************************************************************************)
(* Archiving tweets as articles: Syncer.Run of internal/service/           *)
(* twittersync/sync.go against the settings page of internal/httpd/        *)
(* twitter_sync_admin.go, the X timeline and admins who edit articles.     *)
(*                                                                         *)
(* A run reads the twitter_syncs row once and then talks to the network    *)
(* for minutes; every later write is guarded by what it read.  Only one    *)
(* run exists at a time: the job is enqueued unless active and JobQueue    *)
(* shows that a row is executed by one worker at a time.                   *)
(*                                                                         *)
(* A tweet is its id; ids grow with time over all accounts.  An account's  *)
(* numeric id is the account itself, start_date the first tweet of its day.*)
(* The twitter crosspost platform is enabled throughout: disabled, a run   *)
(* returns at once, as it does when the sync itself is disabled.           *)
(***************************************************************************)
EXTENDS Integers, FiniteSets, FiniteSetsExt

CONSTANTS
    Accounts,       \* X accounts an admin may enter
    NoAccount,      \* a blank username, a NULL user_id
    Admins,         \* concurrent settings requests
    StartDates,     \* start dates an admin may enter; 0 is none
    Filtered,       \* tweets that are replies, retweets or X-Article announcements
    PageSize,       \* sync.go: max_results of one timeline page
    MaxPages,       \* sync.go: MaxPagesPerSync
    FirstRunLimit,  \* sync.go: FirstRunLimit
    MaxTweets,      \* bound on the tweets posted
    MaxArticles,    \* bound on the articles with a tweet, at one time
    MaxEdits,       \* bound on settings updates and article edits
    MaxFaults       \* bound on failing calls and statements, shutdowns and crashes

ASSUME TwitterSyncAssumption ==
    /\ NoAccount \notin Accounts
    /\ MaxTweets \in Nat /\ 0 \in StartDates /\ StartDates \subseteq 0..MaxTweets
    /\ PageSize \in Nat \ {0} /\ MaxPages \in Nat \ {0} /\ FirstRunLimit \in Nat \ {0}
    /\ MaxArticles \in Nat /\ MaxEdits \in Nat /\ MaxFaults \in Nat

VARIABLES
    row,      \* the twitter_syncs row
    req,      \* per admin: the row a settings request read, before its transaction
    run,      \* the run in progress
    author,   \* who posted tweet t; the tweets so far are its domain
    articles, \* the articles made from tweets or crossposted as tweets
    loose,    \* tweets with stored media that no attachment row names
    edits, faults,
    covered,  \* ghost: tweets behind the cursor that some run of these settings came to
    unlinked, \* ghost: tweets whose article's social_media_posts row never named them or no longer does
    leaked    \* ghost: stored media left behind by a crash or a failed clean-up

vars == <<row, req, run, author, articles, loose, edits, faults, covered, unlinked, leaked>>
siteVars == <<author, articles, unlinked>>

Ids == 1..MaxTweets
Tweets == DOMAIN author
Posts == 1..MaxArticles

(* An article has the slug tweet-<slug>, another one if slug is 0.  tweets  *)
(* is what happened, whatever the rows say: the tweets it was archived from *)
(* or crossposted as.  url is the tweet its one twitter row of              *)
(* social_media_posts names, 0 without a row.                               *)
Article == [slug : 0..MaxTweets, tweets : SUBSET Ids, url : 0..MaxTweets]

NoArticle == [slug |-> 0, tweets |-> {}, url |-> 0]

Here(i) == articles[i] # NoArticle

(* The id of the next article. *)
NextFree(i) == ~Here(i) /\ \A j \in 1..(i - 1) : Here(j)

(* since and start are 0 for NULL. *)
Row == [enabled : BOOLEAN, username : Accounts \cup {NoAccount},
        userId : Accounts \cup {NoAccount}, since : 0..MaxTweets, start : StartDates]

FreshRow == [enabled |-> FALSE, username |-> NoAccount, userId |-> NoAccount,
             since |-> 0, start |-> 0]

(* pc: idle, resolve (users/by/username), fetch (a timeline page), archive  *)
(* (next tweet), insert (media stored, transaction to come), finish.  cfg   *)
(* is the row as read at the start.  visited and dropped are ghosts: tweets *)
(* the archive loop came to, and tweets beyond the page or first-run limit. *)
Run == [pc : {"idle", "resolve", "fetch", "archive", "insert", "finish"}, cfg : Row,
        uid : Accounts \cup {NoAccount}, pages : 0..MaxPages, got : SUBSET Ids,
        todo : SUBSET Ids, cancelled : BOOLEAN, visited : SUBSET Ids, dropped : SUBSET Ids]

NoRun == [pc |-> "idle", cfg |-> FreshRow, uid |-> NoAccount, pages |-> 0, got |-> {},
          todo |-> {}, cancelled |-> FALSE, visited |-> {}, dropped |-> {}]

NoRequest == [open |-> FALSE, read |-> FreshRow]

TypeOK ==
    /\ row \in Row
    /\ req \in [Admins -> [open : BOOLEAN, read : Row]]
    /\ run \in Run
    /\ \E n \in 0..MaxTweets : author \in [1..n -> Accounts]
    /\ articles \in [Posts -> Article] /\ \A i \in Posts : articles[i].tweets \subseteq Tweets
    /\ loose \subseteq Tweets /\ unlinked \subseteq Tweets /\ covered \subseteq Tweets
    /\ edits \in 0..MaxEdits /\ faults \in 0..MaxFaults
    /\ leaked \in BOOLEAN

Init ==
    /\ row = FreshRow
    /\ req = [a \in Admins |-> NoRequest]
    /\ run = NoRun
    /\ author = [t \in {} |-> NoAccount]
    /\ articles = [i \in Posts |-> NoArticle]
    /\ loose = {} /\ covered = {} /\ unlinked = {}
    /\ edits = 0 /\ faults = 0
    /\ leaked = FALSE

Fault == faults < MaxFaults /\ faults' = faults + 1
Edit == edits < MaxEdits /\ edits' = edits + 1

-----------------------------------------------------------------------------
(* The world around the run.                                                *)

(* Account u posts a tweet of its own.                                      *)
PostTweet(u) ==
    /\ Cardinality(Tweets) < MaxTweets
    /\ author' = [t \in 1..(Cardinality(Tweets) + 1) |-> IF t \in Tweets THEN author[t] ELSE u]
    /\ UNCHANGED <<row, req, run, articles, unlinked, loose, edits, faults, covered, leaked>>

(* The tweet that an article loses from the record when its row changes.    *)
Unlinks(i) == {articles[i].url} \cap articles[i].tweets

(* A crosspost job posts an article of this site as u: for the first time,  *)
(* or again, or one archived from a tweet.  The job runs on the same worker,*)
(* so never inside a sync run.  recordURL keeps one row per article and     *)
(* platform, so the new URL replaces the one before; or it fails.           *)
Crosspost(u) ==
    LET t == Cardinality(Tweets) + 1 IN
    /\ run.pc = "idle" /\ t <= MaxTweets
    /\ author' = [s \in 1..t |-> IF s = t THEN u ELSE author[s]]
    /\ \E i \in Posts :
        /\ Here(i) \/ NextFree(i)
        /\ \/ /\ articles' = [articles EXCEPT ![i].tweets = @ \cup {t}, ![i].url = t]
              /\ unlinked' = unlinked \cup Unlinks(i)
              /\ UNCHANGED faults
           \/ /\ Fault
              /\ articles' = [articles EXCEPT ![i].tweets = @ \cup {t}]
              /\ unlinked' = unlinked \cup {t}
    /\ UNCHANGED <<row, req, run, loose, edits, covered, leaked>>

(* An admin gives an archived article another slug ...                      *)
RenameArticle ==
    /\ Edit
    /\ \E i \in Posts :
        /\ articles[i].slug # 0
        /\ articles' = [articles EXCEPT ![i].slug = 0]
    /\ UNCHANGED <<row, req, run, author, unlinked, loose, faults, covered, leaked>>

(* ... or saves it with its twitter URL cleared or replaced ...             *)
EditURL ==
    /\ Edit
    /\ \E i \in Posts, url \in {0} \cup Tweets :
        /\ Here(i) /\ url # articles[i].url
        /\ articles' = [articles EXCEPT ![i].url = url]
        /\ unlinked' = unlinked \cup Unlinks(i)
    /\ UNCHANGED <<row, req, run, author, loose, faults, covered, leaked>>

(* ... or deletes an article; its social_media_posts rows go with it.       *)
DeleteArticle ==
    /\ Edit
    /\ \E i \in Posts : Here(i) /\ articles' = [articles EXCEPT ![i] = NoArticle]
    /\ UNCHANGED <<row, req, run, author, unlinked, loose, faults, covered, leaked>>

-----------------------------------------------------------------------------
(* twitterSyncUpdate.                                                       *)

AskUpdate(a) ==
    /\ ~req[a].open /\ Edit
    /\ req' = [req EXCEPT ![a] = [open |-> TRUE, read |-> row]]
    /\ UNCHANGED <<row, run, siteVars, loose, faults, covered, leaked>>

(* Faulty: the cursor is reset by a new username only. *)
MutOverlay(read, enabled, username, start) ==
    [enabled |-> enabled, username |-> username, start |-> start,
     userId |-> IF username # read.username THEN NoAccount ELSE row.userId,
     since |-> IF username # read.username THEN 0 ELSE row.since]

(* The transaction: UpdateTwitterSyncConfig, and ResetTwitterSyncCursor and *)
(* the clearing of user_id where the form differs from the row read before. *)
Overlay(read, enabled, username, start) ==
    LET changed == username # read.username IN
    [enabled |-> enabled, username |-> username, start |-> start,
     userId |-> IF changed THEN NoAccount ELSE row.userId,
     since |-> IF changed \/ start # read.start THEN 0 ELSE row.since]

CommitUpdate(a) ==
    /\ req[a].open
    /\ \E enabled \in BOOLEAN, username \in Accounts \cup {NoAccount}, start \in StartDates :
        /\ enabled => username # NoAccount
        /\ row' = Overlay(req[a].read, enabled, username, start)
        /\ covered' = IF username = row.username /\ start = row.start THEN covered ELSE {}
    /\ req' = [req EXCEPT ![a] = NoRequest]
    /\ UNCHANGED <<run, siteVars, loose, edits, faults, leaked>>

(* Validation fails, or a statement does and the transaction rolls back.    *)
RejectUpdate(a) ==
    /\ req[a].open
    /\ req' = [req EXCEPT ![a] = NoRequest]
    /\ UNCHANGED <<row, run, siteVars, loose, edits, faults, covered, leaked>>

-----------------------------------------------------------------------------
(* Syncer.perform.                                                          *)

Syncing == row.enabled /\ row.username # NoAccount

StartRun ==
    /\ run.pc = "idle" /\ Syncing
    /\ run' = [NoRun EXCEPT !.pc = IF row.userId = NoAccount THEN "resolve" ELSE "fetch",
                            !.cfg = row, !.uid = row.userId]
    /\ UNCHANGED <<row, req, siteVars, loose, edits, faults, covered, leaked>>

(* Faulty: the resolved id is stored whatever the row says now. *)
MutResolveUserID ==
    /\ run.pc = "resolve" /\ ~run.cancelled
    /\ row' = [row EXCEPT !.userId = run.cfg.username]
    /\ run' = [run EXCEPT !.pc = "fetch", !.uid = run.cfg.username]
    /\ UNCHANGED <<req, siteVars, loose, edits, faults, covered, leaked>>

(* SetTwitterSyncUserID is guarded by the username the lookup was for.      *)
ResolveUserID ==
    /\ run.pc = "resolve" /\ ~run.cancelled
    /\ IF row.username = run.cfg.username
       THEN /\ row' = [row EXCEPT !.userId = run.cfg.username]
            /\ run' = [run EXCEPT !.pc = "fetch", !.uid = run.cfg.username]
       ELSE UNCHANGED row /\ run' = NoRun
    /\ UNCHANGED <<req, siteVars, loose, edits, faults, covered, leaked>>

InScope(t, cfg) == t > cfg.since /\ t >= cfg.start

(* What the pages not yet fetched hold: newest first, below what came.      *)
Unfetched == {t \in Tweets : author[t] = run.uid /\ InScope(t, run.cfg)
                                /\ \A u \in run.got : t < u}

NewestOf(S, n) == {t \in S : Cardinality({u \in S : u > t}) < n}

(* dedupeSortTweets and the first-run limit. *)
Limited(got, cfg) ==
    IF cfg.since = 0 /\ cfg.start = 0 THEN NewestOf(got, FirstRunLimit) ELSE got

(* The loop ends without a next_token or at the cap. *)
LastPage(rest) == rest = {} \/ run.pages + 1 >= MaxPages

FetchPage ==
    LET page == NewestOf(Unfetched, PageSize)
        rest == Unfetched \ page
        got == run.got \cup page IN
    /\ run.pc = "fetch" /\ ~run.cancelled
    /\ run' = IF LastPage(rest)
              THEN [run EXCEPT !.got = got, !.pages = @ + 1, !.pc = "archive",
                               !.todo = Limited(got, run.cfg),
                               !.dropped = rest \cup (got \ Limited(got, run.cfg))]
              ELSE [run EXCEPT !.got = got, !.pages = @ + 1]
    /\ UNCHANGED <<row, req, siteVars, loose, edits, faults, covered, leaked>>

(* A failing call before the loop ends the run; recordFailure writes only   *)
(* last_error.                                                              *)
RunFails ==
    /\ run.pc \in {"resolve", "fetch", "finish"}
    /\ IF run.cancelled THEN UNCHANGED faults ELSE Fault
    /\ run' = NoRun
    /\ UNCHANGED <<row, req, siteVars, loose, edits, covered, leaked>>

-----------------------------------------------------------------------------
(* archiveTweet, oldest tweet first.                                        *)

(* Faulty: the self-crosspost guard is missing. *)
MutAlreadyHere(t) == \E i \in Posts : articles[i].slug = t

(* The slug dedup and the self-crosspost guard. *)
AlreadyHere(t) == \E i \in Posts : articles[i].slug = t \/ articles[i].url = t

Visit(t, pc) ==
    [run EXCEPT !.pc = pc, !.todo = @ \ {t},
                !.visited = IF run.cancelled THEN @ ELSE @ \cup {t}]

(* Nothing to archive: filtered or already here.  An error, on a cancelled  *)
(* ctx or not, is logged and the loop goes on.                              *)
SkipTweet ==
    LET t == Min(run.todo) IN
    /\ run.pc = "archive" /\ run.todo # {}
    /\ \/ (run.cancelled \/ t \in Filtered \/ AlreadyHere(t)) /\ UNCHANGED faults
       \/ Fault
    /\ run' = Visit(t, "archive")
    /\ UNCHANGED <<row, req, siteVars, loose, edits, covered, leaked>>

(* Media, if any, is downloaded and stored before the transaction.          *)
StoreMedia ==
    /\ run.pc = "archive" /\ run.todo # {} /\ ~run.cancelled
    /\ Min(run.todo) \notin Filtered /\ ~AlreadyHere(Min(run.todo))
    /\ loose' \in {loose, loose \cup {Min(run.todo)}}
    /\ run' = [run EXCEPT !.pc = "insert"]
    /\ UNCHANGED <<row, req, siteVars, edits, faults, covered, leaked>>

(* One transaction: article, tag, attachments, social_media_posts row.      *)
InsertArticle ==
    LET t == Min(run.todo) IN
    /\ run.pc = "insert" /\ ~run.cancelled
    /\ \E i \in Posts :
        /\ NextFree(i)
        /\ articles' = [articles EXCEPT ![i] = [slug |-> t, tweets |-> {t}, url |-> t]]
    /\ loose' = loose \ {t}
    /\ run' = Visit(t, "archive")
    /\ UNCHANGED <<row, req, author, unlinked, edits, faults, covered, leaked>>

(* Faulty: the stored media is left behind. *)
MutInsertFails ==
    /\ run.pc = "insert"
    /\ IF run.cancelled THEN UNCHANGED faults ELSE Fault
    /\ run' = Visit(Min(run.todo), "archive")
    /\ UNCHANGED <<row, req, siteVars, loose, edits, covered, leaked>>

(* It fails or is refused on a cancelled ctx: discardStoredMedia, on a ctx  *)
(* of its own, removes the files; its own errors are only logged.           *)
InsertFails ==
    /\ run.pc = "insert"
    /\ IF run.cancelled THEN UNCHANGED faults ELSE Fault
    /\ run' = Visit(Min(run.todo), "archive")
    /\ \/ loose' = loose \ {Min(run.todo)} /\ UNCHANGED leaked
       \/ UNCHANGED loose /\ leaked' = (leaked \/ loose # {})
    /\ UNCHANGED <<row, req, siteVars, edits, covered>>

LoopEnds ==
    /\ run.pc = "archive" /\ run.todo = {}
    /\ run' = [run EXCEPT !.pc = "finish"]
    /\ UNCHANGED <<row, req, siteVars, loose, edits, faults, covered, leaked>>

(* Faulty: the guard compares the username only. *)
MutUnchanged == row.username = run.cfg.username

(* The WHERE clause of SetTwitterSyncSuccess. *)
Unchanged ==
    /\ row.since = run.cfg.since
    /\ row.username = run.cfg.username
    /\ row.start = run.cfg.start

(* Faulty: the filtered tweets do not move the cursor. *)
MutLatest(tweets) == IF tweets \subseteq Filtered THEN run.cfg.since ELSE Max(tweets \ Filtered)

(* maxTweetID of the tweets of the run, the old cursor if there are none. *)
Latest(tweets) == IF tweets = {} THEN run.cfg.since ELSE Max(tweets)

(* SetTwitterSyncSuccess: the newest tweet of the run becomes the cursor.   *)
Succeed ==
    /\ run.pc = "finish" /\ ~run.cancelled
    /\ IF Unchanged
       THEN /\ row' = [row EXCEPT !.since = Latest(Limited(run.got, run.cfg))]
            /\ covered' = covered \cup run.visited \cup run.dropped
       ELSE UNCHANGED <<row, covered>>
    /\ run' = NoRun
    /\ UNCHANGED <<req, siteVars, loose, edits, faults, leaked>>

(* SIGTERM: ctx is cancelled, every later call and statement fails.         *)
Cancel ==
    /\ run.pc # "idle" /\ ~run.cancelled
    /\ Fault
    /\ run' = [run EXCEPT !.cancelled = TRUE]
    /\ UNCHANGED <<row, req, siteVars, loose, edits, covered, leaked>>

Crash ==
    /\ Fault
    /\ run' = NoRun
    /\ req' = [a \in Admins |-> NoRequest]
    /\ leaked' = (leaked \/ loose # {})
    /\ UNCHANGED <<row, siteVars, loose, edits, covered>>

-----------------------------------------------------------------------------
RunStep ==
    \/ ResolveUserID \/ FetchPage \/ SkipTweet \/ StoreMedia
    \/ InsertArticle \/ LoopEnds \/ Succeed

Next ==
    \/ \E u \in Accounts : PostTweet(u) \/ Crosspost(u)
    \/ RenameArticle \/ EditURL \/ DeleteArticle
    \/ \E a \in Admins : AskUpdate(a) \/ CommitUpdate(a) \/ RejectUpdate(a)
    \/ StartRun \/ RunStep \/ RunFails \/ InsertFails \/ Cancel \/ Crash

Spec == Init /\ [][Next]_vars

(* The scheduler keeps enqueueing the job while the sync is enabled, and    *)
(* the worker keeps running it.                                             *)
FairSpec == Spec /\ WF_vars(StartRun) /\ WF_vars(RunStep \/ RunFails \/ InsertFails)

-----------------------------------------------------------------------------
(* Properties.                                                              *)

(* "syncing the old timeline under the new username" never happens: a       *)
(* stored user_id is the one of the username it is stored with.             *)
UserIdMatchesUsername == row.userId \in {NoAccount, row.username}

(* Nothing is skipped: every tweet of the account from the start date up to *)
(* the cursor was come to by a run of the settings in force, or was cut off *)
(* by its page or first-run limit.  So a reset that asks for a backfill is  *)
(* never undone, and a shutdown half-way loses no tweet.                    *)
CursorSkipsNothing ==
    \A t \in Tweets :
        (author[t] = row.username /\ row.start <= t /\ t <= row.since) => t \in covered

(* A tweet has one article on the site: archived once, or the article it    *)
(* was crossposted from, whatever crashes, resets and renames do.  Left out *)
(* are the tweets no row speaks for: their URL was not recorded, an admin   *)
(* cleared or replaced it, or a later post of the same article did.         *)
OneArticlePerTweet ==
    \A i, j \in Posts : i # j => articles[i].tweets \cap articles[j].tweets \subseteq unlinked

(* Media stored for a tweet is attached to its article or removed with it,  *)
(* unless the process died or the removal failed.                           *)
StoredMediaIsAttached ==
    ~leaked => loose \subseteq (IF run.pc = "insert" THEN {Min(run.todo)} ELSE {})

Behind == Syncing /\ \E t \in Tweets : author[t] = row.username /\ InScope(t, row)

(* The cursor catches up: while the sync is enabled, tweets newer than the  *)
(* cursor do not stay behind for ever.                                      *)
CursorCatchesUp == Behind ~> ~Behind
=============================================================================
