# Rables: TLA+ models, checks and proofs

Rables is a single-binary blog engine in Go over SQLite. One process serves the
admin and public HTTP handlers, runs one background worker goroutine over the
`job_runs` table and one scheduler goroutine that enqueues periodic jobs. There
is no lock between these actors: they meet in the database, in statements and
transactions of their own, and systemd starts a new process when one stops. What
can go wrong in this program goes wrong between two statements, and that is what
these modules cut it into.

## Inventory

| Part (source) | State | Operations | What is hard | What makes it correct |
|---|---|---|---|---|
| Job queue (`internal/jobs/{jobs,worker,recover}.go`, `queries/jobs.sql`) | `job_runs` rows; the worker's one-slot wake channel; the row in hand | enqueue, enqueue-unless-active, select due, claim, complete / reschedule / fail, recover, delete finished | select and claim are two statements; crash between claim and bookkeeping; two processes during a deploy; ids are reused | a row is executed by one worker at a time, within its budget, not before its time, and is taken in the end |
| Article publication (`service/articles`, `jobs/publish.go`, `httpd/articles_admin.go`) | `articles` row: status, `scheduled_at`, snapshot of the selections; publish rows | save, publish / unpublish / trash, destroy, the publish handler | admin requests and the worker decide on rows they read earlier | a schedule is honoured, its selections are acted on once, only trash is destroyed |
| Page publication (`httpd/pages_admin.go`, `jobs/publish.go`) | `pages` row, publish rows | create, update, batch actions, destroy, handler | a save is three statements, errors are logged only | a scheduled page is covered by a publish row |
| Scheduler (`jobs/scheduler.go`, `jobs/due.go`) | `kv` stamps | five cron entries | stamp after enqueue, missed ticks | a due fetch is enqueued, not twice |
| Crossposting (`service/crosspost`) | `social_media_posts`, `crossposts` | post, record URL | post and record are not atomic | no duplicate public post |
| External comments (`crosspost/fetch_comments.go`) | `comments` | two-pass upsert | replies before parents | no duplicate, no cycle |
| Comments (`service/comments`, `httpd/comments*.go`) | `comments` | create, moderate, reply, notify | parents deleted under replies | a tree lists each comment once |
| Newsletter (`service/newsletter`) | campaign at listmonk, mails sent | send per recipient, campaign | abort half-way | every recipient once |
| Subscriptions (`httpd/subscriptions.go`, `service/subscribers`) | `subscribers` and tokens | subscribe, confirm, unsubscribe | statements outside a transaction | nobody is active without confirming |
| Twitter sync (`service/twittersync`) | `twitter_syncs` cursor, archived articles | paged fetch, archive, advance cursor | settings changed while a run is under way | no tweet is skipped or archived twice |
| Media and static files (`service/media`, `jobs/cleanup.go`, `httpd/static_files_admin.go`) | `files`, attachments, blobs | upload, attach, overwrite, purge, reap | blob and row in two steps; content names files without a foreign key | no blob is removed while a row or content names it, none is forgotten |
| Transfer (`service/transfer`, `httpd/migrates_*.go`) | upload files, extract directories, job payloads, bundles | upload, submit, import, export, sweep | the file is handed to the job by its name; the import commits rows before it restores blobs | the job finds its file, a half-done import can be retried, a rerun imports nothing twice, a backup is complete |
| HTML archives (`service/htmlarchive`, `httpd/archives.go`) | extracted trees | stage, install, remove | install after the row is committed | a tree belongs to its row |
| Redirects, settings, tags, sessions, rate limit (`httpd/*`, `settings`, `kv`) | small tables and in-memory caches | edit, invalidate, look up | stale caches, concurrent edits | reads see the last committed edit |
| Public site, templates, domain helpers, configuration | none | rendering, text | — | not state machines |

Interactions: articles, pages, crossposting, newsletter, comments, transfer and
twitter sync all reach the worker through `job_runs`. Admin handlers nudge the
worker through `Enqueuer`'s wake hook; rows inserted inside a transaction of
`service/articles` do not. Deleting or rescheduling an article edits `job_runs`
behind the worker's back.

## Modules

| Module | Role |
|---|---|
| `JobRuns` | the `job_runs` table and every statement of `queries/jobs.sql` (plus the two cancel statements) as a function on tables |
| `JobLifecycle` | abstract specification: what the queue promises about one row |
| `JobQueue` | processes, the worker goroutine, the writers of the table, crashes, shutdowns, deploys |
| `HandlerRuns` | one worker as a job handler sees it: due row, claim, handler steps, bookkeeping, crash, restart |
| `PublishRows` | what scheduled articles and pages share (extends `HandlerRuns`) |
| `Publishing` | articles: save, transition, destroy, publish handler (extends `PublishRows`) |
| `PagePublishing` | pages: the same without transactions (extends `PublishRows`) |
| `Crosspost` | requests, the crosspost handler, recorded URLs (extends `HandlerRuns`) |
| `TwitterSync` | sync runs, the `twitter_syncs` row and its settings page, archived articles and media |
| `Subscriptions` | the `subscribers` table, double opt-in, the admin's list (extends `HandlerRuns`) |
| `Newsletter` | confirmation mails and issues, both providers (composes `Subscriptions` with the worker) |
| `Comments` | the `comments` table, visitors, moderation, the display tree (extends `HandlerRuns`) |
| `CommentFetch` | the fetch job, the hourly tick, reply mails (composes `Comments` with the worker) |
| `MediaFiles` | `files`, blobs, attachments, static files, content references, the startup reaper |
| `Bundles` | export and import of a backup while the site goes on (composes with `MediaFiles`) |
| `Imports` | import files from upload to disposal, import jobs, sweeps (extends `HandlerRuns`) |
| `RateLimiter` | `IPRateLimiter.Allow` under concurrent requests |
| `MC*` | symmetry sets and constants for TLC |
| `HandlerRunsProofs` | lemmas about the worker of `HandlerRuns`, shared by the proofs of the handlers |
| `JobQueueProofs`, `RateLimiterProofs`, `PublishingProofs`, `TwitterSyncProofs`, `NewsletterProofs`, `CommentFetchProofs`, `BundlesProofs` | theorems |

### How the modules correspond to the code

**`JobRuns`.** `jobs` maps an id to a row or to `NoRow`. `attempts`, `run_at`,
`updated_at`, `status` and `kind` are kept; `payload` is kept by the modules whose
handler reads it; `last_error` is dropped. `IsNextRowId` says which id SQLite gives
to a new row: the column is `INTEGER PRIMARY KEY` without `AUTOINCREMENT`, so an
id comes back once the rows above it are gone. Each statement is one atomic step, as
it is in SQLite.

**`JobQueue`.** `worker[p].pc` is the place in `Worker.Start`/`RunOnce`: `wait` (the
select on wake, ticker and ctx), `poll` (before `GetDueJobRun`), `claim` (a row is
read), `run` (handler), `book` (before the outcome is written), `stopped`, `down`.
The record's `id`, `kind`, `attempts`, `now` are the locals of `RunOnce`, so a stale
value stays stale. `Enqueue`, `EnqueueTx`, `SaveSchedule`, `DestroyArticle`,
`CancelPageJobs`, `EnqueueUnlessActive` and `CleanupFinishedJobRuns` are the writers;
any of them may run between two steps of the worker. `Shutdown` cancels the context,
`Exit` ends the process after the drain, `Kill` is a crash, `StartProcess` is the
start with `RecoverStaleJobs`. `MayOverlap` lets a second process start beside a
first one, as a rolling deploy does, as long as no live claim is older than the
cutoff; that is the condition the comment of `RecoverStaleJobs` asks for.
`execs` is a ghost: the executions charged to the row now stored under an id.

**`HandlerRuns`.** `JobQueue` shows that a row is executed by one worker at a time,
so the modules about handlers keep one worker and spend their states on the handler.
The handler's steps are `load` (read its record), `visit` (loop head), `act` (call
out), `write`. Its error and its cancellation lead to `Booked`, which is the switch at
the end of `RunOnce`.

**`Publishing`.** One article: `art` is status, `scheduled_at`, the selections of the
snapshot and a token that identifies the save they came from. `req[a]` is what an
admin request has read and not yet acted on. `Save` is one transaction and one action;
`TransitionStatus` and `Destroy` read, decide and commit, hence `Ask...` and
`Commit...`/`Destroy`. The handler is `Load` (read, check, early returns) and `Flip`
(the transaction). `queued[n][e]` counts the follow-up jobs made from the snapshot of
save `n`. `Races = FALSE` restricts requests to moments when no publication is due and
no other request is under way; "Known deviations" below says why that is needed. The liveness
properties of articles and pages make an exception of a row that an early restart left
running (`Stranded`), the first of those deviations.

**`PagePublishing`.** As above, but `UpdatePage`, the cancellation and the enqueue are
three actions (`SavePageSchedule`, `CancelJobs`, `EnqueueJob`): `pages_admin.go` uses no
transaction and logs the errors of the last two. The ghost `broken` says that an error or
a crash stopped a save between them, after which nothing can be promised.

**`Crosspost`.** One article. `social[p]` is `social_media_posts.updated_at`, 0 without
a row; `payload[i]` holds the two shapes `jobPayload` accepts. A platform call has the
outcomes its caller tells apart: public with URL, public without URL, public with the
answer lost, rejected, transient failure. `form` is an open edit form: it carries the
URLs it was rendered with and writes them back. Ghosts: `public` counts posts per row
and platform, `lost` and `blind` those that left no URL, `batch` the rows the batch
action asked for.

**`TwitterSync`.** `row` is the settings row; `run` is the run in progress with the row
it read at its start (`cfg`), so every later write is made on what may be stale.
`ResolveUserID` is the lookup and its guarded write, `FetchPage` one timeline page,
`SkipTweet`/`StoreMedia`/`InsertArticle`/`InsertFails` the ways through `archiveTweet`,
`Succeed` the guarded cursor write. A settings request reads (`AskUpdate`) and commits
later (`CommitUpdate`); the row it overlays is the one at commit time, what it compares
with is the one it read. Tweets are numbered in the order of their ids. `articles` maps an id to the tweet
whose `slug` the article has, the tweet its one twitter row of `social_media_posts` names (`url`) and all the
`tweets` it was archived from or posted as. `Crosspost` posts a new article, an earlier one again or an
archived one, and its URL replaces the one before, as the upsert of `recordURL` does; `EditURL` is an admin's save
that clears or replaces it. X itself is external: a timeline in pages, newest first. Ghosts: `covered`
holds the tweets behind the cursor that a run of the settings in force came to or cut off
at its limits, `unlinked` the tweets whose article does not name them on record (never recorded, replaced or cleared: only
the slug can find those), `leaked` that media was left behind by a crash or a failed removal.

**`Subscriptions`.** `subs` maps an id to a row or to `NoSub`; a token is the number of its
generation and 0 is the blank token of an imported row. `req[r]` is a request between two
statements: `Subscribe` reads by address, then `Insert`/`Reload`/`Renew`, `ChooseTags` and
`EnqueueConfirmation` follow, each a step of its own, because `subscriptions.go` opens no
transaction. `FollowConfirmLink`/`Confirm` and `FollowUnsubscribeLink`/`Unsubscribe` look up
by token and write by id. `BatchCreate`, `Vouch`, `SetTags` and `Destroy` are the admin's.
Ghosts: `consent` (who agreed since they last left), `inbox` and `letters` (links delivered),
`abandoned` (requests that ended with an error page).

**`Newsletter`.** The worker of `HandlerRuns` with two job kinds. `sending` is the set of
recipients the handler has still to visit, lowest id first; a send may succeed, fail (logged, the loop goes on)
or be cancelled. The listmonk path is `CreateCampaign` then `StartCampaign`. Settings and article are
read when the job runs. listmonk and SMTP are external and appear by their outcomes.

**`Comments`.** `comments[i]` holds article, parent, status, origin and author address.
`SubmitComment`, `ReadForModeration`, `ReadForReply` read; `InsertComment`, `Moderate`,
`InsertReply`, `NotifyReplyApproved` write later. Deletion cascades (`Subtree`).
`BuildTree` is the page's tree, type by type, as a set of pairs <<root, comment>>.
Ghosts: `decided`, `announced`, `abandoned`.

**`CommentFetch`.** `fetch` holds the handler's locals: the articles still to scan, the batch
fetched for one of them, rows found or made by the first pass, replies the second pass
has still to link. A platform answers with any part of a thread (`MastodonBatches`,
`BlueskyBatches`, `TwitterBatches`). `CronTick`, `EnqueueDueFetch` and `StampFetch` are
the scheduler's tick; `LoadReply` and `SendReplyMail` the notification job.

**`MediaFiles`.** A key numbers a stored blob in order of creation; `aged` says up to which
number a day has passed. `WriteBlob` precedes `InsertRow`; `DeleteRow` precedes `Unlink`. An image gets a variant
(`InsertVariant`) whoever stores it, an upload, a static file or a feed entry; `budget.images` says which of them do in a scene. What follows the row depends on the request: `AttachUpload`, `ImportEntry`
(feed images), `FindStatic`/`CreateStaticFile`/`UpdateStaticFile` with its compare-and-swap
on the old file id, `StaticDestroy`. `PurgeStoredFile` is the check before a static file's row is deleted,
`DestroyArticle` the transaction that deletes an article and collects its files,
`StartReaper`/`ExamineCandidate` the startup sweep with its cutoff and content check.
`bodies` are the file URLs in stored content, which no foreign key protects.
What a removal has read (`doomed`) and the sweep's candidates (`cands`) are sets of `FileRef`s: the id, key and
`variant_of` of a row as it was when it was read. `DeleteRow` deletes by the id and `Unlink` removes by the key, and the row
with that id may be another by then, because ids come back (`NextId`). The foreign keys refuse to delete a row that is
named (`DeleteRefused`) and to name a row that is gone (`Refused`).
Ghosts: `lost`, what a failed statement, a crash or a refused entry let go; `mistaken`, a removal took the row of another file.

**`Bundles`.** The export is `VacuumInto`, `WalkBlobs`, `PackBlob` once per blob, `RenameBundle`;
the import is `CopyTables` (one transaction, rows by id) and `RestoreBlob` once per blob.
`unrestored` and `merged` are ghosts: keys an import merged without their blob, and that it merged at all.
`IdsKeptTheirRows` (neither `merged` nor `mistaken`) is the hypothesis of `EmbeddedIsServed` and `NothingForgotten`.

**`Imports`.** `disk` holds the names under `data/imports`: `import_<base>.part`,
`import_<base>`, the bare name of a copied file and `<base>.queued`. An upload is received,
renamed and enqueued in three steps, a copied file is renamed and enqueued in two.
`OpenSource`, `Extract`, `CopyRows`, `RestoreBlobs`, `FinishImport` are the backup import,
`OpenDocuments`/`FetchFeed`, `ImportDocument` once per document, `FinishMarkdown`/`FinishFeed`
the others. `Boot`, `ListImports`, `ActiveImportPaths`, `RemoveOrphan` are the startup sweep,
`CronReads` and `CronCleans` the daily removal of week-old files. `Declared` adds sizes modulo `Word`, the width of
the counter in `import_db.go`; `FirstFree` is `GenerateSlug`'s loop. Ghosts: `halfway` the bundles whose rows are
committed, from the commit itself, so that a crash before the blobs counts as much as an error; `unkept`, `dropped` and `early` the
sources the code loses (*Known deviations*); `through` the jobs whose handler is done, `shown` the feed entries an
admin chose, `cut` the runs cut off.

**`RateLimiter`.** A call of `Allow` is cut into `LoadOrStore` (`Join`, `Publish`), the
section under `l.mu` (`Stamp`), `sweep` (`Sweep`, also under `l.mu`) and the token
bucket (`Spend`). A sweep is one step: it holds the mutex that guards every later
change of `lastSeen`, and deletions of different keys commute with the `LoadOrStore` of
other requests. `golang.org/x/time/rate` is external: a bucket that gains one credit per
unit of time up to the burst and pays `Cost` credits per request; the code only
calls `Allow`. `Visitors` are addresses; a freed one may be used again.

## Runs

| Run | Shows |
|---|---|
| `queue_single` | one process with crashes, shutdowns, restarts, a failing statement: exclusive execution, attempt budget, one active row per singleton kind, and the refinement `JobQueue` ⇒ `JobLifecycle` |
| `queue_live` | a due row is taken, nudged or not; a wakeup drains what is due when nobody cancels rows |
| `publishing` | undisturbed requests, faults, crashes: a schedule keeps its publish row and a due article is published |
| `publishing_races` | all interleavings without the Publish button: a snapshot is consumed once |
| `page_saves` | one admin, a failing statement, a crash: unless a save stops half-way a scheduled page keeps a publish row and is published; the handler never overrides an admin's status |
| `crosspost` | saves, the scheduled publication and deliberate requests over two platforms: retries repeat only posts that left no URL behind, and saving again makes no second post |
| `twitter_sync` | runs against the settings page, crossposts, re-posts and edits: nothing up to the cursor is skipped, a tweet has one article as long as its row names it, stored media is attached or removed, the stored user id is the username's, the cursor catches up |
| `limiter_races` | every request is decided as by one bucket per client that is never swept |
| `newsletter` | opt-in requests interleaved: whoever was answered with success can still confirm, nobody is active without consent; an issue reaches each recipient, and again only after a run was cut off |
| `comments` | imported threads hang together whatever the order of arrival, decisions outlive fetches, approved replies are announced, mailed again only after a cut, a fetch is stamped only when queued, the page shows exactly what may be shown |
| `files` | rows have their blobs; while ids keep their rows, content embedded within a day is served ever after and nothing on disk is forgotten without a failure; a backup holds the blobs of its rows |
| `imports` | an active import keeps its source, a half-done one, failed or cut off by a crash, keeps it for a retry but for the losses under *Known deviations*, a rerun imports nothing twice, only chosen feed entries come in, declared sizes cannot wrap past the extraction limit |

### Known deviations

Reading the code for the models turned up behaviour that the code's own comments or the user would
not expect. The runs above exclude it by the constant, ghost or scene named; it is listed here so that nobody takes
a passing run for more than it shows.

* *Queue.* A crash and a restart within five minutes leave a row `running` until a later start
  (`main.go:86-89`). Ids are reused: a row read by the worker may be cancelled and its id given
  to a new one before the claim, which then runs before its `run_at` (`jobs.go:51`) or, being
  of another kind, is marked done unexecuted (`worker.go:107`). A lost claim ends the drain with due
  rows left (`worker.go:71`). Follow-up jobs inserted in a transaction are not nudged and wait for the poll (`main.go:81`).
* *Articles* (`Races = FALSE`, `Targets`). A reschedule while the worker claims the old row: the new row takes
  its id, runs at once as a no-op, and the article is not published (`worker.go:119`, `articles.go:386`).
  Publish pressed while the worker publishes enqueues the follow-ups twice (`publish.go:86`). A reschedule
  between the handler's read and its update is published at once (`publish.go:54`). An article restored
  while another request deletes it for good is destroyed (`articles_admin.go:785`).
* *Pages* (one admin, `broken`). Two saves leave page and row with different times (`pages_admin.go:607`); a save
  that stops after the update leaves a scheduled page without a row.
* *Crossposting* (`StaleForms`, `lost`, `blind`). A form opened before the URL was recorded deletes it and posts
  again (`articles.go:373`, `articles.go:644`); an accepted post with a lost answer is repeated (`crosspost.go:373`), so is
  one whose URL could not be stored when a later platform fails (`crosspost.go:349`); a save refreshes
  the URL's timestamp and a deliberate request is skipped (`crosspost.go:378`).
* *Twitter sync* (one admin). Two settings requests compare with rows read before either commits and can keep
  another account's id (`twitter_sync_admin.go:152`).
* *Twitter sync* (`unlinked`). `social_media_posts` keeps one URL per article and platform. A crosspost of an archived article
  or a second post of the same one (`articles.go:645-647`, let through by `crosspost.go:387-405`) overwrites the URL
  of the earlier tweet (`crosspost.go:408-418`), an admin's save can clear or replace it (`articles.go:366-384`), and a failed write never stores
  it. `archiveTweet` then knows that tweet by its slug only, if it has one: a later run, say after a reset of
  the cursor, archives it as a second article (`sync.go:606-618`).
* *Subscriptions and newsletter* (`DestroyRaces`, `abandoned`). A destroyed subscriber's id goes to the next address, and a
  request that still holds it confirms that one. The admin's batch creation stops between its
  statements on an error. `NewsletterReady` does not ask for the listmonk list and template that sending
  needs: the issue is then dropped with a log line.
* *Comments* (`DestroyRaces`). The same reuse of ids; an article destroyed during a submission leaves comments nothing
  shows; an external comment deleted by an admin comes back with the next fetch; a rejected external comment is still displayed;
  an approved local reply to an external comment is counted and not shown; two admins approving at once may notify
  twice; a rate limit ends the scan until the next period.
* *Files* (`lost`, `unrestored`, `merged`, `mistaken`). A crash between blob and row, or between row
  and unlink, leaves a blob nothing reclaims. The purge of a static file ignores content references.
  A file embedded more than a day after its upload may have been reaped. An import overwrites rows by
  id, may name a blob that is being unlinked, and may put a static filename on an upload that is only embedded. The
  compare-and-swap of a static overwrite compares file ids, which are reused (`static_files_admin.go:170-174`). So do
  removals: two of them read the same row (a static file's destruction and the startup sweep beside it),
  the first deletes it, an upload gets its id, and the second deletes the upload's row
  (`static_files_admin.go:340`, `cleanup.go:213`), although `cleanup.go:182-195` says what a reaped row must satisfy. The
  upload's blob stays behind and its URL answers 404.
* *Imports* (`early`, `dropped`, `GivenUp`, `unkept`). The startup sweep reads the payloads after it lists the files: an upload renamed before the
  listing and enqueued after the payloads are read loses its file if the file's time is old
  (`migrates_import.go:194-201`). A web upload whose rows were committed by a run that a crash cut off loses its source when
  the rerun fails before it commits again, because only the rerun's own error is looked at (`import_db.go:755-770`). When crashes use up the
  job's attempts, the upload stays under its `import_` name, which is not listed and which the next start sweeps (`recover.go:31`).
  An upload that cannot be renamed for the retry meets the same sweep (`import_db.go:724`). A shutdown during a web upload's import
  marks the job done and drops the upload (no run has it: the handler is not cancelled in `Imports`). A `.queued` file of a failed import must be renamed by hand. Made-up slugs
  are given again with a suffix on a rerun. Images of refused feed entries wait for the reaper.

### Bounds

Every bound is a constant in a guard: `MaxRows`, `MaxTime`, `MaxFaults`, `MaxCrashes`,
`MaxStarts`, `MaxSaves`, `MaxStall`. `publishing` has two crashes, because a row stranded by the first is requeued by the
start after the second, when the schedule it belonged to may be gone, and four attempts,
so that no fault and crash together use them up. Two rows are what id reuse, the
singleton race and a drain with something left behind need; two or three attempts reach both sides of the
budget's boundary; one fault and one crash can fall at any statement; two or three units of time
put a step before, at and after every cutoff, which the constants keep at 0 or 1 unit;
two admins are the most the races need, as each of them involves two actors. Two
overlapping processes are left to the theorems of `JobQueueProofs`, which hold for any
number. Two platforms are needed for one to fail after another succeeded.
In `limiter_races` the idle time (4) is the refill (2) plus twice the longest call (1),
the least the theorem allows, and the clock goes past it, so entries are swept.
`twitter_sync` has pages of one tweet, two pages and a first-run limit of one, so that three
tweets reach both limits; two accounts and two start dates are what a reset needs, one
tweet is of a filtered kind, `MaxArticles` is never reached, and one fault, shutdown or crash can fall at any step.
`crosspost` has one failure or crash anywhere, and two while a single platform is in use (`Mishaps`).
`newsletter`, `comments`, `files` and `imports` start from *scenes*: each initial state carries a
budget of requests, edits, fetches, faults and crashes for one question (`OptInOrIssue` and `Scenes` in the MC
modules), so that the runs explore several small instances rather than one that is too large. Two requests
interleave in every scene, because every race found needs two actors beside the worker; a scene with a crash
also lets time pass. Threads of two, four files and three documents are the least in which a reply
can precede its parent, a variant, an overwrite and a second upload coexist, and a made-up slug collides.
In `imports` sizes are numbers below `Word` = 16 with a limit of 8, so that sums wrap.
`TypeOK` is checked as a property of `queue_single` alone; the other modules keep it for the proofs.
`CHECK_DEADLOCK FALSE` is set everywhere because an instance stops when its clock, rows
and faults are used up; the program itself never stops.

### Fairness

Only `queue_live`, `publishing`, `page_saves` and `twitter_sync` use it. `JobQueue.Fairness` is weak fairness of the
worker's steps (the Go scheduler runs the goroutine; the 30 s ticker keeps firing), of
the handler's return (network calls carry timeouts), of `Exit` (the shutdown has a
deadline) and of `StartProcess` (`Restart=always` in `deploy/rables.service`). Nothing
is assumed of users, of crashes or of the clock. `Publishing.FairSpec` and
`PagePublishing.PageFairSpec` ask the same of the one worker, and of a page save that has begun, which
runs to its end unless the process dies. `TwitterSync.FairSpec` asks that a run starts again
and again while the sync is enabled (the scheduler looks every 15 minutes, the job queue runs
what is enqueued: `queue_live`) and that a run proceeds (its HTTP client has timeouts).

## Theorems

TLC checks a small instance; these hold for any number of rows, requests, processes,
faults and crashes and for any clock. Each is proved from an inductive invariant that TLC checked first on
the run's instance, action by action, and combined with `PTL`. Every assumption on a constant is a named `ASSUME`
that TLC evaluates in a run. Where a theorem has a hypothesis (`~MayOverlap`, `~Races`,
`OneAdmin`, `~DestroyRaces`), it is the one the run has, and *Known deviations* says what the code does without it.

**`JobQueueProofs`.**

* `TypeCorrect`: `Spec => []TypeOK`. Not by typing alone: no statement checks
  `attempts` against the maximum.
* `Exclusive`: `Spec => []HeldRowsAreExclusive`.
* `Singleton`: `Spec => []SingletonIsSingle`.
* `Budget`: `~MayOverlap /\ Spec => []AttemptBudget`.
* `Refines`: `~MayOverlap /\ Spec => FollowsLifecycle`, the refinement of `JobLifecycle`.
* `Drains`: `Spec => DrainLeavesNothingDue`, an action property: the step back to the select leaves nothing due.

The inductive invariant is `TypeOK /\ HeldRowCarriesClaim /\ HeldRowsAreExclusive`.
`HeldRowCarriesClaim` adds what the two others cannot do without: an active row has budget left (so that
adding one attempt stays in range), a worker past `GetDueJobRun` has a row id and
budget, and a row in hand carries its claim time in `updated_at`. The last part is why
recovery may run beside a live process: it only takes rows claimed before its cutoff,
and `MayStart` admits no process while a live claim is that old. `Singleton` adds its own statement.
`Budget` adds `ExecutionsAreCharged`: one process is up, the attempts of a queued row account for its charged
executions, those of a running row for all but the one under way, and so do the attempts the worker read, even when
its id was given to a newer row meanwhile. With two processes up, the bookkeeping write of one could put back attempts
that the other had charged; `Refines` maps
each action on the table to the lifecycle action of one row and rests on the same invariant.

**`RateLimiterProofs`.**

* `LimiterDecides`: if `MaxIdle >= Full + 2 * MaxStall` then `Spec => []DecidesLikeOneBucket`.

The invariant relates each entry to the never-swept bucket of its key: equal credit
while the entry is in the map, full credit when it is not, and a lower bound on the credit
that grows with the age of the entry's stamp, so that an entry old enough to be swept is
full. `2 * MaxStall` is there because a request stamps with the time at which it began:
a slow request can move a stamp back, and spends later than it stamps. The login, user
and comment limiters leave minutes of room; the subscription limiter (5 per hour)
has `MaxIdle = Full` exactly, so that the theorem covers it only for calls that take no
time, and a call in progress for some milliseconds may gain as many milliseconds of refill.

**`HandlerRunsProofs`** has the lemmas the job handlers share: what each statement of the
worker does to each row, and that a row in hand stays `running` with an attempt left (`RunInv`).

**`PublishingProofs`.**

* `TypesHold`: types, with `RunInv`.
* `ConsumedOnce`: `"publish" \notin Targets /\ Spec => []SnapshotConsumedOnce`.
* `Covered`: `~Races /\ Spec => []ScheduledArticleHasJob`.

A snapshot carries the number of the save that stored it. `OnceInv` says that the numbers of future
saves, the snapshot of a scheduled article and the one the handler has read were not consumed:
the flip out of `schedule` is the only step that consumes, and its `WHERE status` makes it the last for that number.
`CoverInv` says that some row covers the schedule (active for its time or later, or out of attempts, and not about
to be booked as done) and that the row the worker picked was due, so that what it finishes is no later schedule's row.

The same module extends `PagePublishing` and `Crosspost`, whose names differ from `Publishing`'s for that, because all run on the
worker of `HandlerRuns` and need its lemmas. About `PagePublishing` it proves:

* `PageTypesHold`: types.
* `PageCovered`: `(\A a, b \in Admins : a = b) /\ PageSpec => []ScheduledPageHasJob`. With two admins it is
  false: the statements of two saves can interleave so that the row left is the earlier schedule's.
* `HandlerYields`: `PageSpec => HandlerRespectsAdmins`, for any number of admins.

`PageCoverInv` adds to `CoverInv` what the missing transaction leaves open: a save between its statements works for the schedule the
page has (`SavesAgree`), and coverage is claimed only between requests. `PickedStays`: the row the worker picked was due and is still there,
because `CancelJobs` marks rows failed and deletes none.

and `Crosspost`, in the same way:

* `OnePost`: `~StaleForms /\ CrosspostSpec => []RetriesRepeatOnlyUnrecorded`.

`OnceEach` says where a post is that is not among the unrecorded ones: in the worker's hand, or in `social_media_posts` with a
timestamp no older than the request (`UrlRecordedSince`), which keeps the worker from `act`; so there is at most one. It needs that an open
form shows the URLs in force (`FormIsCurrent`, false with `StaleForms`) and that new rows come after the old
ones (`RowsArePrefix`), so that a row's payload stays the request its posts were made for (`RequestsArePast`).

**`TwitterSyncProofs`.**

* `TypesHold`: types, and that a run works on tweets that exist.
* `OneArticle`: `Spec => []OneArticlePerTweet`. Invariant `OnRecord`: the URL on record for an article is that of each of its tweets that is not
  unlinked (`Linked`), so of at most one, and no article has the tweet of the open transaction unless it is unlinked (`NewHere`).
* `MediaAttached`: `Spec => []StoredMediaIsAttached`.
* `IdMatches`: `OneAdmin /\ Spec => []UserIdMatchesUsername`. Needs `ReadIsCurrent`: an open settings request has read
  the settings in force, which two open ones would break.
* `NothingSkipped`: `OneAdmin /\ Spec => []CursorSkipsNothing`. `CursorInv` follows a run: while it fetches, its
  pages hold a stretch of the tweets in scope without a gap (`NoGap`); while it archives, every tweet in scope up to the newest
  it got is to be archived, was come to or was cut off by a limit (`Accounted`), so that the cursor it stores at the end skips nothing.

**`NewsletterProofs`** (about `Subscriptions` and `Newsletter`).

* `TypesHold`: types, one row per address, and a request that goes on to write has an address and an id.
* `RepeatsAreInterruptions`: `Spec => []IssueRepeatsOnlyAfterInterruption`.
* `DoneIsComplete`: `Spec => []DoneIssueVisitedEveryone`.
* `MailedWithConsent`, `PendingIsConfirmable`: `~DestroyRaces /\ Spec => []ActiveMeansConsent`, `[]PendingCanConfirm`.

`IssueInv`: there is one job per issue; no address is twice on the handler's list; and what reached an address is at most one
more than the runs cut off, with one to spare for the addresses still on the list and, before the list is made, for all (`Unsent`).
`OptInInv`: a request between two statements holds the id of the row of its own address (`HeldRow`, which `DestroyRaces` would
break), every row has a token, and the mail of a pending row is promised by a request, in the queue, or in the inbox with the row's
present token (`Awaited`).

**`CommentFetchProofs`** (about `Comments` and `CommentFetch`).

* `TypesHold`: types, a batch is of one article's thread, a request that writes by id has read a row.
* `DecisionsOutlive`: `Spec => []DecisionsOutliveFetches`.
* `ReplyMails`: `Spec => []ReplyMailRepeatsOnlyAfterCut`.
* `StampFollows`: `Spec => []StampFollowsEnqueue`.
* `BatchThreaded`, `ReplyAnnounced`: `~DestroyRaces /\ Spec => []BatchIsThreaded`, `[]ApprovedReplyAnnounced`.

`OneRowEach`: a comment of a platform has one row, on the article whose post it answers, and a lookup that found none is
still right at the insert, because one job imports at a time. `Threading` follows the two
passes: the row known for a comment is its row or gone for good; before the second pass comes to a reply the stored parent is the
one that was read, afterwards it is the row of the comment answered. `ParentsStand` is the foreign key, kept by
`Subtree` being closed under replies. `Announcing`: a reply that stands
approved with someone to tell is announced, abandoned, or in a request that read another status; and a request that
read `approved` may skip the mail because somebody already stands for it (`RequestTold`).
`MailsCounted` is the counterpart of `IssueInv`. `Subtree` is the least set with the comment that contains the replies of its
members, a definition that can be reasoned about without induction; the scenes start from local comments, and `SeedAssumption` says that a
reply among them follows its parent and is not approved yet.

**`BundlesProofs`** (about `MediaFiles` and `Bundles`). The one assumption is `MediaAssumption`, about ids and names.

* `BundleTypes`: `Spec => []TypeOK`.
* `RowsHaveBlobs`: `Spec => []RowHasBlob`.
* `BackupsHoldTheirBlobs`: `Spec => []BundleHoldsItsBlobs`.
* `KeysHaveOneHome`: `Spec => []OneHome`.
* `EmbeddedStaysServed`: `Spec => []EmbeddedIsServed`.
* `NothingIsForgotten`: `Spec => []NothingForgotten`.

`RowInv` is the invariant of the first four. A removal unlinks a key it read some steps ago and asks no row again, and the
id it deleted by may be another file's by then. What saves the blobs is `OneHome`: a key belongs to one id for ever, in the
table, in a backup's copy and in whatever a request or the sweep read earlier, so that once a removal has deleted *whatever row
had the id*, no row has its key (`UnlinkedHasNoRow`) and only an import can bring one back, which `unrestored` counts.
`Fresh` keeps that true of new rows: a key about to be inserted is known under no id. `BackupHolds` follows an export: each row of the
database copy has its blob in the zip, or still to be packed, or no longer on disk.
`EmbedInv` is stated under `IdsKeptTheirRows`. An embedded key was issued and has a row (`EmbeddedHasRow`); no removal, and no
candidate of the sweep that content named when it was examined, holds a key whose URL somebody has or may still be given
(`RemovalsSpare`, `Spared`): a removal reads rows of static files and variants, whose URLs nobody has (`StaticsUntaken`,
`VariantsUntaken`), of articles' files that content does not name in the same transaction, of an upload nobody was told of
(`OwnKeys`), or of files older than a day, which nobody embeds any more.

`ForgetInv` rests on both and says what each blob and each row is there for. A blob has a row, was let go, or is the one a
request is about to insert a row for or to unlink (`BlobsCovered`). A row's original has an issued key or a `static_files` row,
or the row was let go, or a request covers it (`RowsCovered`, `Covers`): it holds the file it stored, the static file it
is about to purge, or the row is in the family it is removing. For a step not to break that, what a request has read must not
miss a variant: the request that stored a file is done with its variant before it names the file, no stored file gets one behind a
removal's back (`FamilyWhole`), static files are originals (`StaticsOriginal`), and what was read as an original is one as long as its
row is there (`RootRead`). It is stated under `IdsKeptTheirRows` too.
The key of a covered row is in what `HeldKeys` reads of its request, which is what a failed statement or a crash adds to
`lost`: that is how a row passes from one disjunct to the other.

Only model-checked, out of the prover's reach: the liveness properties (`DueRowIsTaken`, `ScheduledArticleIsPublished`, `ScheduledPageIsPublished`, `CursorCatchesUp`); `TreeShowsEachOnce`,
`SavingNeverDuplicates`, `OnlyChosenEntries` and `ExtractIsBounded`, which are about folds and filtered sequences and would need
induction over data. Only model-checked so far: the other invariants of `Imports` (see the plan).

## Not modelled

Rendering, text processing and configuration have no state. The contents of an article,
tags, slugs and the files of `Save` and `Destroy` are left out of `Publishing`; cached
platform sessions, media upload and message texts are left out of `Crosspost`;
clearing a URL field on purpose is too, because it is the documented way to ask for a second post.
`TwitterSync` leaves out link resolution, content conversion, the crosspost platform being disabled
(a run then returns at once) and slugs of the form `tweet-<id>` an admin types.
`job_runs.last_error` and the activity log are write-only.

`Newsletter` leaves out the rendering of mails and the test mail; `CommentFetch` the
requests to the platforms and the parsing of their answers; `MediaFiles` image resizing and range
requests; `Imports` the parsing of front matter, feeds and archives, and the markdown export. Tags are found or created by
name with a retry on the unique index, renamed and destroyed in one transaction each; redirects
are single statements and one transaction; sessions and the first user are single statements: none has
a step between which another could fall. The settings cache loads under its mutex and is invalidated after a write; HTML
archives are staged and renamed by one request. Both are left for later. The due computations of the scheduler are functions of
calendar time. The public site reads.

## Plan

1. Proofs: `ActiveImportOwnsSource`, `HalfImportKeepsSource`.
2. `DueSchedule`: the due computations as functions against a reference definition.
3. The settings cache, redirects and html archives.
