------------------------------ MODULE Imports ------------------------------
(***************************************************************************)
(* Imports: an upload or a file copied to data/imports is handed from the  *)
(* request to an import job by its name on disk, while a starting process  *)
(* sweeps what no job names and a daily tick removes what is a week old.   *)
(* The jobs merge a backup, or import markdown documents or feed entries   *)
(* one by one, and a run that a crash cut off is run again.                *)
(***************************************************************************)
EXTENDS HandlerRuns, FiniteSets, SequencesExt

CONSTANTS
    Requests,     \* requests that may be under way at once
    Bases,        \* generated names of uploads, and names of copied files
    Content,      \* what the file of a name holds
    Feed,         \* the entries the feed may come to carry, in order
    MaxItems,     \* import_rss.go: MaxImportItems
    MaxExtract,   \* import_db.go: MaxImportExtractBytes
    Word,         \* sizes are unsigned numbers below this
    Budgets       \* bound: what a behaviour may ask

VARIABLES
    disk,      \* data/imports: [base, form]
    stages,    \* extract_* directories: the job each is for
    aged,      \* bases last written more than a week ago
    req,       \* requests under way
    sweep,     \* CleanupOrphanImportFiles of a starting process
    cron,      \* cleanOldExports of the daily tick
    handler,   \* locals of the running handler
    site,      \* rows and blobs that imports brought in
    articles,  \* articles and pages: [type, slug, n, from], n the suffix of a made-up slug
    feed,      \* how many entries the feed carries now
    budget,    \* what may still be asked
    ghost      \* history the properties speak of

transferVars == <<disk, stages, aged, req, sweep, cron, handler, site, articles, feed, budget, ghost>>
vars == <<runVars, transferVars>>

(* import_<base>.part, import_<base>, <base> and <base>.queued.             *)
Forms == {"part", "import", "plain", "queued"}
File(b, form) == [base |-> b, form |-> form]
Files == [base : Bases, form : Forms]

IsZip(b) == Content[b].kind \notin {"database", "foreign"}
IsMarkdown(b) == Content[b].kind = "markdown"

(* Job payloads.  keep_on_failure is set for copied files only.             *)
PathJob(b, form) == [job |-> IF IsMarkdown(b) THEN "import_markdown" ELSE "import_db", base |-> b, form |-> form, links |-> {}]
RSSJob(links) == [job |-> "import_rss", base |-> "", form |-> "plain", links |-> links]

Idle == [pc |-> "idle", base |-> "", form |-> "plain", links |-> {}]
Off == [pc |-> "off", old |-> {}, todo |-> {}, dirs |-> {}]
NoHandler == [result |-> "none", todo |-> <<>>]

Documents == [slug : STRING, given : BOOLEAN, type : {"article", "page"}]

Entries == {Feed[n].slug : n \in 1..Len(Feed)}

ASSUME ImportsAssumption ==
    /\ "" \notin Bases /\ Content \in [Bases -> [kind : {"bundle", "database", "foreign", "markdown", "other"},
                                               sizes : Seq(0..(Word - 1)), docs : Seq(Documents)]]
    /\ MaxItems \in Nat /\ MaxExtract \in 0..(Word - 1)
    /\ Feed \in Seq(Documents)

Init ==
    /\ RunInit
    /\ budget \in Budgets
    /\ disk = {File(b, "plain") : b \in budget.copied}
    /\ stages = {} /\ aged = {}
    /\ req = [r \in Requests |-> Idle]
    /\ sweep = Off /\ cron = [pc |-> "off", protected |-> {}] /\ handler = NoHandler
    /\ site = [rows |-> {}, blobs |-> {}]
    /\ articles = {} /\ feed = 1
    /\ ghost = [early |-> {}, halfway |-> {}, unkept |-> {}, dropped |-> {}, shown |-> {}, through |-> {}, cut |-> 0]

(* Types.                                                                   *)
TypeOK ==
    /\ RunTypeOK
    /\ disk \subseteq Files /\ stages \subseteq JobIds /\ aged \subseteq Bases
    /\ site.rows \subseteq Bases /\ site.blobs \subseteq Bases
    /\ feed \in 1..Len(Feed)
    /\ sweep.pc \in {"off", "list", "read", "remove"} /\ sweep.todo \subseteq Files

-----------------------------------------------------------------------------
Spend(what) == budget[what] > 0 /\ budget' = [budget EXCEPT ![what] = @ - 1]

Fault == faults < MaxFaults /\ faults' = faults + 1

At_(r, fields) == req' = [req EXCEPT ![r] = fields @@ @]

End(r) == req' = [req EXCEPT ![r] = Idle]

(* Queued or running rows of the import kinds that name a file.             *)
ActiveImports == {i \in JobIds : jobs[i].status \in {"queued", "running"} /\ jobs[i].kind.job # "import_rss"}

ListActiveImportJobPayloads == {File(jobs[i].kind.base, jobs[i].kind.form) : i \in ActiveImports}

ImportDBActive == \E i \in ActiveImports : jobs[i].kind.job = "import_db"

-----------------------------------------------------------------------------
(* Requests.                                                                *)

(* An upload starts to arrive under its .part name.                         *)
Arrives(r, b, pc) ==
    /\ Serving /\ req[r] = Idle
    /\ b \in budget.uploads /\ budget' = [budget EXCEPT !.uploads = @ \ {b}]
    /\ disk' = disk \cup {File(b, "part")}
    /\ At_(r, [pc |-> pc, base |-> b, form |-> "import"])
    /\ UNCHANGED <<runVars, stages, aged, sweep, cron, handler, site, articles, feed, ghost>>

ReceiveBackup(r) == \E b \in Bases : ~IsMarkdown(b) /\ Arrives(r, b, "stream")

(* One archive is stored as it is, picked documents are packed into one.    *)
ReceiveMarkdown(r) == \E b \in Bases, pc \in {"stream", "pack"} : IsMarkdown(b) /\ Arrives(r, b, pc)

(* The complete file is renamed; a write or a rename that fails removes it. *)
(* The last write may lie before the start of a process that sweeps.        *)
Store(r, renamed) ==
    LET part == File(req[r].base, "part") IN
    /\ IF renamed /\ part \in disk
       THEN disk' = (disk \ {part}) \cup {File(req[r].base, "import")} /\ At_(r, [pc |-> "enqueue"])
       ELSE disk' = disk \ {part} /\ End(r)
    /\ sweep' \in {sweep, [sweep EXCEPT !.old = @ \ {req[r].base}]}
    /\ UNCHANGED <<clock, jobs, runner, crashes, stages, aged, cron, handler, site, articles, feed, budget, ghost>>

SaveImportUpload(r) ==
    /\ req[r].pc = "stream"
    /\ \/ Store(r, TRUE) /\ UNCHANGED faults
       \/ Fault /\ Store(r, FALSE)

(* The picked files are written one after the other; any may fail.          *)
SaveImportMarkdownZip(r) ==
    /\ req[r].pc = "pack"
    /\ \/ Store(r, TRUE) /\ UNCHANGED faults
       \/ Fault /\ Store(r, FALSE)

(* Neither uploads nor .queued files; of a copied file's extensions only    *)
(* those of a backup.                                                       *)
ListImportFiles == {b \in Bases : File(b, "plain") \in disk /\ ~IsMarkdown(b)}

(* import_server: a listed file, and none queued under its name.            *)
LeftoverQueued(b) == File(b, "queued") \in disk

SubmitServerFile(r) ==
    /\ Serving /\ req[r] = Idle /\ Spend("submits")
    /\ \E b \in ListImportFiles :
        /\ ~LeftoverQueued(b)
        /\ At_(r, [pc |-> "rename", base |-> b, form |-> "queued"])
    /\ UNCHANGED <<runVars, disk, stages, aged, sweep, cron, handler, site, articles, feed, ghost>>

RenameQueued(r) ==
    LET plain == File(req[r].base, "plain") IN
    /\ req[r].pc = "rename"
    /\ IF plain \in disk
       THEN disk' = (disk \ {plain}) \cup {File(req[r].base, "queued")} /\ At_(r, [pc |-> "enqueue"])
       ELSE End(r) /\ UNCHANGED disk
    /\ UNCHANGED <<runVars, stages, aged, sweep, cron, handler, site, articles, feed, budget, ghost>>

(* The job takes the file over; a failed enqueue removes an upload and      *)
(* renames a copied file back.                                              *)
EnqueueImport(r) ==
    LET q == req[r]
        file == File(q.base, q.form) IN
    /\ q.pc = "enqueue" /\ End(r)
    /\ \/ /\ \E i \in JobIds : IsNextRowId(jobs, i) /\ jobs' = EnqueueJobRun(jobs, i, PathJob(q.base, q.form), clock, clock)
          /\ ghost' = IF file \notin disk \/ (sweep.pc = "remove" /\ file \in sweep.todo)
                      THEN [ghost EXCEPT !.early = @ \cup {file}] ELSE ghost
          /\ UNCHANGED <<disk, faults>>
       \/ /\ Fault
          /\ disk' = (disk \ {file}) \cup (IF q.form = "queued" /\ file \in disk THEN {File(q.base, "plain")} ELSE {})
          /\ UNCHANGED <<jobs, ghost>>
    /\ UNCHANGED <<clock, runner, crashes, stages, aged, sweep, cron, handler, site, articles, feed, budget>>

(* An admin renames the file a failed import kept, to submit it again, or   *)
(* copies the file of a name once more, when no import of it is under way.  *)
AdminPlacesFile ==
    /\ Spend("places")
    /\ \E b \in Bases :
        /\ \A r \in Requests : req[r].base # b
        /\ \A i \in ActiveImports : jobs[i].kind.base # b
        /\ \/ /\ File(b, "queued") \in disk /\ File(b, "plain") \notin disk
              /\ disk' = (disk \ {File(b, "queued")}) \cup {File(b, "plain")}
           \/ /\ b \in budget.copied /\ File(b, "plain") \notin disk
              /\ disk' = disk \cup {File(b, "plain")}
    /\ UNCHANGED <<runVars, stages, aged, req, sweep, cron, handler, site, articles, feed, ghost>>

(* import_rss: the entries that carry a link, at most MaxItems, are shown.  *)
PreviewItems == {Feed[n].slug : n \in 1..Min({feed, MaxItems})}

PreviewFeed(r) ==
    /\ Serving /\ req[r] = Idle /\ Spend("feeds")
    /\ At_(r, [pc |-> "pick", links |-> PreviewItems])
    /\ UNCHANGED <<runVars, disk, stages, aged, sweep, cron, handler, site, articles, feed, ghost>>

(* Faulty: a form without a selection is accepted. *)
MutSelection(shown) == SUBSET shown

Selection(shown) == SUBSET shown \ {{}}

(* import_rss_confirm: the chosen links, trimmed to MaxItems.               *)
ConfirmFeed(r) ==
    /\ Serving /\ req[r].pc = "pick" /\ End(r)
    /\ \E links \in Selection(req[r].links), i \in JobIds :
        /\ IsNextRowId(jobs, i)
        /\ jobs' = EnqueueJobRun(jobs, i, RSSJob(links), clock, clock)
        /\ ghost' = [ghost EXCEPT !.shown = @ \cup links]
    /\ UNCHANGED <<clock, runner, faults, crashes, disk, stages, aged, sweep, cron, handler, site, articles, feed, budget>>

FeedPublishes ==
    /\ feed < Len(Feed) /\ Spend("entries")
    /\ feed' = feed + 1
    /\ UNCHANGED <<runVars, disk, stages, aged, req, sweep, cron, handler, site, articles, ghost>>

-----------------------------------------------------------------------------
(* import_db.                                                               *)

Running(job) == runner.pc \in {"load", "visit", "act", "write"} /\ jobs[runner.id].kind.job = job

Here == jobs[runner.id].kind

Source == File(Here.base, Here.form)

(* The import is over; the handler has yet to dispose of the source.        *)
Ends(result) == handler' = [handler EXCEPT !.result = result] /\ UNCHANGED runner

Goes(pc) == runner' = [runner EXCEPT !.pc = pc] /\ UNCHANGED handler

(* isZipBundle; a bundle gets a staging directory, a database is attached.  *)
OpenSource ==
    /\ runner.pc = "load" /\ Running("import_db") /\ handler.result = "none"
    /\ CASE Source \notin disk -> Ends("failed") /\ UNCHANGED stages
         [] Source \in disk /\ IsZip(Here.base) -> Goes("visit") /\ stages' = stages \cup {runner.id}
         [] OTHER -> Goes("act") /\ UNCHANGED stages
    /\ UNCHANGED <<clock, jobs, faults, crashes, disk, aged, req, sweep, cron, site, articles, feed, budget, ghost>>

(* Faulty: the declared sizes are added up first and compared afterwards. *)
MutDeclared(sizes) == FoldLeft(LAMBDA total, n : (total + n) % Word, 0, sizes)

(* extractImportZip adds up the declared sizes in 64 bits, comparing each   *)
(* with what is left before adding it; Word stands for a refusal.           *)
Declared(sizes) ==
    FoldLeft(LAMBDA total, n : IF total = Word \/ n > MaxExtract - total THEN Word ELSE (total + n) % Word, 0, sizes)

FindBundleDB(b) == Content[b].kind = "bundle"

Extract ==
    /\ runner.pc = "visit" /\ Running("import_db") /\ handler.result = "none"
    /\ \/ /\ IF Declared(Content[Here.base].sizes) <= MaxExtract /\ FindBundleDB(Here.base) /\ runner.id \in stages
             THEN Goes("act") ELSE Ends("failed")
          /\ UNCHANGED faults
       \/ Fault /\ Ends("failed")
    /\ UNCHANGED <<clock, jobs, crashes, disk, stages, aged, req, sweep, cron, site, articles, feed, budget, ghost>>

(* The tables of another program's database are not those of this one.      *)
CheckSourceSchema(b) == Content[b].kind # "foreign"

(* copyTables: one transaction, into which a bare database is attached.     *)
CopyRows ==
    /\ runner.pc = "act" /\ Running("import_db") /\ handler.result = "none"
    /\ \/ /\ (IsZip(Here.base) \/ Source \in disk) /\ CheckSourceSchema(Here.base)
          /\ site' = [site EXCEPT !.rows = @ \cup {Here.base}]
          /\ IF IsZip(Here.base)
             THEN Goes("write") /\ ghost' = [ghost EXCEPT !.halfway = @ \cup {Here.base}]
             ELSE Ends("ok") /\ UNCHANGED ghost
          /\ UNCHANGED faults
       \/ /\ ~IsZip(Here.base) /\ (Source \notin disk \/ ~CheckSourceSchema(Here.base))
          /\ Ends("failed") /\ UNCHANGED <<site, faults, ghost>>
       \/ Fault /\ Ends("failed") /\ UNCHANGED <<site, ghost>>
    /\ UNCHANGED <<clock, jobs, crashes, disk, stages, aged, req, sweep, cron, articles, feed, budget>>

(* restoreBlobs, restoreArchives.                                           *)
RestoreBlobs ==
    /\ runner.pc = "write" /\ Running("import_db") /\ handler.result = "none"
    /\ \/ site' = [site EXCEPT !.blobs = @ \cup {Here.base}] /\ Ends("ok") /\ UNCHANGED faults
       \/ Fault /\ Ends("committed") /\ UNCHANGED site
    /\ UNCHANGED <<clock, jobs, crashes, disk, stages, aged, req, sweep, cron, articles, feed, budget, ghost>>

(* Faulty: a web upload is removed whatever became of it. *)
MutDisposed(result) == result = "ok" \/ Here.form # "queued"

(* The source goes after a success, and after a failure that committed      *)
(* nothing unless it is a copied file.                                      *)
Disposed(result) == result = "ok" \/ (Here.form # "queued" /\ result # "committed")

(* keepImportUploadForRetry: without the prefix the upload is listed.       *)
Kept == IF Here.form = "import" /\ Source \in disk THEN (disk \ {Source}) \cup {File(Here.base, "plain")} ELSE disk

(* An earlier run of an upload committed, and this one failed before it did.*)
DropsHalfImport == handler.result = "failed" /\ Here.form = "import"

(* The staging directory goes and the source is disposed of; the run counts *)
(* as done whatever came of it.                                             *)
FinishImport ==
    /\ Running("import_db") /\ handler.result # "none"
    /\ stages' = stages \ {runner.id}
    /\ \/ /\ disk' = IF Disposed(handler.result) THEN disk \ {Source}
                     ELSE IF handler.result = "committed" THEN Kept ELSE disk
          /\ ghost' = [ghost EXCEPT !.through = @ \cup {runner.id},
                                    !.dropped = @ \cup (IF DropsHalfImport THEN {Here.base} \cap ghost.halfway ELSE {})]
          /\ UNCHANGED faults
       \/ /\ ~Disposed(handler.result) /\ handler.result = "committed" /\ Fault
          /\ ghost' = [ghost EXCEPT !.through = @ \cup {runner.id}, !.unkept = @ \cup {Here.base}]
          /\ UNCHANGED disk
    /\ handler' = NoHandler
    /\ runner' = [runner EXCEPT !.pc = "book", !.outcome = "ok"]
    /\ UNCHANGED <<clock, jobs, crashes, aged, req, sweep, cron, site, articles, feed, budget>>

-----------------------------------------------------------------------------
(* import_markdown and import_rss: one document after the other.            *)

(* A missing or unreadable source ends the run.                             *)
OpenDocuments ==
    /\ runner.pc = "load" /\ Running("import_markdown")
    /\ IF Source \in disk
       THEN /\ handler' = [NoHandler EXCEPT !.todo = Content[Here.base].docs]
            /\ runner' = [runner EXCEPT !.pc = "visit"]
       ELSE UNCHANGED handler /\ runner' = [runner EXCEPT !.pc = "act"]
    /\ UNCHANGED <<clock, jobs, faults, crashes, disk, stages, aged, req, sweep, cron, site, articles, feed, budget, ghost>>

(* ImportOnly: the chosen entries of the feed as it is now; no choice means *)
(* every entry.                                                             *)
Chosen(links) ==
    LET now == SubSeq(Feed, 1, feed)
        kept == IF links = {} THEN now ELSE SelectSeq(now, LAMBDA e : e.slug \in links) IN
    SubSeq(kept, 1, Min({Len(kept), MaxItems}))

FetchFeed ==
    /\ runner.pc = "load" /\ Running("import_rss")
    /\ \/ /\ handler' = [NoHandler EXCEPT !.todo = Chosen(Here.links)]
          /\ runner' = [runner EXCEPT !.pc = "visit"] /\ UNCHANGED faults
       \/ Fault /\ runner' = [runner EXCEPT !.pc = "act"] /\ UNCHANGED handler
    /\ UNCHANGED <<clock, jobs, crashes, disk, stages, aged, req, sweep, cron, site, articles, feed, budget, ghost>>

(* Articles and pages have their slugs apart. *)
Taken(doc, n) == \E a \in articles : a.type = doc.type /\ a.slug = doc.slug /\ a.n = n

(* uniqueSlugFrom: -1, -2, ... until the slug is free.                      *)
FirstFree(doc) == CHOOSE n \in 0..Cardinality(articles) : ~Taken(doc, n) /\ \A k \in 0..(n - 1) : Taken(doc, k)

(* Faulty: every taken slug gets a suffix. *)
MutSuffix(doc) == FirstFree(doc)

(* GenerateSlug: a slug that is given, or parameterized from the title, is  *)
(* used as it is; one that is derived otherwise gets the first free suffix. *)
Suffix(doc) == IF doc.given THEN 0 ELSE FirstFree(doc)

(* A taken slug or a failing statement skips the document.                  *)
Insert(doc) ==
    \/ /\ ~Taken(doc, Suffix(doc))
       /\ articles' = articles \cup {[type |-> doc.type, slug |-> doc.slug, n |-> Suffix(doc), from |-> Here.job]}
       /\ UNCHANGED faults
    \/ Taken(doc, Suffix(doc)) /\ UNCHANGED <<articles, faults>>
    \/ Fault /\ UNCHANGED articles

ImportArticle(doc) == doc.type = "article" /\ Insert(doc)

ImportPage(doc) == doc.type = "page" /\ doc.given /\ Insert(doc)

ImportDocument ==
    LET doc == Head(handler.todo) IN
    /\ runner.pc = "visit" /\ (Running("import_markdown") \/ Running("import_rss"))
    /\ handler.todo # <<>> /\ handler' = [handler EXCEPT !.todo = Tail(@)]
    /\ ImportArticle(doc) \/ ImportPage(doc)
    /\ UNCHANGED <<clock, jobs, runner, crashes, disk, stages, aged, req, sweep, cron, site, feed, budget, ghost>>

Finish(job) ==
    /\ Running(job)
    /\ runner.pc = "act" \/ (runner.pc = "visit" /\ handler.todo = <<>>)
    /\ ghost' = [ghost EXCEPT !.through = @ \cup {runner.id}]
    /\ runner' = [runner EXCEPT !.pc = "book", !.outcome = "ok"]
    /\ UNCHANGED <<clock, jobs, faults, crashes, stages, aged, req, sweep, cron, handler, site, articles, feed, budget>>

(* The upload is removed however the run ended.                             *)
FinishMarkdown == Finish("import_markdown") /\ disk' = disk \ {Source}

FinishFeed == Finish("import_rss") /\ UNCHANGED disk

-----------------------------------------------------------------------------
(* CleanupOrphanImportFiles of a process that starts, after a crash or      *)
(* beside another process in a rolling deploy.                              *)

Boot ==
    /\ sweep = Off /\ Spend("starts")
    /\ sweep' = [Off EXCEPT !.pc = "list", !.old = {f.base : f \in disk}, !.dirs = stages]
    /\ UNCHANGED <<runVars, disk, stages, aged, req, cron, handler, site, articles, feed, ghost>>

(* Prefixed files and staging directories last written before the start.    *)
ListImports ==
    /\ sweep.pc = "list"
    /\ sweep' = [sweep EXCEPT !.pc = "read", !.dirs = @ \cap stages,
                              !.todo = {f \in disk : f.form \in {"part", "import"} /\ f.base \in sweep.old}]
    /\ UNCHANGED <<runVars, disk, stages, aged, req, cron, handler, site, articles, feed, budget, ghost>>

(* Faulty: the payloads of waiting jobs are not read. *)
MutProtected == {f \in ListActiveImportJobPayloads : \E i \in JobIds : jobs[i].status = "running" /\ jobs[i].kind.base = f.base}

Protected == ListActiveImportJobPayloads

(* activeImportPaths: what an active job names stays, and so do all staging *)
(* directories while an import_db job is active.                            *)
ActiveImportPaths ==
    /\ sweep.pc = "read"
    /\ sweep' = [sweep EXCEPT !.pc = "remove", !.todo = @ \ Protected, !.dirs = IF ImportDBActive THEN {} ELSE @]
    /\ UNCHANGED <<runVars, disk, stages, aged, req, cron, handler, site, articles, feed, budget, ghost>>

RemoveOrphan ==
    /\ sweep.pc = "remove"
    /\ \/ \E f \in sweep.todo : disk' = disk \ {f} /\ sweep' = [sweep EXCEPT !.todo = @ \ {f}] /\ UNCHANGED stages
       \/ sweep.todo = {} /\ stages' = stages \ sweep.dirs /\ sweep' = Off /\ UNCHANGED disk
    /\ UNCHANGED <<runVars, aged, req, cron, handler, site, articles, feed, budget, ghost>>

-----------------------------------------------------------------------------
(* cleanOldExports of the daily tick.                                       *)

(* A week goes by with no request under way; a job may wait that long.      *)
AWeekPasses ==
    /\ Spend("weeks") /\ sweep = Off /\ cron.pc = "off"
    /\ \A r \in Requests : req[r] = Idle
    /\ runner.pc \in {"idle", "down"}
    /\ aged' = {f.base : f \in disk}
    /\ UNCHANGED <<runVars, disk, stages, req, sweep, cron, handler, site, articles, feed, ghost>>

(* The protected paths, or every upload when they cannot be read.           *)
CronReads ==
    /\ Serving /\ cron.pc = "off" /\ aged # {} /\ Spend("crons")
    /\ \/ cron' = [pc |-> "clean", protected |-> Protected] /\ UNCHANGED faults
       \/ Fault /\ cron' = [pc |-> "clean", protected |-> Files]
    /\ UNCHANGED <<clock, jobs, runner, crashes, disk, stages, aged, req, sweep, handler, site, articles, feed, ghost>>

CronCleans ==
    /\ Serving /\ cron.pc = "clean"
    /\ disk' = {f \in disk : f.form # "import" \/ ~IsZip(f.base) \/ f.base \notin aged \/ f \in cron.protected}
    /\ cron' = [pc |-> "off", protected |-> {}]
    /\ UNCHANGED <<runVars, stages, aged, req, sweep, handler, site, articles, feed, budget, ghost>>

-----------------------------------------------------------------------------
(* The process.  Requests, the tick and the handler die with it; a sweep is *)
(* one of another process, or is cut off as well.                           *)
CrashProcess ==
    /\ Crash
    /\ req' = [r \in Requests |-> IF req[r].pc = "pick" THEN req[r] ELSE Idle]
    /\ cron' = [pc |-> "off", protected |-> {}] /\ handler' = NoHandler
    /\ sweep' \in {sweep, Off}
    /\ ghost' = IF runner.pc \in {"load", "visit", "act", "write", "book"} THEN [ghost EXCEPT !.cut = @ + 1] ELSE ghost
    /\ UNCHANGED <<disk, stages, aged, site, articles, feed, budget>>

RunStep == (GetDue \/ Claim \/ Book \/ Restart \/ Tick) /\ UNCHANGED transferVars

WebStep ==
    \/ \E r \in Requests :
          \/ ReceiveBackup(r) \/ ReceiveMarkdown(r) \/ SaveImportUpload(r) \/ SaveImportMarkdownZip(r)
          \/ SubmitServerFile(r) \/ RenameQueued(r) \/ EnqueueImport(r)
          \/ PreviewFeed(r) \/ ConfirmFeed(r)
    \/ AdminPlacesFile \/ FeedPublishes

HandlerStep ==
    \/ OpenSource \/ Extract \/ CopyRows \/ RestoreBlobs \/ FinishImport
    \/ OpenDocuments \/ FetchFeed \/ ImportDocument \/ FinishMarkdown \/ FinishFeed

SweepStep == Boot \/ ListImports \/ ActiveImportPaths \/ RemoveOrphan \/ AWeekPasses \/ CronReads \/ CronCleans

Next == WebStep \/ HandlerStep \/ SweepStep \/ RunStep \/ CrashProcess

Spec == Init /\ [][Next]_vars

-----------------------------------------------------------------------------
(* Properties.                                                              *)

(* An active import has its source on disk, alone, until its handler        *)
(* disposes of it, and a running one its staging directory, whatever        *)
(* startup sweeps, daily ticks, crashes and other requests do, except when  *)
(* a sweep read the payloads between the rename of an upload and its        *)
(* enqueue (cleanup.go:56, migrates_import.go:194).                         *)
ActiveImportOwnsSource ==
    LET SourceOf(i) == File(jobs[i].kind.base, jobs[i].kind.form)
        Owners == ActiveImports \ ghost.through IN
    /\ \A i \in Owners : SourceOf(i) \in disk \cup ghost.early /\ \A j \in Owners \ {i} : SourceOf(j) # SourceOf(i)
    /\ Running("import_db") /\ runner.pc # "load" /\ IsZip(Here.base) => runner.id \in stages

(* Uploads whose job a start gave up, its attempts used up by crashes.       *)
GivenUp ==
    {jobs[i].kind.base : i \in {j \in JobIds : jobs[j].status = "failed" /\ jobs[j].kind.form = "import"}}

(* From the commit of its rows until its blobs are in, a bundle keeps a     *)
(* source that the admin or its job can import again, whatever fails, dies  *)
(* and is swept in between (import_db.go:135).  Excepted are the uploads    *)
(* the code does lose: the rename that keeps one fails (import_db.go:724),  *)
(* a sweep takes it (ghost.early), the rerun of a run that a crash cut off  *)
(* fails before it commits again (import_db.go:766), or crashes use up the  *)
(* job's attempts and leave it under the name that a sweep removes.         *)
HalfImportKeepsSource ==
    LET Lost == ghost.unkept \cup ghost.dropped \cup GivenUp \cup {f.base : f \in ghost.early} IN
    \A b \in ghost.halfway \ (site.blobs \cup Lost) :
        \/ \E form \in {"plain", "queued"} : File(b, form) \in disk
        \/ \E i \in ActiveImports : jobs[i].kind.base = b

(* A document or feed entry becomes one article, however often its import   *)
(* is cut off and run again; only a document whose slug has to be made up   *)
(* may come once more for each cut (import_markdown.go:173, slug.go:58).    *)
ImportedOnce ==
    \A a \in articles :
        LET copies == {c \in articles : c.type = a.type /\ c.slug = a.slug}
            MadeUp(doc) == doc.type = a.type /\ doc.slug = a.slug /\ ~doc.given IN
        /\ Cardinality(copies) <= 1 + ghost.cut
        /\ (\E b \in Bases : \E n \in DOMAIN Content[b].docs : MadeUp(Content[b].docs[n])) \/ copies = {a}

(* The feed import brings in only what an admin saw and chose, though the   *)
(* job reads the feed again (migrates_import.go:416).                       *)
OnlyChosenEntries == \A a \in articles : a.from = "import_rss" => a.slug \in ghost.shown

(* What is extracted stays below the limit though sizes are declared by the *)
(* file and added up in a machine word (import_db.go:615).                  *)
ExtractIsBounded ==
    Running("import_db") /\ runner.pc \in {"act", "write"} /\ IsZip(Here.base) =>
        FoldLeft(LAMBDA total, n : total + n, 0, Content[Here.base].sizes) <= MaxExtract
=============================================================================
