----------------------------- MODULE MediaFiles -----------------------------
(***************************************************************************)
(* The files table and the blobs under data/files.  A file is stored blob  *)
(* first and row second, removed row first and blob second, and every      *)
(* statement and every unlink is a step of its own that others interleave  *)
(* with.  Rows are named by attachments, static_files, the variant_of of   *)
(* another row, and by /files/<key> URLs inside stored content, which no   *)
(* foreign key protects; what nothing names is reaped at startup once it   *)
(* is a day old.                                                           *)
(***************************************************************************)
EXTENDS Naturals

CONSTANTS
    Requests,  \* requests and jobs that may be under way at once
    Articles,  \* article ids
    Names,     \* static_files filenames; a name stands for its row's id
    MaxFiles,  \* bound: files ids are 1..MaxFiles
    MaxKeys,   \* bound: keys handed out, numbered in order of creation
    Budgets    \* bound: what a behaviour may ask

VARIABLES
    files,        \* the files table
    blobs,        \* keys whose blob is on disk
    used,         \* keys handed out so far
    aged,         \* keys 1..aged are more than 24 hours old
    attachments,  \* the attachments table
    statics,      \* static_files: filename -> file_id, 0 for no row
    articles,     \* articles that exist
    bodies,       \* /files/<key> URLs in the content of articles and of a page
    req,          \* requests, and the startup sweep, under way
    budget,       \* what may still be asked
    issued,       \* keys whose URL was handed to an admin or published
    lost,         \* ghost: keys a failed statement, a crash, a refused entry let go
    mistaken      \* ghost: a removal took a row whose id had come back for another file

fileVars == <<files, blobs, used, aged, attachments, statics, articles, bodies, req, budget, issued, lost, mistaken>>

FileIds == 1..MaxFiles
Keys == 1..MaxKeys
Page == 0
Docs == Articles \cup {Page}
Reaper == "reaper"
Actors == Requests \cup {Reaper}

NoFile == [key |-> 0, of |-> 0]
File == [key : Keys, of : {0} \cup FileIds]
NoAttachment == [file |-> 0, article |-> 0]
Attachment == [file : FileIds, article : Articles]

FileTable == [FileIds -> File \cup {NoFile}]
AttachmentTable == [FileIds -> Attachment \cup {NoAttachment}]
StaticTable == [Names -> {0} \cup FileIds]

ASSUME MediaAssumption ==
    /\ MaxFiles \in Nat \ {0} /\ MaxKeys \in Nat \ {0}
    /\ Articles \subseteq Nat \ {0} /\ Names \subseteq Nat /\ Reaper \notin Requests
    /\ \A b \in Budgets : b.articles \subseteq Articles

(* A files row as a removal read it.                                        *)
FileRef == [id : FileIds, key : Keys, of : {0} \cup FileIds]

(* A request: where it stands, what it does, the file it stored, the static *)
(* row it read, and the rows it is removing; cands is the reaper's list.    *)
Request == [pc : {"idle", "blob", "row", "vblob", "vrow", "attach", "embed", "lookup", "create",
                  "old", "swap", "fetch", "check", "delete", "unlink", "examine"},
            op : {"none", "upload", "attach", "rss", "static", "destroy", "article", "reap"},
            arg : Docs \cup Names \cup {0}, image : BOOLEAN,
            file : {0} \cup FileIds, key : {0} \cup Keys, vkey : {0} \cup Keys,
            seen : {0} \cup FileIds, old : {0} \cup FileIds, oldKey : {0} \cup Keys,
            doomed : SUBSET FileRef, cands : SUBSET FileRef]

Idle == [pc |-> "idle", op |-> "none", arg |-> 0, image |-> FALSE, file |-> 0, key |-> 0, vkey |-> 0,
         seen |-> 0, old |-> 0, oldKey |-> 0, doomed |-> {}, cands |-> {}]

FilesInit ==
    /\ budget \in Budgets
    /\ files = [i \in FileIds |-> NoFile] /\ blobs = {} /\ used = 0 /\ aged = 0
    /\ attachments = [t \in FileIds |-> NoAttachment]
    /\ statics = [n \in Names |-> 0]
    /\ articles = budget.articles /\ bodies = [d \in Docs |-> {}]
    /\ req = [r \in Actors |-> Idle]
    /\ issued = {} /\ lost = {} /\ mistaken = FALSE

(* Types.                                                                   *)
FilesTypeOK ==
    /\ files \in FileTable /\ used \in 0..MaxKeys /\ blobs \subseteq 1..used /\ aged \in 0..used
    /\ attachments \in AttachmentTable /\ statics \in StaticTable
    /\ articles \subseteq Articles /\ bodies \in [Docs -> SUBSET Keys]
    /\ req \in [Actors -> Request]
    /\ issued \subseteq 1..used /\ lost \subseteq Keys /\ mistaken \in BOOLEAN

-----------------------------------------------------------------------------
(* Statements of queries/files.sql and queries/static_files.sql.            *)

Stored(i) == i # 0 /\ files[i] # NoFile

GetFileByKey(k) == {i \in FileIds : files[i].key = k}

(* INTEGER PRIMARY KEY without AUTOINCREMENT: one more than the largest id  *)
(* in the table, so the id of a deleted row may come back.  Bound: ids stay *)
(* in FileIds.                                                              *)
NextId(id, table, none) ==
    \A i \in FileIds : (table[i] # none => i < id) /\ (i + 1 = id => table[i] # none)

CreateFile(id, k, of) == [files EXCEPT ![id] = [key |-> k, of |-> of]]

ListFileVariants(i) == {v \in FileIds : Stored(v) /\ files[v].of = i}

(* The counts of references, as far as the code looks: above zero or not.   *)
CountAttachmentsForFile(i, atts) == \E t \in FileIds : atts[t].file = i

CountStaticFilesForFile(i) == \E n \in Names : statics[n] = i

CountFileKeyContentReferences(k, docs) == \E d \in Docs : k \in docs[d]

(* INSERT OR IGNORE; the foreign key refuses a file whose row is gone.      *)
CreateAttachment(i, a) ==
    /\ Stored(i)
    /\ IF \E t \in FileIds : attachments[t] = [file |-> i, article |-> a] THEN UNCHANGED attachments
       ELSE \E t \in FileIds :
               /\ NextId(t, attachments, NoAttachment)
               /\ attachments' = [attachments EXCEPT ![t] = [file |-> i, article |-> a]]

(* JOIN files.                                                              *)
ListAttachmentFilesForRecord(a) ==
    {i \in FileIds : Stored(i) /\ \E t \in FileIds : attachments[t] = [file |-> i, article |-> a]}

DeleteAttachmentsForRecord(a) ==
    [t \in FileIds |-> IF attachments[t].article = a THEN NoAttachment ELSE attachments[t]]

(* An attachment or a static_files row names the file.                      *)
Named(i) == CountAttachmentsForFile(i, attachments) \/ CountStaticFilesForFile(i)

(* Foreign keys refuse to delete a row that another row names.              *)
DeleteRefused(i) == Named(i) \/ ListFileVariants(i) # {}

(* Roots older than the cutoff that no attachment and no static_files row   *)
(* names, directly or through a variant.                                    *)
ListOrphanFileCandidates(cutoff) ==
    {i \in FileIds :
        /\ Stored(i) /\ files[i].of = 0 /\ files[i].key <= cutoff
        /\ \A j \in {i} \cup ListFileVariants(i) : ~Named(j)}

Ref(i, k, of) == [id |-> i, key |-> k, of |-> of]

(* The keys of a file and of its variants.                                  *)
FamilyKeys(i) == {files[j].key : j \in {i} \cup ListFileVariants(i)} \cap Keys

(* A row, as it was read, with its variants.                                *)
Family(i, k) == {Ref(v, files[v].key, i) : v \in ListFileVariants(i)} \cup {Ref(i, k, 0)}

-----------------------------------------------------------------------------
(* Helpers of the steps.                                                    *)

Go(r, q) == req' = [req EXCEPT ![r] = q]

Held(q) ==
    {q.key, q.vkey, q.oldKey} \cup {d.key : d \in q.doomed}
    \cup {files[i].key : i \in {j \in {q.file, q.old} : Stored(j)}}
    \cup UNION {{files[v].key : v \in ListFileVariants(i)} : i \in {q.file, q.old} \ {0}}

HeldKeys(q) == Held(q) \cap Keys

(* A finished request; the reaper goes on to its next candidate.            *)
Finished(q) ==
    IF q.op = "reap" /\ q.cands # {} THEN [Idle EXCEPT !.pc = "examine", !.op = "reap", !.cands = q.cands] ELSE Idle

End(r) == req' = [req EXCEPT ![r] = Finished(@)]

Spend(what) == budget[what] > 0 /\ budget' = [budget EXCEPT ![what] = @ - 1]

Fault(r) == Spend("faults") /\ lost' = lost \cup HeldKeys(req[r])

NoSpend == UNCHANGED <<budget, lost>>

(* Bound: room for the rows a store may insert.                             *)
Room == (\A i \in FileIds : Stored(i) => i + 1 < MaxFiles) /\ used + 1 < MaxKeys

-----------------------------------------------------------------------------
(* media.Service.Store, and what calls it.                                  *)

(* An image gets a variant.  Bound: budget.images, what may store images.   *)
Begin(r, op, arg, image) ==
    /\ req[r] = Idle /\ Room
    /\ image => op \in budget.images
    /\ Go(r, [Idle EXCEPT !.pc = "blob", !.op = op, !.arg = arg, !.image = image])
    /\ UNCHANGED <<files, blobs, used, aged, attachments, statics, articles, bodies, issued, lost, mistaken>>

(* POST /admin/uploads, with or without a record to attach the file to.     *)
Upload(r) ==
    /\ Spend("uploads")
    /\ \E image \in BOOLEAN :
          \/ Begin(r, "upload", 0, image)
          \/ \E a \in articles : Begin(r, "attach", a, image)

(* POST /admin/static_files; Store gives a jpeg or png its variant here too.*)
StaticUpload(r) == Spend("statics") /\ \E n \in Names, image \in BOOLEAN : Begin(r, "static", n, image)

(* The import_rss job downloads the image of a feed entry.                  *)
ImportEntryImage(r) == Spend("entries") /\ \E image \in BOOLEAN : Begin(r, "rss", 0, image)

(* writeFile: a failed write leaves nothing behind.                         *)
WriteBlob(r) ==
    LET q == req[r]
        key == used + 1 IN
    /\ \/ /\ used < MaxKeys /\ used' = key /\ blobs' = blobs \cup {key}
          /\ \/ q.pc = "blob" /\ Go(r, [q EXCEPT !.pc = "row", !.key = key])
             \/ q.pc = "vblob" /\ Go(r, [q EXCEPT !.pc = "vrow", !.vkey = key])
          /\ NoSpend
       \/ /\ q.pc = "blob" /\ Spend("faults")
          /\ End(r) /\ UNCHANGED <<used, blobs, lost>>
    /\ UNCHANGED <<files, aged, attachments, statics, articles, bodies, issued, mistaken>>

(* The caller goes on with the stored file; a plain upload answers its URL. *)
AfterStore(op) == CASE op = "attach" -> "attach" [] op = "rss" -> "embed" [] op = "static" -> "lookup"

StoreReturns(r, id) ==
    LET q == req[r] IN
    IF q.op = "upload" THEN Go(r, Idle) /\ issued' = issued \cup {q.key}
    ELSE Go(r, [q EXCEPT !.pc = AfterStore(q.op), !.file = id, !.vkey = 0]) /\ UNCHANGED issued

(* CreateFile.  Without its row the blob is removed and the upload fails;   *)
(* a variant that fails costs only the variant.                             *)
InsertRow(r) ==
    LET q == req[r] IN
    /\ q.pc = "row"
    /\ \/ /\ \E id \in FileIds :
                /\ NextId(id, files, NoFile) /\ files' = CreateFile(id, q.key, 0)
                /\ IF q.image THEN Go(r, [q EXCEPT !.pc = "vblob", !.file = id]) /\ UNCHANGED issued
                   ELSE StoreReturns(r, id)
          /\ NoSpend /\ UNCHANGED blobs
       \/ /\ Spend("faults") /\ blobs' = blobs \ {q.key}
          /\ End(r) /\ UNCHANGED <<files, issued, lost>>
    /\ UNCHANGED <<used, aged, attachments, statics, articles, bodies, mistaken>>

(* A statement that fails, or that the foreign key refuses because the row  *)
(* of the file is gone.                                                     *)
Refused(i) == IF Stored(i) THEN Spend("faults") ELSE UNCHANGED budget

(* The foreign key refuses a variant whose original is gone.                *)
InsertVariant(r) ==
    LET q == req[r] IN
    /\ q.pc = "vrow" /\ StoreReturns(r, q.file)
    /\ \/ /\ Stored(q.file)
          /\ \E id \in FileIds : NextId(id, files, NoFile) /\ files' = CreateFile(id, q.vkey, q.file)
          /\ NoSpend /\ UNCHANGED blobs
       \/ /\ Refused(q.file)
          /\ blobs' = blobs \ {q.vkey} /\ UNCHANGED <<files, lost>>
    /\ UNCHANGED <<used, aged, attachments, statics, articles, bodies, mistaken>>

(* Attach; when it fails nobody learns the key and Purge reclaims the file. *)
AttachUpload(r) ==
    LET q == req[r] IN
    /\ q.pc = "attach"
    /\ \/ /\ CreateAttachment(q.file, q.arg) /\ issued' = issued \cup {q.key}
          /\ End(r) /\ NoSpend
       \/ /\ Refused(q.file)
          /\ Go(r, [q EXCEPT !.pc = "delete", !.doomed = Family(q.file, q.key), !.file = 0, !.key = 0])
          /\ UNCHANGED <<attachments, issued, lost>>
    /\ UNCHANGED <<files, blobs, used, aged, statics, articles, bodies, mistaken>>

(* importEntry after its image: the article is inserted with the local URL, *)
(* or the entry is refused and the image stays for the startup sweep.       *)
ImportEntry(r) ==
    LET q == req[r] IN
    /\ q.pc = "embed" /\ End(r)
    /\ \/ \E a \in Articles \ articles :
             /\ articles' = articles \cup {a} /\ bodies' = [bodies EXCEPT ![a] = {q.key}]
             /\ issued' = issued \cup {q.key} /\ UNCHANGED lost
       \/ lost' = lost \cup HeldKeys(q) /\ UNCHANGED <<articles, bodies, issued>>
    /\ UNCHANGED <<files, blobs, used, aged, attachments, statics, budget, mistaken>>

-----------------------------------------------------------------------------
(* Static files: create, overwrite in place, destroy.                       *)

PurgeOwn(r) ==
    LET q == req[r] IN Go(r, [q EXCEPT !.pc = "check", !.old = q.file, !.oldKey = q.key, !.file = 0, !.key = 0])

(* GetStaticFileByFilename.                                                 *)
FindStatic(r) ==
    LET q == req[r] IN
    /\ q.pc = "lookup"
    /\ \/ /\ Go(r, [q EXCEPT !.pc = IF statics[q.arg] = 0 THEN "create" ELSE "old", !.seen = statics[q.arg]])
          /\ NoSpend
       \/ Spend("faults") /\ PurgeOwn(r) /\ UNCHANGED lost
    /\ UNCHANGED <<files, blobs, used, aged, attachments, statics, articles, bodies, issued, mistaken>>

(* CreateStaticFile: the unique filename refuses the second of two uploads, *)
(* the foreign key a file whose row is gone.                                *)
CreateStaticFile(r) ==
    LET q == req[r] IN
    /\ q.pc = "create"
    /\ \/ /\ statics[q.arg] = 0 /\ Stored(q.file) /\ statics' = [statics EXCEPT ![q.arg] = q.file]
          /\ End(r) /\ NoSpend
       \/ statics[q.arg] # 0 /\ PurgeOwn(r) /\ NoSpend /\ UNCHANGED statics
       \/ Refused(q.file) /\ PurgeOwn(r) /\ UNCHANGED <<statics, lost>>
    /\ UNCHANGED <<files, blobs, used, aged, attachments, articles, bodies, issued, mistaken>>

(* GetFileForStaticFilename: the blob to purge once the row is swapped; a   *)
(* failure only costs the purge.                                            *)
GetFileForStaticFilename(r) ==
    LET q == req[r] IN
    /\ q.pc = "old"
    /\ \/ /\ Go(r, [q EXCEPT !.pc = "swap", !.old = statics[q.arg],
                             !.oldKey = IF statics[q.arg] = 0 THEN 0 ELSE files[statics[q.arg]].key])
          /\ NoSpend
       \/ Spend("faults") /\ Go(r, [q EXCEPT !.pc = "swap"]) /\ UNCHANGED lost
    /\ UNCHANGED <<files, blobs, used, aged, attachments, statics, articles, bodies, issued, mistaken>>

(* Mutant: UPDATE without the comparison.                                   *)
SwapAlways(q) == statics[q.arg] # 0

(* UpdateStaticFile compares the file_id read before with the row's: the    *)
(* loser purges the file it stored, the winner the one it replaced.  When   *)
(* the id is that of a deleted row which came back for a new file, the row  *)
(* is the new one and the key the old one: the new blob is let go.          *)
SwapMatches(q) == statics[q.arg] = q.seen

UpdateStaticFile(r) ==
    LET q == req[r] IN
    /\ q.pc = "swap"
    /\ \/ /\ SwapMatches(q) /\ Stored(q.file) /\ statics' = [statics EXCEPT ![q.arg] = q.file]
          /\ IF q.old # 0 THEN Go(r, [q EXCEPT !.pc = "check", !.file = 0, !.key = 0]) ELSE End(r)
          /\ lost' = IF files[q.seen].key = q.oldKey THEN lost ELSE lost \cup FamilyKeys(q.seen)
          /\ UNCHANGED budget
       \/ ~SwapMatches(q) /\ PurgeOwn(r) /\ NoSpend /\ UNCHANGED statics
       \/ Refused(q.file) /\ PurgeOwn(r) /\ UNCHANGED <<statics, lost>>
    /\ UNCHANGED <<files, blobs, used, aged, attachments, articles, bodies, issued, mistaken>>

(* POST /admin/static_files/{id}/destroy: the row is read, and deleted in a *)
(* statement of its own that returns the file it named.                     *)
StaticDestroy(r) ==
    /\ req[r] = Idle /\ Spend("destroys")
    /\ \E n \in Names :
          statics[n] # 0 /\ Go(r, [Idle EXCEPT !.pc = "fetch", !.op = "destroy", !.arg = n, !.seen = statics[n]])
    /\ UNCHANGED <<files, blobs, used, aged, attachments, statics, articles, bodies, issued, lost, mistaken>>

DeletedFile(q) == statics[q.arg]

(* oldKey is a ghost here: the handler reads the row in its next step.      *)
DeleteStaticFile(r) ==
    LET q == req[r] IN
    /\ q.pc = "fetch"
    /\ IF statics[q.arg] = 0 THEN End(r) /\ UNCHANGED statics
       ELSE /\ statics' = [statics EXCEPT ![q.arg] = 0]
            /\ Go(r, [q EXCEPT !.pc = "check", !.old = DeletedFile(q), !.oldKey = files[DeletedFile(q)].key, !.seen = 0])
    /\ NoSpend
    /\ UNCHANGED <<files, blobs, used, aged, attachments, articles, bodies, issued, mistaken>>

(* purgeStoredFile: a file that is still named, itself or through a         *)
(* variant, keeps row, variants and blob.                                   *)
StillReferenced(i) == \E j \in {i} \cup ListFileVariants(i) : Named(j)

PurgeStoredFile(r) ==
    LET q == req[r]
        k == IF q.op = "destroy" THEN files[q.old].key ELSE q.oldKey IN  \* destroy reads the row here: GetFileByID
    /\ q.pc = "check"
    /\ \/ /\ k = 0 \/ StillReferenced(q.old)
          /\ End(r) /\ NoSpend /\ UNCHANGED mistaken
       \/ /\ k # 0 /\ ~StillReferenced(q.old)
          /\ Go(r, [q EXCEPT !.pc = "delete", !.doomed = Family(q.old, k), !.old = 0, !.oldKey = 0])
          /\ mistaken' = (mistaken \/ k # q.oldKey) /\ NoSpend
       \/ Fault(r) /\ End(r) /\ UNCHANGED mistaken
    /\ UNCHANGED <<files, blobs, used, aged, attachments, statics, articles, bodies, issued>>

-----------------------------------------------------------------------------
(* Removal, shared by purgeStoredFile, media.Purge and the startup sweep:   *)
(* variants first; a row that cannot be deleted keeps its blob.             *)

Victim(q) == IF \E d \in q.doomed : d.of # 0 THEN CHOOSE d \in q.doomed : d.of # 0 ELSE CHOOSE d \in q.doomed : TRUE

Drop(q, pc) ==
    LET rest == q.doomed \ {Victim(q)} IN
    IF rest # {} THEN [q EXCEPT !.pc = pc, !.doomed = rest] ELSE Finished(q)

(* Mutant: a row that could not be deleted is only logged and its blob goes *)
(* all the same.                                                            *)
DeleteRowBlindly(r) ==
    LET q == req[r]
        i == Victim(q).id IN
    /\ q.pc = "delete" /\ Go(r, [q EXCEPT !.pc = "unlink"])
    /\ \/ ~DeleteRefused(i) /\ files' = [files EXCEPT ![i] = NoFile] /\ NoSpend
       \/ DeleteRefused(i) /\ NoSpend /\ UNCHANGED files
       \/ Fault(r) /\ UNCHANGED files
    /\ UNCHANGED <<blobs, used, aged, attachments, statics, articles, bodies, issued, mistaken>>

(* DELETE FROM files WHERE id = ?: it takes the row that has the id now,    *)
(* which need not be the row that was read.                                 *)
DeleteRow(r) ==
    LET q == req[r]
        i == Victim(q).id IN
    /\ q.pc = "delete"
    /\ \/ /\ ~DeleteRefused(i) /\ files' = [files EXCEPT ![i] = NoFile]
          /\ Go(r, [q EXCEPT !.pc = "unlink"]) /\ NoSpend
          /\ mistaken' = (mistaken \/ files[i].key \notin {0, Victim(q).key})
       \/ DeleteRefused(i) /\ Go(r, Drop(q, "delete")) /\ NoSpend /\ UNCHANGED <<files, mistaken>>
       \/ Fault(r) /\ Go(r, Drop(q, "delete")) /\ UNCHANGED <<files, mistaken>>
    /\ UNCHANGED <<blobs, used, aged, attachments, statics, articles, bodies, issued>>

Unlink(r) ==
    LET q == req[r] IN
    /\ q.pc = "unlink"
    /\ blobs' = blobs \ {Victim(q).key}
    /\ Go(r, Drop(q, IF q.op = "article" THEN "unlink" ELSE "delete"))
    /\ NoSpend
    /\ UNCHANGED <<files, used, aged, attachments, statics, articles, bodies, issued, mistaken>>

-----------------------------------------------------------------------------
(* Articles and the editor.                                                 *)

(* fileReferenced of articles.Destroy, inside the transaction that already  *)
(* deleted the article and its attachments.                                 *)
FileReferenced(i, atts, docs) ==
    CountAttachmentsForFile(i, atts) \/ CountStaticFilesForFile(i) \/ CountFileKeyContentReferences(files[i].key, docs)

(* articles.Destroy: one transaction deletes the article, its attachments   *)
(* and the files nothing else names; the blobs go after the commit.         *)
DestroyArticle(r) ==
    /\ req[r] = Idle /\ Spend("destroys")
    /\ \E a \in articles :
        LET docs == [bodies EXCEPT ![a] = {}]
            atts == DeleteAttachmentsForRecord(a)
            doomed == {i \in ListAttachmentFilesForRecord(a) :
                          \A j \in {i} \cup ListFileVariants(i) : ~FileReferenced(j, atts, docs)}
            gone == UNION {Family(i, files[i].key) : i \in doomed} IN
        /\ articles' = articles \ {a} /\ bodies' = docs /\ attachments' = atts
        /\ files' = [i \in FileIds |-> IF i \in doomed \/ files[i].of \in doomed THEN NoFile ELSE files[i]]
        /\ IF gone = {} THEN UNCHANGED req
           ELSE Go(r, [Idle EXCEPT !.pc = "unlink", !.op = "article", !.doomed = gone])
    /\ UNCHANGED <<blobs, used, aged, statics, issued, lost, mistaken>>

(* serveFile: the row and then the blob.                                    *)
Served(k) == GetFileByKey(k) # {} /\ k \in blobs

(* An admin pastes the URL of an upload into a document within a day, the   *)
(* margin the sweep grants, or takes it out again.                          *)
SaveDocument ==
    /\ \E d \in articles \cup {Page}, k \in issued :
          \/ /\ k \notin bodies[d] /\ Served(k) /\ k > aged
             /\ bodies' = [bodies EXCEPT ![d] = @ \cup {k}]
          \/ k \in bodies[d] /\ bodies' = [bodies EXCEPT ![d] = @ \ {k}]
    /\ Spend("saves")
    /\ UNCHANGED <<files, blobs, used, aged, attachments, statics, articles, req, issued, lost, mistaken>>

-----------------------------------------------------------------------------
(* Startup.                                                                 *)

(* No request and no job takes a day.                                       *)
ADayPasses ==
    /\ \A r \in Actors : req[r] = Idle
    /\ aged < used /\ Spend("days") /\ aged' = used
    /\ UNCHANGED <<files, blobs, used, attachments, statics, articles, bodies, req, issued, lost, mistaken>>

Crash ==
    /\ \E r \in Actors : req[r] # Idle
    /\ Spend("crashes")
    /\ lost' = lost \cup UNION {HeldKeys(req[r]) : r \in Actors}
    /\ req' = [r \in Actors |-> Idle]
    /\ UNCHANGED <<files, blobs, used, aged, attachments, statics, articles, bodies, issued, mistaken>>

(* Mutant: no margin for uploads that wait to be embedded.                  *)
CutoffNow == used

(* A process starts, beside the old one in a rolling deploy, and sweeps:    *)
(* ReapOrphanFiles.                                                         *)
Cutoff == aged

StartReaper ==
    /\ req[Reaper] = Idle /\ Spend("starts")
    /\ LET cands == {Ref(i, files[i].key, 0) : i \in ListOrphanFileCandidates(Cutoff)} IN
       Go(Reaper, Finished([Idle EXCEPT !.op = "reap", !.cands = cands]))
    /\ UNCHANGED <<files, blobs, used, aged, attachments, statics, articles, bodies, issued, lost, mistaken>>

(* One candidate: content that names the file or a variant keeps the whole  *)
(* family.  The reads of one family are one step.                           *)
FamilyInContent(c) == \E d \in Family(c.id, c.key) : CountFileKeyContentReferences(d.key, bodies)

ExamineCandidate ==
    LET q == req[Reaper] IN
    /\ q.pc = "examine"
    /\ \E c \in q.cands :
          LET rest == [q EXCEPT !.cands = @ \ {c}] IN
          /\ \A e \in q.cands : c.id <= e.id
          /\ Go(Reaper, IF FamilyInContent(c) THEN Finished(rest)
                        ELSE [rest EXCEPT !.pc = "delete", !.doomed = Family(c.id, c.key)])
    /\ NoSpend
    /\ UNCHANGED <<files, blobs, used, aged, attachments, statics, articles, bodies, issued, mistaken>>

-----------------------------------------------------------------------------
RequestStep(r) ==
    \/ Upload(r) \/ StaticUpload(r) \/ ImportEntryImage(r)
    \/ WriteBlob(r) \/ InsertRow(r) \/ InsertVariant(r) \/ AttachUpload(r) \/ ImportEntry(r)
    \/ FindStatic(r) \/ CreateStaticFile(r) \/ GetFileForStaticFilename(r) \/ UpdateStaticFile(r)
    \/ StaticDestroy(r) \/ DeleteStaticFile(r) \/ PurgeStoredFile(r)
    \/ DestroyArticle(r)

FilesNext ==
    \/ \E r \in Requests : RequestStep(r)
    \/ \E r \in Actors : DeleteRow(r) \/ Unlink(r)
    \/ SaveDocument \/ ADayPasses \/ Crash \/ StartReaper \/ ExamineCandidate
=============================================================================
