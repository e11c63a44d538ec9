------------------------------ MODULE Bundles ------------------------------
(***************************************************************************)
(* Backups: the export job copies the database and then the blobs while    *)
(* the site goes on, and the import job merges such a bundle back, the     *)
(* rows in one transaction and the blobs afterwards.                       *)
(***************************************************************************)
EXTENDS MediaFiles

VARIABLES
    transfer,   \* the export or import job that runs
    bundle,     \* the finished export, in data/exports
    unrestored, \* ghost: keys merged without their blob, or while it was being unlinked
    merged      \* ghost: an import merged its rows

bundleVars == <<transfer, bundle, unrestored, merged>>
vars == <<fileVars, bundleVars>>

(* The database and the blobs of a backup.                                  *)
Backup == [files : FileTable, attachments : AttachmentTable, statics : StaticTable,
           articles : SUBSET Articles, bodies : [Docs -> SUBSET Keys], blobs : SUBSET (Keys \cup {0})]

NoBundle == [files |-> [i \in FileIds |-> NoFile], attachments |-> [t \in FileIds |-> NoAttachment],
             statics |-> [n \in Names |-> 0], articles |-> {}, bodies |-> [d \in Docs |-> {}], blobs |-> {0}]

Off == [pc |-> "off", db |-> NoBundle, todo |-> {}]

Init == FilesInit /\ transfer = Off /\ bundle = NoBundle /\ unrestored = {} /\ merged = FALSE

(* Types.                                                                   *)
TypeOK ==
    /\ FilesTypeOK
    /\ transfer \in [pc : {"off", "walk", "pack", "tables", "blobs"}, db : Backup, todo : SUBSET Keys]
    /\ bundle \in Backup /\ unrestored \subseteq Keys /\ merged \in BOOLEAN

OnlyTransfer == UNCHANGED <<files, blobs, used, aged, attachments, statics, articles, bodies, req, issued, lost, mistaken>>

Stop(pc) == transfer' = [Off EXCEPT !.pc = pc]

-----------------------------------------------------------------------------
(* BundleExporter.Generate.                                                 *)

Database == [files |-> files, attachments |-> attachments, statics |-> statics,
             articles |-> articles, bodies |-> bodies, blobs |-> {}]

(* VACUUM INTO: a consistent copy of the database.                          *)
VacuumInto ==
    /\ transfer = Off /\ Spend("exports")
    /\ transfer' = [pc |-> "walk", db |-> Database, todo |-> {}]
    /\ OnlyTransfer /\ UNCHANGED <<bundle, unrestored, merged>>

(* zipBundle lists the blobs on disk,                                       *)
WalkBlobs ==
    /\ transfer.pc = "walk"
    /\ transfer' = [transfer EXCEPT !.pc = "pack", !.todo = blobs]
    /\ OnlyTransfer /\ UNCHANGED <<budget, bundle, unrestored, merged>>

(* opens and packs them one by one, failing when one is gone,               *)
PackBlob ==
    /\ transfer.pc = "pack"
    /\ \E k \in transfer.todo :
          IF k \in blobs THEN transfer' = [transfer EXCEPT !.todo = @ \ {k}, !.db.blobs = @ \cup {k}] ELSE Stop("off")
    /\ OnlyTransfer /\ UNCHANGED <<budget, bundle, unrestored, merged>>

(* Mutant: the database is copied after the blobs.                          *)
RenameBundleLate ==
    /\ transfer.pc = "pack" /\ transfer.todo = {} /\ Stop("off")
    /\ bundle' = [Database EXCEPT !.blobs = transfer.db.blobs]
    /\ OnlyTransfer /\ UNCHANGED <<budget, unrestored, merged>>

(* and renames the complete zip into place.                                 *)
RenameBundle ==
    /\ transfer.pc = "pack" /\ transfer.todo = {} /\ Stop("off")
    /\ bundle' = transfer.db
    /\ OnlyTransfer /\ UNCHANGED <<budget, unrestored, merged>>

-----------------------------------------------------------------------------
(* DBImporter.Import.                                                       *)

(* upsertTable: rows of the bundle overwrite rows with the same id.         *)
Upsert(table, from, none) == [i \in DOMAIN table |-> IF from[i] # none THEN from[i] ELSE table[i]]

Merged == Upsert(files, bundle.files, NoFile)

(* Keys whose blob a removal is about to unlink.                            *)
Doomed == {d.key : d \in UNION {req[r].doomed : r \in Actors}}

StartImport ==
    /\ transfer = Off /\ bundle # NoBundle /\ Spend("imports") /\ Stop("tables")
    /\ OnlyTransfer /\ UNCHANGED <<bundle, unrestored, merged>>

(* copyTables, one transaction: all of it or nothing.                       *)
CopyTables ==
    /\ transfer.pc = "tables"
    /\ \/ Spend("faults") /\ Stop("off") /\ OnlyTransfer /\ UNCHANGED <<unrestored, merged>>
       \/ /\ files' = Merged
          /\ attachments' = Upsert(attachments, bundle.attachments, NoAttachment)
          /\ statics' = Upsert(statics, bundle.statics, 0)
          /\ articles' = articles \cup bundle.articles
          /\ bodies' = [d \in Docs |-> IF d \in bundle.articles \cup {Page} THEN bundle.bodies[d] ELSE bodies[d]]
          /\ unrestored' = unrestored \cup ({Merged[i].key : i \in FileIds} \ ((blobs \ Doomed) \cup {0}))
          /\ transfer' = [transfer EXCEPT !.pc = "blobs", !.todo = bundle.blobs]
          /\ merged' = TRUE
          /\ UNCHANGED <<blobs, used, aged, req, budget, issued, lost, mistaken>>
    /\ UNCHANGED bundle

(* restoreBlobs copies one blob under a temporary name and renames it; a    *)
(* blob that is there is kept.  A failure ends the import, rows committed.  *)
RestoreBlob ==
    /\ transfer.pc = "blobs"
    /\ \/ /\ transfer.todo = {} /\ Stop("off")
          /\ UNCHANGED <<blobs, budget, unrestored>>
       \/ \E k \in transfer.todo :
             /\ transfer' = [transfer EXCEPT !.todo = @ \ {k}]
             /\ blobs' = blobs \cup {k} /\ unrestored' = unrestored \ ({k} \ Doomed)
             /\ UNCHANGED budget
       \/ /\ transfer.todo # {} /\ Spend("faults") /\ Stop("off")
          /\ UNCHANGED <<blobs, unrestored>>
    /\ UNCHANGED <<files, used, aged, attachments, statics, articles, bodies, req, issued, lost, mistaken, bundle, merged>>

-----------------------------------------------------------------------------
(* A crash stops the job as well; the queue runs it again (JobQueue).       *)
CrashAll == (Crash \/ (transfer # Off /\ Spend("crashes") /\ OnlyTransfer)) /\ Stop("off") /\ UNCHANGED <<bundle, unrestored, merged>>

Next ==
    \/ \E r \in Requests : RequestStep(r) /\ UNCHANGED bundleVars
    \/ \E r \in Actors : (DeleteRow(r) \/ Unlink(r)) /\ UNCHANGED bundleVars
    \/ (SaveDocument \/ ADayPasses \/ StartReaper \/ ExamineCandidate) /\ UNCHANGED bundleVars
    \/ VacuumInto \/ WalkBlobs \/ PackBlob \/ RenameBundle
    \/ StartImport \/ CopyTables \/ RestoreBlob
    \/ CrashAll

Spec == Init /\ [][Next]_vars

-----------------------------------------------------------------------------
(* Properties.                                                              *)

(* A files row never names a missing blob, whoever stores, purges, sweeps   *)
(* or crashes in between, except for rows an import merged before their     *)
(* blob was there or while it was being unlinked (media.go:78,              *)
(* static_files_admin.go:340).                                              *)
RowHasBlob == \A i \in FileIds : Stored(i) => files[i].key \in blobs \cup unrestored

(* Rows changed under ids that others hold: an import merges rows by id,    *)
(* and a removal deletes by id, which may have come back for another file.  *)
IdsKeptTheirRows == ~merged /\ ~mistaken

(* A URL that a document embeds within a day of the upload is served ever   *)
(* after: neither the startup sweep nor the destruction of an article that  *)
(* shares the file takes it away (cleanup.go:204, articles.go:582).         *)
EmbeddedIsServed == IdsKeptTheirRows => \A d \in Docs, k \in Keys : k \in bodies[d] => Served(k)

RowAndOriginal(k) == LET i == CHOOSE i \in FileIds : files[i].key = k IN {i, files[i].of} \ {0}

Owned(k) ==
    /\ GetFileByKey(k) # {}
    /\ \E i \in RowAndOriginal(k) :
          \/ StillReferenced(i) \/ files[i].key \in issued
          \/ CountFileKeyContentReferences(files[i].key, bodies)

(* Nothing on disk is forgotten: each blob belongs to a row that something  *)
(* names or whose URL an admin has, or a request is still working on it, or *)
(* a failure let it go (static_files_admin.go:91, 217).                     *)
NothingForgotten ==
    IdsKeptTheirRows => \A k \in blobs : Owned(k) \/ k \in lost \/ \E r \in Actors : k \in HeldKeys(req[r])

(* A finished backup holds the blob of every file row in its database copy  *)
(* that is still on disk, however the site changed while it was made: the   *)
(* database is copied before the blobs are listed (export_db.go:40).        *)
BundleHoldsItsBlobs ==
    bundle # NoBundle =>
        \A i \in FileIds : bundle.files[i] # NoFile =>
            bundle.files[i].key \in bundle.blobs \cup unrestored \/ bundle.files[i].key \notin blobs
=============================================================================
