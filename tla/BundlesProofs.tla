--------------------------- MODULE BundlesProofs ---------------------------
(***************************************************************************)
(* Proofs about files, blobs and backups for any number of requests, rows  *)
(* and keys.  A row keeps its blob and a backup holds its blobs because a  *)
(* key belongs to one id for ever: a removal that finds its id taken by    *)
(* another row unlinks a key that no row has.  An embedded URL is served   *)
(* because no removal ever holds a key whose URL somebody may still embed. *)
(* Nothing is forgotten because a row that nothing names is in the hand of *)
(* a request that has read its whole family.                               *)
(***************************************************************************)
EXTENDS Bundles, TLAPS

-----------------------------------------------------------------------------
(* The inductive invariant.                                                 *)

(* Where a request stands decides which of its fields are set.              *)
WithKey == {"row", "vblob", "vrow", "attach", "embed", "lookup", "create", "old", "swap"}

Shape(q) ==
    /\ q.key # 0 <=> q.pc \in WithKey
    /\ q.file # 0 <=> q.pc \in WithKey \ {"row"}
    /\ q.vkey # 0 <=> q.pc = "vrow"
    /\ q.old # 0 => q.pc \in {"swap", "check"}
    /\ q.oldKey # 0 => q.old # 0
    /\ q.pc = "check" => q.old # 0
    /\ q.doomed # {} <=> q.pc \in {"delete", "unlink"}
    /\ q.cands # {} => q.op = "reap"
    /\ q.pc = "examine" => q.cands # {}
    /\ q.op \in {"static", "destroy"} => q.arg \in Names
    /\ q.pc = "attach" => q.op = "attach" /\ q.arg \in Articles
    /\ q.op = "attach" => q.arg \in Articles
    /\ q.pc \in {"blob", "row", "vblob", "vrow"} => q.op \in {"upload", "attach", "rss", "static"}
    /\ q.pc \in {"lookup", "create", "old", "swap"} => q.op = "static"
    /\ q.pc = "fetch" => q.op = "destroy"
    /\ q.op = "article" => q.pc = "unlink"
    /\ q.pc \in {"vblob", "vrow"} => q.image
    /\ q.pc = "embed" => q.op = "rss"

Shaped ==
    /\ \A r \in Actors : Shape(req[r])
    /\ transfer.todo \subseteq 1..used
    /\ transfer.db.blobs \subseteq 1..used \/ transfer.db = NoBundle
    /\ bundle.blobs \subseteq 1..used \/ bundle = NoBundle
    /\ transfer.pc \in {"walk", "pack"} => transfer.db.blobs \subseteq 1..used
    /\ transfer.pc \in {"tables", "blobs"} => bundle # NoBundle

(* Who reads or keeps that row i has key k.                                 *)
Keeps(q, i, k) ==
    \/ q.file = i /\ q.key = k
    \/ q.old = i /\ q.oldKey = k
    \/ \E d \in q.doomed \cup q.cands : d.id = i /\ d.key = k

Known(i, k) ==
    \/ files[i].key = k \/ transfer.db.files[i].key = k \/ bundle.files[i].key = k
    \/ \E r \in Actors : Keeps(req[r], i, k)

(* A key belongs to one id for ever, whatever comes back in between.        *)
OneHome == \A i, j \in FileIds, k \in Keys : Known(i, k) /\ Known(j, k) => i = j

(* Keys whose row is not inserted yet.                                      *)
Unborn(q) == IF q.pc = "row" THEN {q.key} ELSE IF q.pc = "vrow" THEN {q.vkey} ELSE {}

Fresh ==
    /\ \A i \in FileIds, k \in Keys : Known(i, k) => k <= used
    /\ \A r \in Actors : req[r].key <= used /\ req[r].vkey <= used
    /\ \A r \in Actors : \A k \in Unborn(req[r]) :
          /\ k \in blobs
          /\ \A i \in FileIds : ~Known(i, k)
          /\ \A s \in Actors : k \in Unborn(req[s]) => r = s

(* What a request unlinks without looking at a row again.                   *)
Going(q) ==
    IF q.pc # "unlink" THEN {} ELSE IF q.op = "article" THEN q.doomed ELSE {Victim(q)}

UnlinkedHasNoRow ==
    \A r \in Actors : \A d \in Going(req[r]) :
        \A i \in FileIds : files[i].key = d.key => d.key \in unrestored

(* What a finished or unfinished backup has of a row's blob.                *)
Packed(db, more) ==
    \A i \in FileIds : db.files[i] # NoFile =>
        db.files[i].key \in db.blobs \cup more \cup unrestored \/ db.files[i].key \notin blobs

BackupHolds ==
    /\ BundleHoldsItsBlobs
    /\ transfer.pc = "pack" => Packed(transfer.db, transfer.todo)
    /\ transfer.pc = "blobs" => transfer.todo \subseteq bundle.blobs

RowInv == TypeOK /\ Shaped /\ OneHome /\ Fresh /\ RowHasBlob /\ UnlinkedHasNoRow /\ BackupHolds
-----------------------------------------------------------------------------
(* Why an embedded URL is served.                                           *)

Embedded(k) == \E d \in Docs : k \in bodies[d]

(* A key whose URL somebody has, or that a request may still hand out.      *)
Taken(k) == k \in issued \/ \E r \in Actors : req[r].key = k

EmbeddedHasRow == \A k \in Keys : Embedded(k) => k \in issued /\ \E i \in FileIds : files[i].key = k

(* A request alone knows the key it stores, and that for less than a day.   *)
OwnKeys ==
    \A r \in Actors : req[r].key # 0 =>
        /\ req[r].key \notin issued /\ req[r].key > aged
        /\ \A s \in Actors : req[s].key = req[r].key => s = r
        /\ req[r].file # 0 => files[req[r].file] = [key |-> req[r].key, of |-> 0]

(* Nobody has the URL of a variant or of a static file.                     *)
VariantsUntaken == \A i \in FileIds : files[i].of # 0 => ~Taken(files[i].key)

StaticsUntaken == \A n \in Names : statics[n] # 0 => Stored(statics[n]) /\ ~Taken(files[statics[n]].key)

AttachedStored ==
    \A t \in FileIds : attachments[t].file # 0 =>
        /\ Stored(attachments[t].file)
        /\ \A r \in Actors : req[r].key # files[attachments[t].file].key

ReadsUntaken ==
    \A r \in Actors :
        /\ req[r].pc = "vrow" => ~Taken(req[r].vkey)
        /\ req[r].oldKey # 0 => ~Taken(req[r].oldKey)

(* What a removal may still delete is nobody's, or old and not embedded.    *)
Spared(q, d) == ~Taken(d.key) \/ (d.key <= aged /\ ~Embedded(d.key)) \/ (q.pc = "unlink" /\ q.op = "article")

RemovalsSpare ==
    \A r \in Actors :
        /\ \A d \in req[r].doomed : Spared(req[r], d)
        /\ \A c \in req[r].cands : c.key <= aged

TableParts == EmbeddedHasRow /\ VariantsUntaken /\ StaticsUntaken /\ AttachedStored

RequestParts == OwnKeys /\ ReadsUntaken /\ RemovalsSpare

EmbedInv == IdsKeptTheirRows => unrestored = {} /\ TableParts /\ RequestParts
-----------------------------------------------------------------------------
(* Why nothing is forgotten: f is the files table, l the keys let go.       *)

(* The row whose removal takes row i along.                                 *)
Root(f, i) == IF f[i].of = 0 THEN i ELSE f[i].of

VariantsRooted == \A i \in FileIds : files[i].of # 0 => Stored(files[i].of) /\ files[files[i].of].of = 0

AttachedIssued ==
    \A t \in FileIds : attachments[t].file # 0 =>
        files[attachments[t].file].key \in issued /\ files[attachments[t].file].of = 0

StaticsOriginal == \A n \in Names : statics[n] # 0 => files[statics[n]].of = 0

TablesWhole == VariantsRooted /\ AttachedIssued /\ StaticsOriginal

RootRead(f, i, k) == f[i].key = k => f[i].of = 0

(* A removal that reaches the original has its key let go already, or has   *)
(* every variant of it before it.                                           *)
FamilyWhole(f, l, q) ==
    \A d \in q.doomed : d.of = 0 /\ f[d.id].key = d.key =>
        d.key \in l \/ \A v \in FileIds : f[v].of = d.id => \E e \in q.doomed : e.of # 0 /\ e.key = f[v].key

(* What a request has read is a root or a variant as it read it.            *)
Whole(f, l, q) ==
    /\ q.oldKey # 0 => RootRead(f, q.old, q.oldKey)
    /\ \A c \in q.cands : RootRead(f, c.id, c.key)
    /\ \A d \in q.doomed : f[d.id].key = d.key => f[d.id].of = d.of
    /\ q.op # "article" => FamilyWhole(f, l, q)

RequestsWhole == \A r \in Actors : Whole(files, lost, req[r])

(* A request that still works on a row, and one that is about to insert the *)
(* row of a blob or to unlink it.                                           *)
Covers(f, q, i) ==
    \/ q.file = Root(f, i)
    \/ q.pc = "check" /\ q.old = Root(f, i) /\ q.oldKey = f[Root(f, i)].key
    \/ \E d \in q.doomed : d.key = f[i].key

Works(q, k) == k \in Unborn(q) \/ \E d \in Going(q) : d.key = k

RowsCovered ==
    \A i \in FileIds : Stored(i) =>
        \/ files[Root(files, i)].key \in issued \/ files[i].key \in lost
        \/ \E n \in Names : statics[n] = Root(files, i)
        \/ \E r \in Actors : Covers(files, req[r], i)

BlobsCovered ==
    \A k \in blobs : k \in lost \/ (\E i \in FileIds : files[i].key = k) \/ \E r \in Actors : Works(req[r], k)

ForgetParts == TablesWhole /\ RequestsWhole /\ RowsCovered /\ BlobsCovered

ForgetInv == (transfer.pc = "blobs" => merged) /\ (IdsKeptTheirRows => ForgetParts)


-----------------------------------------------------------------------------
(* Requests: what each step makes of the request's record.                  *)

(* The idle request is well-formed.                                         *)
LEMMA IdleShape == Idle \in Request /\ Shape(Idle)
  BY DEF Idle, Request, Shape, WithKey, Docs, Page

(* A finished request is idle, or the sweep with its remaining candidates.  *)
LEMMA FinishedShape ==
  ASSUME NEW q \in Request, Shape(q)
  PROVE  /\ Finished(q) \in Request /\ Shape(Finished(q))
         /\ Finished(q).pc \in {"idle", "examine"} /\ Finished(q).cands \subseteq q.cands
<1>1. CASE q.op = "reap" /\ q.cands # {}
  <2> DEFINE f == [Idle EXCEPT !.pc = "examine", !.op = "reap", !.cands = q.cands]
  <2>1. Finished(q) = f
    BY <1>1 DEF Finished
  <2>2. /\ f.pc = "examine" /\ f.op = "reap" /\ f.arg = 0 /\ f.image = FALSE /\ f.file = 0 /\ f.key = 0
        /\ f.vkey = 0 /\ f.seen = 0 /\ f.old = 0 /\ f.oldKey = 0 /\ f.doomed = {} /\ f.cands = q.cands
    BY DEF Idle
  <2>3. f \in Request
    BY DEF Idle, Request, Docs, Page
  <2> HIDE DEF f
  <2>4. Shape(f)
    BY <2>2, <1>1 DEF Shape, WithKey
  <2> QED
    BY <2>1, <2>2, <2>3, <2>4
<1>2. CASE ~(q.op = "reap" /\ q.cands # {})
  BY <1>2, IdleShape DEF Finished, Idle
<1> QED
  BY <1>1, <1>2

(* A step of one request leaves the others as they are.                     *)
LEMMA GoShape ==
  ASSUME req \in [Actors -> Request], \A s \in Actors : Shape(req[s]),
         NEW r \in Actors, NEW q2 \in Request, Shape(q2), Go(r, q2)
  PROVE  /\ req' \in [Actors -> Request] /\ \A s \in Actors : Shape(req[s])'
         /\ req'[r] = q2 /\ \A s \in Actors \ {r} : req'[s] = req[s]
<1>1. req' = [req EXCEPT ![r] = q2]
  BY DEF Go
<1>2. req' \in [Actors -> Request] /\ req'[r] = q2 /\ \A s \in Actors \ {r} : req'[s] = req[s]
  BY <1>1
<1>3. \A s \in Actors : Shape(req'[s])
  BY <1>2
<1> QED
  BY <1>2, <1>3

(* Begin, a stored static file aside: a request with nothing stored yet.    *)
LEMMA BeginShape ==
  ASSUME NEW op \in {"upload", "attach", "rss", "static"}, NEW arg \in Docs \cup Names \cup {0}, NEW image \in BOOLEAN,
         op = "static" => arg \in Names, op = "attach" => arg \in Articles,
         NEW q2, q2 = [Idle EXCEPT !.pc = "blob", !.op = op, !.arg = arg, !.image = image]
  PROVE  q2 \in Request /\ Shape(q2) /\ q2.pc = "blob" /\ q2.cands = {}
<1>1. /\ q2.pc = "blob" /\ q2.op = op /\ q2.arg = arg /\ q2.image = image /\ q2.file = 0 /\ q2.key = 0
      /\ q2.vkey = 0 /\ q2.seen = 0 /\ q2.old = 0 /\ q2.oldKey = 0 /\ q2.doomed = {} /\ q2.cands = {}
  BY DEF Idle
<1>2. q2 \in Request
  BY DEF Idle, Request
<1>3. Shape(q2)
  BY <1>1 DEF Shape, WithKey
<1> QED
  BY <1>1, <1>2, <1>3

(* What the steps make of the record of a request.                          *)
WithBlob(q, k) == [q EXCEPT !.pc = "row", !.key = k]
WithVariantBlob(q, k) == [q EXCEPT !.pc = "vrow", !.vkey = k]
WithRow(q, id) == [q EXCEPT !.pc = "vblob", !.file = id]
WithFile(q, id) == [q EXCEPT !.pc = AfterStore(q.op), !.file = id, !.vkey = 0]
PurgingOwn(q) == [q EXCEPT !.pc = "check", !.old = q.file, !.oldKey = q.key, !.file = 0, !.key = 0]
LookedUp(q, pc, id) == [q EXCEPT !.pc = pc, !.seen = id]
OldFound(q, id, k) == [q EXCEPT !.pc = "swap", !.old = id, !.oldKey = k]
Swapped(q) == [q EXCEPT !.pc = "check", !.file = 0, !.key = 0]
Fetched(q, id, k) == [q EXCEPT !.pc = "check", !.old = id, !.oldKey = k, !.seen = 0]
Checked(q, S) == [q EXCEPT !.pc = "delete", !.doomed = S, !.old = 0, !.oldKey = 0]
Unattached(q, S) == [q EXCEPT !.pc = "delete", !.doomed = S, !.file = 0, !.key = 0]
Deleted(q) == [q EXCEPT !.pc = "unlink"]
Dropped(q, pc, S) == [q EXCEPT !.pc = pc, !.doomed = S]
Rested(q, C, S) == [q EXCEPT !.pc = "delete", !.doomed = S, !.cands = C]

(* writeFile stored the blob of the file under a new key.                   *)
LEMMA BlobShape ==
  ASSUME NEW q \in Request, Shape(q), q.pc = "blob", NEW k \in Keys, k # 0
  PROVE  /\ WithBlob(q, k) \in Request /\ Shape(WithBlob(q, k))
         /\ WithBlob(q, k).pc = "row" /\ WithBlob(q, k).op = q.op /\ WithBlob(q, k).key = k /\ WithBlob(q, k).cands = q.cands
<1> DEFINE q2 == WithBlob(q, k)
<1>1. /\ q2.pc = "row" /\ q2.op = q.op /\ q2.arg = q.arg /\ q2.image = q.image
      /\ q2.file = q.file /\ q2.key = k /\ q2.vkey = q.vkey /\ q2.seen = q.seen
      /\ q2.old = q.old /\ q2.oldKey = q.oldKey /\ q2.doomed = q.doomed /\ q2.cands = q.cands
  BY DEF Request, WithBlob
<1>2. q2 \in Request
  BY DEF Request, WithBlob
<1> HIDE DEF q2
<1>3. Shape(q2)
  BY <1>1 DEF Shape, WithKey
<1> QED
  BY <1>1, <1>2, <1>3 DEF q2

(* writeFile stored the blob of a variant under a new key.                  *)
LEMMA VariantBlobShape ==
  ASSUME NEW q \in Request, Shape(q), q.pc = "vblob", NEW k \in Keys, k # 0
  PROVE  /\ WithVariantBlob(q, k) \in Request /\ Shape(WithVariantBlob(q, k))
         /\ WithVariantBlob(q, k).pc = "vrow" /\ WithVariantBlob(q, k).op = q.op /\ WithVariantBlob(q, k).key = q.key
         /\ WithVariantBlob(q, k).file = q.file /\ WithVariantBlob(q, k).vkey = k /\ WithVariantBlob(q, k).cands = q.cands
<1> DEFINE q2 == WithVariantBlob(q, k)
<1>1. /\ q2.pc = "vrow" /\ q2.op = q.op /\ q2.arg = q.arg /\ q2.image = q.image
      /\ q2.file = q.file /\ q2.key = q.key /\ q2.vkey = k /\ q2.seen = q.seen
      /\ q2.old = q.old /\ q2.oldKey = q.oldKey /\ q2.doomed = q.doomed /\ q2.cands = q.cands
  BY DEF Request, WithVariantBlob
<1>2. q2 \in Request
  BY DEF Request, WithVariantBlob
<1> HIDE DEF q2
<1>3. Shape(q2)
  BY <1>1 DEF Shape, WithKey
<1> QED
  BY <1>1, <1>2, <1>3 DEF q2

(* The row of the file is there, its variant is next.                       *)
LEMMA RowShape ==
  ASSUME NEW q \in Request, Shape(q), q.pc = "row", q.image, NEW id \in FileIds, id # 0
  PROVE  /\ WithRow(q, id) \in Request /\ Shape(WithRow(q, id))
         /\ WithRow(q, id).pc = "vblob" /\ WithRow(q, id).key = q.key /\ WithRow(q, id).file = id
         /\ WithRow(q, id).cands = q.cands
<1> DEFINE q2 == WithRow(q, id)
<1>1. /\ q2.pc = "vblob" /\ q2.op = q.op /\ q2.arg = q.arg /\ q2.image = q.image
      /\ q2.file = id /\ q2.key = q.key /\ q2.vkey = q.vkey /\ q2.seen = q.seen
      /\ q2.old = q.old /\ q2.oldKey = q.oldKey /\ q2.doomed = q.doomed /\ q2.cands = q.cands
  BY DEF Request, WithRow
<1>2. q2 \in Request
  BY DEF Request, WithRow
<1> HIDE DEF q2
<1>3. Shape(q2)
  BY <1>1 DEF Shape, WithKey
<1> QED
  BY <1>1, <1>2, <1>3 DEF q2

(* Store returns, and the request goes on with the stored file.             *)
LEMMA StoredShape ==
  ASSUME NEW q \in Request, Shape(q), q.pc \in {"row", "vrow"}, q.op # "upload", NEW id \in FileIds, id # 0
  PROVE  /\ WithFile(q, id) \in Request /\ Shape(WithFile(q, id))
         /\ WithFile(q, id).pc \in {"attach", "embed", "lookup"} /\ WithFile(q, id).key = q.key
         /\ WithFile(q, id).file = id /\ WithFile(q, id).cands = q.cands /\ WithFile(q, id).op = q.op
<1> DEFINE q2 == WithFile(q, id)
<1>0. /\ AfterStore(q.op) \in {"attach", "embed", "lookup"}
      /\ AfterStore(q.op) = "attach" <=> q.op = "attach"
      /\ AfterStore(q.op) = "embed" <=> q.op = "rss"
      /\ AfterStore(q.op) = "lookup" <=> q.op = "static"
  BY DEF Shape, AfterStore
<1>1. /\ q2.pc = AfterStore(q.op) /\ q2.op = q.op /\ q2.arg = q.arg /\ q2.image = q.image
      /\ q2.file = id /\ q2.key = q.key /\ q2.vkey = 0 /\ q2.seen = q.seen
      /\ q2.old = q.old /\ q2.oldKey = q.oldKey /\ q2.doomed = q.doomed /\ q2.cands = q.cands
  BY DEF Request, WithFile
<1>2. q2 \in Request
  BY <1>0 DEF Request, WithFile
<1> HIDE DEF q2
<1>3. Shape(q2)
  BY <1>0, <1>1 DEF Shape, WithKey
<1> QED
  BY <1>0, <1>1, <1>2, <1>3 DEF q2

(* A static upload that failed purges the file it stored.                   *)
LEMMA PurgeOwnShape ==
  ASSUME NEW q \in Request, Shape(q), q.pc \in {"lookup", "create", "swap"}
  PROVE  /\ PurgingOwn(q) \in Request /\ Shape(PurgingOwn(q))
         /\ PurgingOwn(q).pc = "check" /\ PurgingOwn(q).old = q.file /\ PurgingOwn(q).oldKey = q.key
         /\ PurgingOwn(q).cands = q.cands
<1> DEFINE q2 == PurgingOwn(q)
<1>1. /\ q2.pc = "check" /\ q2.op = q.op /\ q2.arg = q.arg /\ q2.image = q.image
      /\ q2.file = 0 /\ q2.key = 0 /\ q2.vkey = q.vkey /\ q2.seen = q.seen
      /\ q2.old = q.file /\ q2.oldKey = q.key /\ q2.doomed = q.doomed /\ q2.cands = q.cands
  BY DEF Request, PurgingOwn
<1>2. q2 \in Request
  BY DEF Request, PurgingOwn
<1> HIDE DEF q2
<1>3. Shape(q2)
  BY <1>1 DEF Shape, WithKey
<1> QED
  BY <1>1, <1>2, <1>3 DEF q2

(* GetStaticFileByFilename answered.                                        *)
LEMMA LookupShape ==
  ASSUME NEW q \in Request, Shape(q), q.pc = "lookup", NEW pc \in {"create", "old"}, NEW id \in {0} \cup FileIds
  PROVE  /\ LookedUp(q, pc, id) \in Request /\ Shape(LookedUp(q, pc, id))
         /\ LookedUp(q, pc, id).pc = pc /\ LookedUp(q, pc, id).key = q.key /\ LookedUp(q, pc, id).file = q.file
         /\ LookedUp(q, pc, id).cands = q.cands
<1> DEFINE q2 == LookedUp(q, pc, id)
<1>1. /\ q2.pc = pc /\ q2.op = q.op /\ q2.arg = q.arg /\ q2.image = q.image
      /\ q2.file = q.file /\ q2.key = q.key /\ q2.vkey = q.vkey /\ q2.seen = id
      /\ q2.old = q.old /\ q2.oldKey = q.oldKey /\ q2.doomed = q.doomed /\ q2.cands = q.cands
  BY DEF Request, LookedUp
<1>2. q2 \in Request
  BY DEF Request, LookedUp
<1> HIDE DEF q2
<1>3. Shape(q2)
  BY <1>1 DEF Shape, WithKey
<1> QED
  BY <1>1, <1>2, <1>3 DEF q2

(* GetFileForStaticFilename answered, or failed and leaves nothing to purge.*)
LEMMA OldFileShape ==
  ASSUME NEW q \in Request, Shape(q), q.pc = "old", NEW id \in {0} \cup FileIds, NEW k \in {0} \cup Keys, k # 0 => id # 0
  PROVE  /\ OldFound(q, id, k) \in Request /\ Shape(OldFound(q, id, k))
         /\ OldFound(q, id, k).pc = "swap" /\ OldFound(q, id, k).key = q.key /\ OldFound(q, id, k).file = q.file
         /\ OldFound(q, id, k).old = id /\ OldFound(q, id, k).oldKey = k /\ OldFound(q, id, k).cands = q.cands
<1> DEFINE q2 == OldFound(q, id, k)
<1>1. /\ q2.pc = "swap" /\ q2.op = q.op /\ q2.arg = q.arg /\ q2.image = q.image
      /\ q2.file = q.file /\ q2.key = q.key /\ q2.vkey = q.vkey /\ q2.seen = q.seen
      /\ q2.old = id /\ q2.oldKey = k /\ q2.doomed = q.doomed /\ q2.cands = q.cands
  BY DEF Request, OldFound
<1>2. q2 \in Request
  BY DEF Request, OldFound
<1> HIDE DEF q2
<1>3. Shape(q2)
  BY <1>1 DEF Shape, WithKey
<1> QED
  BY <1>1, <1>2, <1>3 DEF q2

(* The static_files row was swapped: the old file is next.                  *)
LEMMA SwappedShape ==
  ASSUME NEW q \in Request, Shape(q), q.pc = "swap", q.old # 0
  PROVE  /\ Swapped(q) \in Request /\ Shape(Swapped(q))
         /\ Swapped(q).pc = "check" /\ Swapped(q).old = q.old /\ Swapped(q).oldKey = q.oldKey /\ Swapped(q).cands = q.cands
<1> DEFINE q2 == Swapped(q)
<1>1. /\ q2.pc = "check" /\ q2.op = q.op /\ q2.arg = q.arg /\ q2.image = q.image
      /\ q2.file = 0 /\ q2.key = 0 /\ q2.vkey = q.vkey /\ q2.seen = q.seen
      /\ q2.old = q.old /\ q2.oldKey = q.oldKey /\ q2.doomed = q.doomed /\ q2.cands = q.cands
  BY DEF Request, Swapped
<1>2. q2 \in Request
  BY DEF Request, Swapped
<1> HIDE DEF q2
<1>3. Shape(q2)
  BY <1>1 DEF Shape, WithKey
<1> QED
  BY <1>1, <1>2, <1>3 DEF q2

(* DeleteStaticFile returned the file the row named.                        *)
LEMMA FetchedShape ==
  ASSUME NEW q \in Request, Shape(q), q.pc = "fetch", NEW id \in FileIds, id # 0, NEW k \in {0} \cup Keys
  PROVE  /\ Fetched(q, id, k) \in Request /\ Shape(Fetched(q, id, k))
         /\ Fetched(q, id, k).pc = "check" /\ Fetched(q, id, k).old = id /\ Fetched(q, id, k).oldKey = k
         /\ Fetched(q, id, k).cands = q.cands
<1> DEFINE q2 == Fetched(q, id, k)
<1>1. /\ q2.pc = "check" /\ q2.op = q.op /\ q2.arg = q.arg /\ q2.image = q.image
      /\ q2.file = q.file /\ q2.key = q.key /\ q2.vkey = q.vkey /\ q2.seen = 0
      /\ q2.old = id /\ q2.oldKey = k /\ q2.doomed = q.doomed /\ q2.cands = q.cands
  BY DEF Request, Fetched
<1>2. q2 \in Request
  BY DEF Request, Fetched
<1> HIDE DEF q2
<1>3. Shape(q2)
  BY <1>1 DEF Shape, WithKey
<1> QED
  BY <1>1, <1>2, <1>3 DEF q2

(* Nothing names the old file: its family goes.                             *)
LEMMA CheckedShape ==
  ASSUME NEW q \in Request, Shape(q), q.pc = "check", NEW S \in SUBSET FileRef, S # {}
  PROVE  /\ Checked(q, S) \in Request /\ Shape(Checked(q, S))
         /\ Checked(q, S).pc = "delete" /\ Checked(q, S).doomed = S /\ Checked(q, S).cands = q.cands
<1> DEFINE q2 == Checked(q, S)
<1>1. /\ q2.pc = "delete" /\ q2.op = q.op /\ q2.arg = q.arg /\ q2.image = q.image
      /\ q2.file = q.file /\ q2.key = q.key /\ q2.vkey = q.vkey /\ q2.seen = q.seen
      /\ q2.old = 0 /\ q2.oldKey = 0 /\ q2.doomed = S /\ q2.cands = q.cands
  BY DEF Request, Checked
<1>2. q2 \in Request
  BY DEF Request, Checked
<1> HIDE DEF q2
<1>3. Shape(q2)
  BY <1>1 DEF Shape, WithKey
<1> QED
  BY <1>1, <1>2, <1>3 DEF q2

(* Attach failed: the family of the stored file goes.                       *)
LEMMA UnattachedShape ==
  ASSUME NEW q \in Request, Shape(q), q.pc = "attach", NEW S \in SUBSET FileRef, S # {}
  PROVE  /\ Unattached(q, S) \in Request /\ Shape(Unattached(q, S))
         /\ Unattached(q, S).pc = "delete" /\ Unattached(q, S).doomed = S /\ Unattached(q, S).cands = q.cands
<1> DEFINE q2 == Unattached(q, S)
<1>1. /\ q2.pc = "delete" /\ q2.op = q.op /\ q2.arg = q.arg /\ q2.image = q.image
      /\ q2.file = 0 /\ q2.key = 0 /\ q2.vkey = q.vkey /\ q2.seen = q.seen
      /\ q2.old = q.old /\ q2.oldKey = q.oldKey /\ q2.doomed = S /\ q2.cands = q.cands
  BY DEF Request, Unattached
<1>2. q2 \in Request
  BY DEF Request, Unattached
<1> HIDE DEF q2
<1>3. Shape(q2)
  BY <1>1 DEF Shape, WithKey
<1> QED
  BY <1>1, <1>2, <1>3 DEF q2

(* The row is deleted, its blob is next.                                    *)
LEMMA DeletedShape ==
  ASSUME NEW q \in Request, Shape(q), q.pc = "delete"
  PROVE  /\ Deleted(q) \in Request /\ Shape(Deleted(q))
         /\ Deleted(q).pc = "unlink" /\ Deleted(q).op = q.op /\ Deleted(q).doomed = q.doomed /\ Deleted(q).cands = q.cands
<1> DEFINE q2 == Deleted(q)
<1>1. /\ q2.pc = "unlink" /\ q2.op = q.op /\ q2.arg = q.arg /\ q2.image = q.image
      /\ q2.file = q.file /\ q2.key = q.key /\ q2.vkey = q.vkey /\ q2.seen = q.seen
      /\ q2.old = q.old /\ q2.oldKey = q.oldKey /\ q2.doomed = q.doomed /\ q2.cands = q.cands
  BY DEF Request, Deleted
<1>2. q2 \in Request
  BY DEF Request, Deleted
<1> HIDE DEF q2
<1>3. Shape(q2)
  BY <1>1 DEF Shape, WithKey
<1> QED
  BY <1>1, <1>2, <1>3 DEF q2

(* The next row, or blob, of a family.                                      *)
LEMMA DropShape ==
  ASSUME NEW q \in Request, Shape(q), q.pc \in {"delete", "unlink"}, NEW pc \in {"delete", "unlink"},
         q.op = "article" => pc = "unlink", NEW S \in SUBSET q.doomed, S # {}
  PROVE  /\ Dropped(q, pc, S) \in Request /\ Shape(Dropped(q, pc, S))
         /\ Dropped(q, pc, S).pc = pc /\ Dropped(q, pc, S).op = q.op /\ Dropped(q, pc, S).doomed = S
         /\ Dropped(q, pc, S).cands = q.cands
<1> DEFINE q2 == Dropped(q, pc, S)
<1>1. /\ q2.pc = pc /\ q2.op = q.op /\ q2.arg = q.arg /\ q2.image = q.image
      /\ q2.file = q.file /\ q2.key = q.key /\ q2.vkey = q.vkey /\ q2.seen = q.seen
      /\ q2.old = q.old /\ q2.oldKey = q.oldKey /\ q2.doomed = S /\ q2.cands = q.cands
  BY DEF Request, Dropped
<1>2. q2 \in Request
  BY DEF Request, Dropped
<1> HIDE DEF q2
<1>3. Shape(q2)
  BY <1>1 DEF Shape, WithKey
<1> QED
  BY <1>1, <1>2, <1>3 DEF q2

(* The sweep has examined a candidate.                                      *)
LEMMA RestShape ==
  ASSUME NEW q \in Request, Shape(q), q.pc = "examine", q.op = "reap", NEW C \in SUBSET q.cands,
         NEW S \in SUBSET FileRef, S # {}
  PROVE  /\ Rested(q, C, S) \in Request /\ Shape(Rested(q, C, S))
         /\ Rested(q, C, S).pc = "delete" /\ Rested(q, C, S).doomed = S /\ Rested(q, C, S).cands = C
<1> DEFINE q2 == Rested(q, C, S)
<1>1. /\ q2.pc = "delete" /\ q2.op = q.op /\ q2.arg = q.arg /\ q2.image = q.image
      /\ q2.file = q.file /\ q2.key = q.key /\ q2.vkey = q.vkey /\ q2.seen = q.seen
      /\ q2.old = q.old /\ q2.oldKey = q.oldKey /\ q2.doomed = S /\ q2.cands = C
  BY DEF Request, Rested
<1>2. q2 \in Request
  BY DEF Request, Rested
<1> HIDE DEF q2
<1>3. Shape(q2)
  BY <1>1 DEF Shape, WithKey
<1> QED
  BY <1>1, <1>2, <1>3 DEF q2

-----------------------------------------------------------------------------
(* Steps: what each does to the request it belongs to.                      *)

(* The ways a request goes on that neither touch a row nor a blob.          *)
Starts(q, q2) == q = Idle /\ q2.pc \in {"blob", "fetch"} /\ q2.cands = {}
Ends(q, q2) == q2.pc \in {"idle", "examine"} /\ q2.cands \subseteq q.cands
Continues(q, q2) == q2.pc \in {"create", "old"} /\ q2.key = q.key /\ q2.file = q.file /\ q2.cands = q.cands
Resolves(q, q2) ==
    /\ q2.pc = "swap" /\ q2.key = q.key /\ q2.file = q.file /\ q2.cands = q.cands
    /\ \/ q2.old = 0 /\ q2.oldKey = 0
       \/ q2.old # 0 /\ q2.old = statics[q.arg] /\ q2.oldKey = files[q2.old].key /\ q.arg \in Names
PurgesOwn(q, q2) == q2.pc = "check" /\ q2.old = q.file /\ q2.oldKey = q.key /\ q2.cands = q.cands
PurgesOld(q, q2) == q2.pc = "check" /\ q2.old = q.old /\ q2.oldKey = q.oldKey /\ q2.cands = q.cands
PurgesNamed(q, q2) ==
    /\ q2.pc = "check" /\ q2.old = statics[q.arg] /\ q2.oldKey = files[q2.old].key /\ q2.cands = q.cands
    /\ q.arg \in Names
Removes(q, q2, i, k) == q2.pc = "delete" /\ q2.doomed = Family(i, k) /\ q2.cands \subseteq q.cands
Skips(q, q2) == q2.pc = "delete" /\ q2.doomed \subseteq q.doomed /\ q2.cands = q.cands

Steady == UNCHANGED <<files, blobs, used, aged, attachments, statics, articles, bodies, issued, mistaken>>

(* A request at hand is typed and well-formed.                              *)
LEMMA RequestFacts ==
  ASSUME TypeOK, Shaped, NEW r \in Actors
  PROVE  req \in [Actors -> Request] /\ req[r] \in Request /\ Shape(req[r])
  BY DEF TypeOK, FilesTypeOK, Shaped

(* Ids and keys are numbers from one on.                                    *)
LEMMA Numbers == /\ 0 \notin FileIds /\ 0 \notin Keys /\ FileIds \subseteq Nat /\ Keys \subseteq Nat
                 /\ Requests \subseteq Actors /\ Reaper \in Actors
  BY DEF FileIds, Keys, Actors

(* A stored row has a key of its own; an absent one has none.               *)
LEMMA RowFacts ==
  ASSUME TypeOK, NEW i \in FileIds
  PROVE  /\ files[i].key \in {0} \cup Keys /\ files[i].of \in {0} \cup FileIds
         /\ Stored(i) <=> files[i].key # 0
         /\ files[i] = NoFile <=> files[i].key = 0
         /\ files[i].of # 0 => Stored(i)
<1>1. files[i] \in File \cup {NoFile}
  BY DEF TypeOK, FilesTypeOK, FileTable
<1> QED
  BY <1>1, Numbers DEF File, NoFile, Stored

(* The family of a row consists of rows as they were read.                  *)
LEMMA FamilyFacts ==
  ASSUME TypeOK, NEW i \in FileIds, NEW k \in Keys
  PROVE  /\ Family(i, k) \in SUBSET FileRef /\ Family(i, k) # {}
         /\ \A d \in Family(i, k) :
               \/ d.id = i /\ d.key = k /\ d.of = 0
               \/ d.id \in FileIds /\ files[d.id].key = d.key /\ files[d.id].of = i /\ d.of = i
<1>1. Ref(i, k, 0) \in FileRef
  BY Numbers DEF Ref, FileRef
<1>2. \A v \in ListFileVariants(i) : Ref(v, files[v].key, i) \in FileRef
  BY RowFacts, Numbers DEF Ref, FileRef, ListFileVariants
<1>3. Ref(i, k, 0) \in Family(i, k)
  BY DEF Family
<1>4. \A d \in Family(i, k) : d = Ref(i, k, 0) \/ \E v \in ListFileVariants(i) : d = Ref(v, files[v].key, i)
  BY DEF Family
<1>5. \A d \in Family(i, k) :
         \/ d.id = i /\ d.key = k /\ d.of = 0
         \/ d.id \in FileIds /\ files[d.id].key = d.key /\ files[d.id].of = i /\ d.of = i
  BY <1>4 DEF Ref, ListFileVariants
<1> QED
  BY <1>1, <1>2, <1>3, <1>4, <1>5

(* End: the request is finished.                                            *)
LEMMA EndEffect ==
  ASSUME TypeOK, Shaped, NEW r \in Actors, End(r)
  PROVE  \E q2 \in Request : Shape(q2) /\ Go(r, q2) /\ Ends(req[r], q2)
<1>1. Go(r, Finished(req[r]))
  BY RequestFacts DEF End, Go
<1> QED
  BY <1>1, RequestFacts, FinishedShape DEF Ends

(* A static upload that failed purges what it stored.                       *)
LEMMA PurgeOwnEffect ==
  ASSUME TypeOK, Shaped, NEW r \in Actors, PurgeOwn(r), req[r].pc \in {"lookup", "create", "swap"}
  PROVE  \E q2 \in Request : Shape(q2) /\ Go(r, q2) /\ PurgesOwn(req[r], q2)
<1> DEFINE q == req[r]
           q2 == PurgingOwn(q)
<1>1. q \in Request /\ Shape(q)
  BY RequestFacts
<1>2. Go(r, q2)
  BY DEF PurgeOwn, PurgingOwn
<1> HIDE DEF q
<1>3. q2 \in Request /\ Shape(q2) /\ PurgesOwn(q, q2)
  BY <1>1, PurgeOwnShape DEF PurgesOwn, q
<1> QED
  BY <1>2, <1>3 DEF q

(* Upload, StaticUpload, ImportEntryImage and StaticDestroy begin.          *)
LEMMA StartEffect ==
  ASSUME TypeOK, Shaped, NEW r \in Requests,
         Upload(r) \/ StaticUpload(r) \/ ImportEntryImage(r) \/ StaticDestroy(r)
  PROVE  Steady /\ \E q2 \in Request : Shape(q2) /\ Go(r, q2) /\ Starts(req[r], q2)
<1>1. ASSUME NEW op \in {"upload", "attach", "rss", "static"}, NEW arg \in Docs \cup Names \cup {0}, NEW image \in BOOLEAN,
             op = "static" => arg \in Names, op = "attach" => arg \in Articles,
             Begin(r, op, arg, image)
      PROVE  Steady /\ \E q2 \in Request : Shape(q2) /\ Go(r, q2) /\ Starts(req[r], q2)
  <2> DEFINE q2 == [Idle EXCEPT !.pc = "blob", !.op = op, !.arg = arg, !.image = image]
  <2>1. req[r] = Idle /\ Go(r, q2) /\ Steady
    BY <1>1 DEF Begin, Steady
  <2> HIDE DEF q2
  <2>2. q2 \in Request /\ Shape(q2) /\ q2.pc = "blob" /\ q2.cands = {}
    <3>1. q2 = [Idle EXCEPT !.pc = "blob", !.op = op, !.arg = arg, !.image = image]
      BY DEF q2
    <3> QED
      BY <1>1, <3>1, BeginShape
  <2> QED
    BY <2>1, <2>2 DEF Starts
<1>2. CASE Upload(r)
  <2>1. PICK image \in BOOLEAN : Begin(r, "upload", 0, image) \/ \E a \in articles : Begin(r, "attach", a, image)
    BY <1>2 DEF Upload
  <2>2. articles \subseteq Docs /\ articles \subseteq Articles
    BY DEF TypeOK, FilesTypeOK, Docs
  <2> QED
    BY <1>1, <2>1, <2>2
<1>3. CASE StaticUpload(r)
  BY <1>1, <1>3 DEF StaticUpload
<1>4. CASE ImportEntryImage(r)
  BY <1>1, <1>4 DEF ImportEntryImage
<1>5. CASE StaticDestroy(r)
  <2>1. PICK n \in Names : /\ statics[n] # 0
                           /\ Go(r, [Idle EXCEPT !.pc = "fetch", !.op = "destroy", !.arg = n, !.seen = statics[n]])
    BY <1>5 DEF StaticDestroy
  <2>2. req[r] = Idle /\ Steady
    BY <1>5 DEF StaticDestroy, Steady
  <2> DEFINE q2 == [Idle EXCEPT !.pc = "fetch", !.op = "destroy", !.arg = n, !.seen = statics[n]]
  <2>3. /\ q2.pc = "fetch" /\ q2.op = "destroy" /\ q2.arg = n /\ q2.image = FALSE /\ q2.file = 0 /\ q2.key = 0 /\ q2.vkey = 0
        /\ q2.old = 0 /\ q2.oldKey = 0 /\ q2.doomed = {} /\ q2.cands = {}
    BY DEF Idle
  <2>4. statics[n] \in {0} \cup FileIds
    BY DEF TypeOK, FilesTypeOK, StaticTable
  <2>5. q2 \in Request
    BY <2>4 DEF Idle, Request
  <2> HIDE DEF q2
  <2>6. Shape(q2)
    BY <2>3 DEF Shape, WithKey
  <2> QED
    BY <2>1, <2>2, <2>3, <2>5, <2>6 DEF Starts, q2
<1> QED
  BY <1>2, <1>3, <1>4, <1>5

(* FindStatic, CreateStaticFile, GetFileForStaticFilename, UpdateStaticFile *)
(* and DeleteStaticFile go on with what they read, or purge.                *)
LEMMA FindEffect ==
  ASSUME TypeOK, Shaped, NEW r \in Requests, FindStatic(r)
  PROVE  Steady /\ \E q2 \in Request :
            Shape(q2) /\ Go(r, q2) /\ (Continues(req[r], q2) \/ PurgesOwn(req[r], q2))
<1> DEFINE q == req[r]
           id == statics[q.arg]
           pc == IF id = 0 THEN "create" ELSE "old"
           q2 == LookedUp(q, pc, id)
<1>1. q \in Request /\ Shape(q) /\ q.pc = "lookup" /\ Steady
  BY RequestFacts, Numbers DEF FindStatic, Steady
<1>2. Go(r, q2) \/ PurgeOwn(r)
  BY DEF FindStatic, LookedUp
<1>3. CASE PurgeOwn(r)
  BY <1>1, <1>3, PurgeOwnEffect, Numbers
<1>4. CASE Go(r, q2)
  <2>1. q.arg \in Names
    BY <1>1 DEF Shape
  <2>2. id \in {0} \cup FileIds
    BY <2>1 DEF TypeOK, FilesTypeOK, StaticTable
  <2>3. pc \in {"create", "old"}
    OBVIOUS
  <2> HIDE DEF q, pc, id
  <2>4. q2 \in Request /\ Shape(q2) /\ Continues(q, q2)
    BY <1>1, <2>2, <2>3, LookupShape DEF Continues
  <2> QED
    BY <1>1, <1>4, <2>4 DEF q
<1> QED
  BY <1>2, <1>3, <1>4

(* CreateStaticFile ends the request that inserts the row.                  *)
LEMMA CreateEffect ==
  ASSUME TypeOK, Shaped, NEW r \in Requests, CreateStaticFile(r)
  PROVE  /\ UNCHANGED <<files, blobs, used, aged, attachments, articles, bodies, issued, mistaken>>
         /\ req[r].pc = "create"
         /\ \E q2 \in Request :
               /\ Shape(q2) /\ Go(r, q2)
               /\ \/ /\ Ends(req[r], q2) /\ Stored(req[r].file) /\ statics[req[r].arg] = 0
                     /\ statics' = [statics EXCEPT ![req[r].arg] = req[r].file]
                  \/ PurgesOwn(req[r], q2) /\ UNCHANGED statics
<1>1. UNCHANGED <<files, blobs, used, aged, attachments, articles, bodies, issued, mistaken>> /\ req[r].pc = "create"
  BY DEF CreateStaticFile
<1>2. \/ Stored(req[r].file) /\ statics[req[r].arg] = 0 /\ statics' = [statics EXCEPT ![req[r].arg] = req[r].file] /\ End(r)
      \/ PurgeOwn(r) /\ UNCHANGED statics
  BY DEF CreateStaticFile
<1> QED
  BY <1>1, <1>2, EndEffect, PurgeOwnEffect, Numbers

(* GetFileForStaticFilename remembers the file to purge.                    *)
LEMMA ResolveEffect ==
  ASSUME TypeOK, Shaped, NEW r \in Requests, GetFileForStaticFilename(r)
  PROVE  Steady /\ \E q2 \in Request : Shape(q2) /\ Go(r, q2) /\ Resolves(req[r], q2)
<1> DEFINE q == req[r]
           id == statics[q.arg]
           k == IF statics[q.arg] = 0 THEN 0 ELSE files[statics[q.arg]].key
<1>1. q \in Request /\ Shape(q) /\ q.pc = "old" /\ Steady /\ q.arg \in Names
  BY RequestFacts, Numbers DEF GetFileForStaticFilename, Steady, Shape
<1>2. \/ Go(r, [q EXCEPT !.pc = "swap", !.old = id, !.oldKey = k])
      \/ Go(r, [q EXCEPT !.pc = "swap"])
  BY DEF GetFileForStaticFilename
<1>3. id \in {0} \cup FileIds /\ k \in {0} \cup Keys /\ (k # 0 => id # 0 /\ k = files[id].key)
      /\ (id # 0 => k = files[id].key)
  BY <1>1, RowFacts DEF TypeOK, FilesTypeOK, StaticTable
<1>4. q.old = 0 /\ q.oldKey = 0
  BY <1>1 DEF Shape
<1> DEFINE q2 == OldFound(q, id, k)
           q3 == OldFound(q, 0, 0)
<1>5. q3 = [q EXCEPT !.pc = "swap"]
  BY <1>1, <1>4 DEF Request, OldFound
<1> HIDE DEF q, id, k
<1>6. /\ q2 \in Request /\ Shape(q2) /\ q2.pc = "swap" /\ q2.key = q.key /\ q2.file = q.file /\ q2.old = id
      /\ q2.oldKey = k /\ q2.cands = q.cands
  BY <1>1, <1>3, OldFileShape
<1>7. /\ q3 \in Request /\ Shape(q3) /\ q3.pc = "swap" /\ q3.key = q.key /\ q3.file = q.file /\ q3.old = 0
      /\ q3.oldKey = 0 /\ q3.cands = q.cands
  BY <1>1, OldFileShape
<1> HIDE DEF q2, q3
<1>8. Resolves(q, q2) /\ Resolves(q, q3)
  <2>1. id # 0 \/ k = 0
    BY <1>3
  <2> QED
    BY <1>1, <1>3, <1>6, <1>7, <2>1 DEF Resolves, id
<1>9. CASE Go(r, q2)
  BY <1>1, <1>6, <1>8, <1>9 DEF q
<1>10. CASE Go(r, q3)
  BY <1>1, <1>7, <1>8, <1>10 DEF q
<1> QED
  BY <1>2, <1>5, <1>9, <1>10 DEF q2, OldFound

(* UpdateStaticFile purges the file it replaced, or its own.                *)
LEMMA SwapEffect ==
  ASSUME TypeOK, Shaped, NEW r \in Requests, UpdateStaticFile(r)
  PROVE  /\ UNCHANGED <<files, blobs, used, aged, attachments, articles, bodies, issued, mistaken>>
         /\ req[r].pc = "swap"
         /\ \E q2 \in Request :
               /\ Shape(q2) /\ Go(r, q2)
               /\ \/ /\ (Ends(req[r], q2) /\ req[r].old = 0) \/ PurgesOld(req[r], q2)
                     /\ Stored(req[r].file) /\ statics[req[r].arg] = req[r].seen
                     /\ lost' = IF files[req[r].seen].key = req[r].oldKey THEN lost ELSE lost \cup FamilyKeys(req[r].seen)
                     /\ statics' = [statics EXCEPT ![req[r].arg] = req[r].file]
                  \/ PurgesOwn(req[r], q2) /\ UNCHANGED statics
<1> DEFINE q == req[r]
           q2 == Swapped(q)
<1>1. UNCHANGED <<files, blobs, used, aged, attachments, articles, bodies, issued, mistaken>> /\ q.pc = "swap"
  BY DEF UpdateStaticFile
<1>2. \/ /\ Stored(q.file) /\ statics[q.arg] = q.seen /\ statics' = [statics EXCEPT ![q.arg] = q.file]
         /\ (q.old # 0 /\ Go(r, q2)) \/ (q.old = 0 /\ End(r))
         /\ lost' = IF files[q.seen].key = q.oldKey THEN lost ELSE lost \cup FamilyKeys(q.seen)
      \/ PurgeOwn(r) /\ UNCHANGED statics
  BY DEF UpdateStaticFile, Swapped, SwapMatches
<1>3. q \in Request /\ Shape(q)
  BY RequestFacts, Numbers
<1>4. ASSUME q.old # 0 PROVE q2 \in Request /\ Shape(q2) /\ PurgesOld(q, q2)
  <2> HIDE DEF q
  <2> QED
    BY <1>1, <1>3, <1>4, SwappedShape DEF PurgesOld, q
<1> HIDE DEF q2
<1> QED
  BY <1>1, <1>2, <1>3, <1>4, EndEffect, PurgeOwnEffect, Numbers

(* DeleteStaticFile goes on with the file the row named.                    *)
LEMMA DeleteStaticEffect ==
  ASSUME TypeOK, Shaped, NEW r \in Requests, DeleteStaticFile(r)
  PROVE  /\ UNCHANGED <<files, blobs, used, aged, attachments, articles, bodies, issued, mistaken>>
         /\ \E q2 \in Request :
               /\ Shape(q2) /\ Go(r, q2)
               /\ \/ Ends(req[r], q2) /\ UNCHANGED statics
                  \/ PurgesNamed(req[r], q2) /\ statics' = [statics EXCEPT ![req[r].arg] = 0] /\ q2.old # 0
<1> DEFINE q == req[r]
           id == statics[q.arg]
           k == files[id].key
           q2 == Fetched(q, id, k)
<1>1. UNCHANGED <<files, blobs, used, aged, attachments, articles, bodies, issued, mistaken>> /\ q.pc = "fetch"
  BY DEF DeleteStaticFile
<1>2. \/ End(r) /\ UNCHANGED statics
      \/ id # 0 /\ statics' = [statics EXCEPT ![q.arg] = 0] /\ Go(r, q2)
  BY DEF DeleteStaticFile, DeletedFile, Fetched
<1>3. q \in Request /\ Shape(q) /\ q.arg \in Names
  BY <1>1, RequestFacts, Numbers DEF Shape
<1>4. id \in {0} \cup FileIds
  BY <1>3 DEF TypeOK, FilesTypeOK, StaticTable
<1>5. ASSUME id # 0 PROVE q2 \in Request /\ Shape(q2) /\ PurgesNamed(q, q2) /\ q2.old # 0
  <2>1. id \in FileIds /\ k \in {0} \cup Keys
    BY <1>4, <1>5, RowFacts
  <2> HIDE DEF q, id, k
  <2>3. q2 \in Request /\ Shape(q2) /\ q2.pc = "check" /\ q2.old = id /\ q2.oldKey = k /\ q2.cands = q.cands
    BY <1>1, <1>3, <1>5, <2>1, FetchedShape
  <2> HIDE DEF q2
  <2> QED
    BY <1>3, <1>5, <2>3 DEF PurgesNamed, id, k
<1> HIDE DEF q2
<1> QED
  BY <1>1, <1>2, <1>5, EndEffect, Numbers

(* PurgeStoredFile removes the family of a file nothing names; a destroy    *)
(* that reads another row than it deleted the name of is mistaken.          *)
LEMMA PurgeEffect ==
  ASSUME TypeOK, Shaped, NEW r \in Requests, PurgeStoredFile(r)
  PROVE  /\ UNCHANGED <<files, blobs, used, aged, attachments, statics, articles, bodies, issued>>
         /\ \E q2 \in Request :
               /\ Shape(q2) /\ Go(r, q2)
               /\ \/ /\ Ends(req[r], q2) /\ UNCHANGED mistaken
                     /\ \/ StillReferenced(req[r].old) \/ HeldKeys(req[r]) \subseteq lost'
                        \/ req[r].oldKey = 0 \/ files[req[r].old].key = 0
                  \/ \E k \in Keys :
                        /\ Removes(req[r], q2, req[r].old, k) /\ req[r].old \in FileIds
                        /\ k = req[r].oldKey \/ k = files[req[r].old].key
                        /\ mistaken' = (mistaken \/ k # req[r].oldKey)
<1> DEFINE q == req[r]
           k == IF q.op = "destroy" THEN files[q.old].key ELSE q.oldKey
           S == Family(q.old, k)
           q2 == Checked(q, S)
<1>1. UNCHANGED <<files, blobs, used, aged, attachments, statics, articles, bodies, issued>> /\ q.pc = "check"
  BY DEF PurgeStoredFile
<1>2. \/ /\ End(r) /\ UNCHANGED mistaken
         /\ k = 0 \/ StillReferenced(q.old) \/ HeldKeys(q) \subseteq lost'
      \/ k # 0 /\ Go(r, q2) /\ mistaken' = (mistaken \/ k # q.oldKey)
  BY DEF PurgeStoredFile, Checked, Fault
<1>3. q \in Request /\ Shape(q)
  BY RequestFacts, Numbers
<1>4. q.old \in FileIds
  BY <1>1, <1>3 DEF Request, Shape
<1>5. k \in {0} \cup Keys
  BY <1>3, <1>4, RowFacts DEF Request
<1>6. ASSUME k # 0 PROVE q2 \in Request /\ Shape(q2) /\ Removes(q, q2, q.old, k) /\ k \in Keys
  <2>1. S \in SUBSET FileRef /\ S # {}
    BY <1>4, <1>5, <1>6, FamilyFacts
  <2> HIDE DEF q, S
  <2>2. q2 \in Request /\ Shape(q2) /\ q2.pc = "delete" /\ q2.doomed = S /\ q2.cands = q.cands
    BY <1>1, <1>3, <2>1, CheckedShape
  <2> HIDE DEF q2
  <2> QED
    BY <1>5, <1>6, <2>2 DEF Removes, S
<1>7. k = q.oldKey \/ k = files[q.old].key
  OBVIOUS
<1> HIDE DEF q2, k
<1>8. CASE End(r) /\ UNCHANGED mistaken /\ (k = 0 \/ StillReferenced(q.old) \/ HeldKeys(q) \subseteq lost')
  BY <1>1, <1>7, <1>8, EndEffect, Numbers
<1>9. CASE k # 0 /\ Go(r, q2) /\ mistaken' = (mistaken \/ k # q.oldKey)
  BY <1>1, <1>4, <1>6, <1>7, <1>9
<1> QED
  BY <1>2, <1>8, <1>9

(* AttachUpload ends with the URL handed out, or purges the stored file.    *)
LEMMA AttachEffect ==
  ASSUME TypeOK, Shaped, NEW r \in Requests, AttachUpload(r)
  PROVE  /\ UNCHANGED <<files, blobs, used, aged, statics, articles, bodies, mistaken>>
         /\ req[r].pc = "attach"
         /\ \E q2 \in Request :
               /\ Shape(q2) /\ Go(r, q2)
               /\ \/ Ends(req[r], q2) /\ CreateAttachment(req[r].file, req[r].arg) /\ issued' = issued \cup {req[r].key}
                  \/ /\ Removes(req[r], q2, req[r].file, req[r].key) /\ req[r].file \in FileIds /\ req[r].key \in Keys
                     /\ UNCHANGED <<attachments, issued>>
<1> DEFINE q == req[r]
           S == Family(q.file, q.key)
           q2 == Unattached(q, S)
<1>1. UNCHANGED <<files, blobs, used, aged, statics, articles, bodies, mistaken>> /\ q.pc = "attach"
  BY DEF AttachUpload
<1>2. \/ End(r) /\ CreateAttachment(q.file, q.arg) /\ issued' = issued \cup {q.key}
      \/ Go(r, q2) /\ UNCHANGED <<attachments, issued>>
  BY DEF AttachUpload, Unattached
<1>3. q \in Request /\ Shape(q)
  BY RequestFacts, Numbers
<1>4. q.file \in FileIds /\ q.key \in Keys
  BY <1>1, <1>3 DEF Request, Shape, WithKey
<1>5. q2 \in Request /\ Shape(q2) /\ Removes(q, q2, q.file, q.key)
  <2>1. S \in SUBSET FileRef /\ S # {}
    BY <1>4, FamilyFacts
  <2> HIDE DEF q, S
  <2>2. q2 \in Request /\ Shape(q2) /\ q2.pc = "delete" /\ q2.doomed = S /\ q2.cands = q.cands
    BY <1>1, <1>3, <2>1, UnattachedShape
  <2> HIDE DEF q2
  <2> QED
    BY <2>2 DEF Removes, S
<1> HIDE DEF q2
<1> QED
  BY <1>1, <1>2, <1>4, <1>5, EndEffect, Numbers

(* ImportEntry ends, with its article and the URL in it or without.         *)
LEMMA EntryEffect ==
  ASSUME TypeOK, Shaped, NEW r \in Requests, ImportEntry(r)
  PROVE  /\ UNCHANGED <<files, blobs, used, aged, attachments, statics, mistaken>>
         /\ req[r].pc = "embed"
         /\ \E q2 \in Request : Shape(q2) /\ Go(r, q2) /\ Ends(req[r], q2)
         /\ \/ \E a \in Articles :
                  /\ articles' = articles \cup {a} /\ bodies' = [bodies EXCEPT ![a] = {req[r].key}]
                  /\ issued' = issued \cup {req[r].key}
            \/ UNCHANGED <<articles, bodies, issued>> /\ lost' = lost \cup HeldKeys(req[r])
<1>1. End(r)
  BY DEF ImportEntry
<1> QED
  BY <1>1, EndEffect, Numbers DEF ImportEntry

(* WriteBlob stores the blob of a file or a variant, or ends the request.   *)
LEMMA WriteEffect ==
  ASSUME TypeOK, Shaped, NEW r \in Requests, WriteBlob(r)
  PROVE  /\ UNCHANGED <<files, aged, attachments, statics, articles, bodies, issued, mistaken>>
         /\ \E q2 \in Request :
               /\ Shape(q2) /\ Go(r, q2)
               /\ \/ /\ used' = used + 1 /\ used' \in Keys /\ blobs' = blobs \cup {used'} /\ q2.cands = req[r].cands
                     /\ \/ q2.pc = "row" /\ q2.key = used' /\ req[r].pc = "blob"
                        \/ /\ q2.pc = "vrow" /\ q2.key = req[r].key /\ q2.file = req[r].file /\ q2.vkey = used'
                           /\ req[r].pc = "vblob"
                  \/ Ends(req[r], q2) /\ UNCHANGED <<used, blobs>> /\ req[r].pc = "blob"
<1> DEFINE q == req[r]
           k == used + 1
<1>1. UNCHANGED <<files, aged, attachments, statics, articles, bodies, issued, mistaken>>
  BY DEF WriteBlob
<1>2. \/ /\ used < MaxKeys /\ used' = k /\ blobs' = blobs \cup {k}
         /\ \/ q.pc = "blob" /\ Go(r, WithBlob(q, k))
            \/ q.pc = "vblob" /\ Go(r, WithVariantBlob(q, k))
      \/ End(r) /\ UNCHANGED <<used, blobs>> /\ q.pc = "blob"
  BY DEF WriteBlob, WithBlob, WithVariantBlob
<1>3. q \in Request /\ Shape(q)
  BY RequestFacts, Numbers
<1>4. ASSUME used < MaxKeys PROVE k \in Keys /\ k # 0
  BY <1>4, MediaAssumption DEF TypeOK, FilesTypeOK, Keys
<1>5. CASE used < MaxKeys /\ used' = k /\ blobs' = blobs \cup {k} /\ q.pc = "blob" /\ Go(r, WithBlob(q, k))
  <2>1. WithBlob(q, k) \in Request /\ Shape(WithBlob(q, k)) /\ WithBlob(q, k).pc = "row" /\ WithBlob(q, k).key = k
        /\ WithBlob(q, k).cands = q.cands
    BY <1>3, <1>4, <1>5, BlobShape
  <2> QED
    BY <1>1, <1>4, <1>5, <2>1
<1>6. CASE used < MaxKeys /\ used' = k /\ blobs' = blobs \cup {k} /\ q.pc = "vblob" /\ Go(r, WithVariantBlob(q, k))
  <2> DEFINE q2 == WithVariantBlob(q, k)
  <2>1. q2 \in Request /\ Shape(q2) /\ q2.pc = "vrow" /\ q2.key = q.key /\ q2.file = q.file /\ q2.vkey = k
        /\ q2.cands = q.cands
    BY <1>3, <1>4, <1>6, VariantBlobShape
  <2> QED
    BY <1>1, <1>4, <1>6, <2>1
<1>7. CASE End(r) /\ UNCHANGED <<used, blobs>> /\ q.pc = "blob"
  BY <1>1, <1>7, EndEffect, Numbers
<1> QED
  BY <1>2, <1>5, <1>6, <1>7

(* Store returns: the upload is answered, or the request goes on.           *)
LEMMA ReturnEffect ==
  ASSUME TypeOK, Shaped, NEW r \in Requests, NEW id \in FileIds, req[r].pc \in {"row", "vrow"}, StoreReturns(r, id)
  PROVE  \E q2 \in Request :
            /\ Shape(q2) /\ Go(r, q2)
            /\ \/ Ends(req[r], q2) /\ issued' = issued \cup {req[r].key}
               \/ /\ q2.pc \in {"attach", "embed", "lookup"} /\ q2.key = req[r].key /\ q2.file = id /\ q2.cands = req[r].cands
                  /\ q2.op = req[r].op /\ UNCHANGED issued
<1> DEFINE q == req[r]
<1>1. q \in Request /\ Shape(q)
  BY RequestFacts, Numbers
<1>2. CASE q.op = "upload"
  <2>1. Go(r, Idle) /\ issued' = issued \cup {q.key}
    BY <1>2 DEF StoreReturns
  <2>2. Ends(q, Idle)
    BY DEF Ends, Idle
  <2> QED
    BY <2>1, <2>2, IdleShape
<1>3. CASE q.op # "upload"
  <2>1. Go(r, WithFile(q, id)) /\ UNCHANGED issued
    BY <1>3 DEF StoreReturns, WithFile
  <2> HIDE DEF q
  <2> DEFINE q2 == WithFile(q, id)
  <2>2. q2 \in Request /\ Shape(q2) /\ q2.pc \in {"attach", "embed", "lookup"} /\ q2.key = q.key /\ q2.file = id
        /\ q2.cands = q.cands /\ q2.op = q.op
    BY <1>1, <1>3, StoredShape, Numbers DEF q
  <2> HIDE DEF q2
  <2> QED
    BY <2>1, <2>2 DEF q, q2
<1> QED
  BY <1>2, <1>3

(* InsertRow inserts the row under a new id, or removes the blob.           *)
LEMMA InsertEffect ==
  ASSUME TypeOK, Shaped, NEW r \in Requests, InsertRow(r)
  PROVE  /\ UNCHANGED <<used, aged, attachments, statics, articles, bodies, mistaken>> /\ req[r].pc = "row"
         /\ \E q2 \in Request :
               /\ Shape(q2) /\ Go(r, q2)
               /\ \/ /\ UNCHANGED blobs
                     /\ \E id \in FileIds :
                           /\ files[id] = NoFile /\ files' = CreateFile(id, req[r].key, 0)
                           /\ \/ Ends(req[r], q2) /\ issued' = issued \cup {req[r].key}
                              \/ /\ q2.pc \in {"vblob", "attach", "embed", "lookup"} /\ q2.cands = req[r].cands
                                 /\ q2.key = req[r].key /\ q2.file = id /\ UNCHANGED issued
                  \/ Ends(req[r], q2) /\ blobs' = blobs \ {req[r].key} /\ UNCHANGED <<files, issued>>
<1> DEFINE q == req[r]
<1>1. UNCHANGED <<used, aged, attachments, statics, articles, bodies, mistaken>> /\ q.pc = "row"
  BY DEF InsertRow
<1>2. q \in Request /\ Shape(q)
  BY RequestFacts, Numbers
<1>3. \/ /\ UNCHANGED blobs
         /\ \E id \in FileIds :
               /\ NextId(id, files, NoFile) /\ files' = CreateFile(id, q.key, 0)
               /\ \/ q.image /\ Go(r, WithRow(q, id)) /\ UNCHANGED issued
                  \/ StoreReturns(r, id)
      \/ End(r) /\ blobs' = blobs \ {q.key} /\ UNCHANGED <<files, issued>>
  BY DEF InsertRow, WithRow
<1>4. ASSUME UNCHANGED blobs, NEW id \in FileIds, NextId(id, files, NoFile), files' = CreateFile(id, q.key, 0),
             (q.image /\ Go(r, WithRow(q, id)) /\ UNCHANGED issued) \/ StoreReturns(r, id)
      PROVE  \E q2 \in Request :
               /\ Shape(q2) /\ Go(r, q2)
               /\ UNCHANGED blobs
               /\ \E j \in FileIds :
                     /\ files[j] = NoFile /\ files' = CreateFile(j, q.key, 0)
                     /\ \/ Ends(q, q2) /\ issued' = issued \cup {q.key}
                        \/ /\ q2.pc \in {"vblob", "attach", "embed", "lookup"} /\ q2.cands = q.cands
                           /\ q2.key = q.key /\ q2.file = j /\ UNCHANGED issued
  <2>1. files[id] = NoFile
    BY <1>4, Numbers DEF NextId
  <2>2. CASE q.image /\ Go(r, WithRow(q, id)) /\ UNCHANGED issued
    <3> DEFINE q2 == WithRow(q, id)
    <3>1. q2 \in Request /\ Shape(q2) /\ q2.pc = "vblob" /\ q2.key = q.key /\ q2.file = id /\ q2.cands = q.cands
      BY <1>1, <1>2, <2>2, RowShape, Numbers
    <3> HIDE DEF q2
    <3> QED
      BY <1>4, <2>1, <2>2, <3>1 DEF q2
  <2>3. CASE StoreReturns(r, id)
    BY <1>1, <1>4, <2>1, <2>3, ReturnEffect
  <2> QED
    BY <1>4, <2>2, <2>3
<1>5. CASE End(r) /\ blobs' = blobs \ {q.key} /\ UNCHANGED <<files, issued>>
  BY <1>1, <1>5, EndEffect, Numbers
<1> QED
  BY <1>1, <1>3, <1>4, <1>5

(* InsertVariant inserts the variant of a row that is there, or removes the *)
(* variant's blob.                                                          *)
LEMMA VariantEffect ==
  ASSUME TypeOK, Shaped, NEW r \in Requests, InsertVariant(r)
  PROVE  /\ UNCHANGED <<used, aged, attachments, statics, articles, bodies, mistaken>> /\ req[r].pc = "vrow"
         /\ \/ /\ UNCHANGED blobs /\ Stored(req[r].file)
               /\ \E id \in FileIds : files[id] = NoFile /\ files' = CreateFile(id, req[r].vkey, req[r].file)
            \/ blobs' = blobs \ {req[r].vkey} /\ UNCHANGED files
         /\ \E q2 \in Request :
               /\ Shape(q2) /\ Go(r, q2)
               /\ \/ Ends(req[r], q2) /\ issued' = issued \cup {req[r].key}
                  \/ /\ q2.pc \in {"attach", "embed", "lookup"} /\ q2.cands = req[r].cands
                     /\ q2.key = req[r].key /\ q2.file = req[r].file /\ UNCHANGED issued
<1>1. /\ UNCHANGED <<used, aged, attachments, statics, articles, bodies, mistaken>> /\ req[r].pc = "vrow"
      /\ StoreReturns(r, req[r].file)
  BY DEF InsertVariant
<1>2. \/ /\ UNCHANGED blobs /\ Stored(req[r].file)
         /\ \E id \in FileIds : NextId(id, files, NoFile) /\ files' = CreateFile(id, req[r].vkey, req[r].file)
      \/ blobs' = blobs \ {req[r].vkey} /\ UNCHANGED files
  BY DEF InsertVariant
<1>3. \A id \in FileIds : NextId(id, files, NoFile) => files[id] = NoFile
  BY Numbers DEF NextId
<1>4. req[r].file \in FileIds
  BY <1>1, RequestFacts, Numbers DEF Request, Shape, WithKey
<1>5. \E q2 \in Request :
         /\ Shape(q2) /\ Go(r, q2)
         /\ \/ Ends(req[r], q2) /\ issued' = issued \cup {req[r].key}
            \/ /\ q2.pc \in {"attach", "embed", "lookup"} /\ q2.key = req[r].key /\ q2.file = req[r].file
               /\ q2.cands = req[r].cands /\ q2.op = req[r].op /\ UNCHANGED issued
  BY <1>1, <1>4, ReturnEffect
<1> QED
  BY <1>1, <1>2, <1>3, <1>5

(* What a removal takes next is one of the rows it read.                    *)
LEMMA VictimFacts ==
  ASSUME NEW q, q.doomed # {}
  PROVE  Victim(q) \in q.doomed
  BY DEF Victim

(* Drop: the rest of the family, or the end.                                *)
LEMMA DropEffect ==
  ASSUME TypeOK, Shaped, NEW r \in Actors, NEW pc \in {"delete", "unlink"}, req[r].pc \in {"delete", "unlink"},
         req[r].op = "article" => pc = "unlink", Go(r, Drop(req[r], pc))
  PROVE  \E q2 \in Request :
            /\ Shape(q2) /\ Go(r, q2)
            /\ \/ Ends(req[r], q2) /\ req[r].doomed = {Victim(req[r])}
               \/ /\ q2.pc = pc /\ q2.op = req[r].op /\ q2.cands = req[r].cands
                  /\ q2.doomed = req[r].doomed \ {Victim(req[r])}
<1> DEFINE q == req[r]
           S == q.doomed \ {Victim(q)}
<1>1. q \in Request /\ Shape(q)
  BY RequestFacts
<1>2. CASE S # {}
  <2> DEFINE q2 == Dropped(q, pc, S)
  <2>1. Go(r, q2)
    BY <1>2 DEF Drop, Dropped
  <2>2. S \in SUBSET q.doomed
    OBVIOUS
  <2> HIDE DEF q, S
  <2>3. q2 \in Request /\ Shape(q2) /\ q2.pc = pc /\ q2.op = q.op /\ q2.cands = q.cands /\ q2.doomed = S
    BY <1>1, <1>2, <2>2, DropShape DEF q
  <2> HIDE DEF q2
  <2> QED
    BY <2>1, <2>3 DEF q, S
<1>3. CASE S = {}
  <2>1. Go(r, Finished(q))
    BY <1>3 DEF Drop
  <2>2. Finished(q) \in Request /\ Shape(Finished(q)) /\ Ends(q, Finished(q))
    BY <1>1, FinishedShape DEF Ends
  <2>3. q.doomed = {Victim(q)}
    BY <1>1, <1>3, VictimFacts DEF Shape
  <2> QED
    BY <2>1, <2>2, <2>3
<1> QED
  BY <1>2, <1>3

(* A victim that is left: the foreign key kept it, or the statement failed. *)
Leaves(q, q2) ==
    /\ DeleteRefused(Victim(q).id) \/ HeldKeys(q) \subseteq lost'
    /\ q2.doomed = q.doomed \ {Victim(q)}

(* DeleteRow deletes the row that has the victim's id now, or skips it.     *)
LEMMA DeleteEffect ==
  ASSUME TypeOK, Shaped, NEW r \in Actors, DeleteRow(r)
  PROVE  /\ UNCHANGED <<blobs, used, aged, attachments, statics, articles, bodies, issued>>
         /\ req[r].pc = "delete" /\ Victim(req[r]) \in req[r].doomed
         /\ \E q2 \in Request :
               /\ Shape(q2) /\ Go(r, q2)
               /\ \/ /\ ~DeleteRefused(Victim(req[r]).id) /\ files' = [files EXCEPT ![Victim(req[r]).id] = NoFile]
                     /\ mistaken' = (mistaken \/ files[Victim(req[r]).id].key \notin {0, Victim(req[r]).key})
                     /\ q2.pc = "unlink" /\ q2.op = req[r].op /\ q2.doomed = req[r].doomed /\ q2.cands = req[r].cands
                  \/ Ends(req[r], q2) /\ UNCHANGED <<files, mistaken>> /\ Leaves(req[r], q2)
                  \/ Skips(req[r], q2) /\ UNCHANGED <<files, mistaken>> /\ Leaves(req[r], q2)
<1> DEFINE q == req[r]
           q2 == Deleted(q)
<1>1. UNCHANGED <<blobs, used, aged, attachments, statics, articles, bodies, issued>> /\ q.pc = "delete"
  BY DEF DeleteRow
<1>2. \/ /\ ~DeleteRefused(Victim(q).id) /\ files' = [files EXCEPT ![Victim(q).id] = NoFile] /\ Go(r, q2)
         /\ mistaken' = (mistaken \/ files[Victim(q).id].key \notin {0, Victim(q).key})
      \/ /\ Go(r, Drop(q, "delete")) /\ UNCHANGED <<files, mistaken>>
         /\ DeleteRefused(Victim(q).id) \/ HeldKeys(q) \subseteq lost'
  BY DEF DeleteRow, Deleted, Fault
<1>3. q \in Request /\ Shape(q)
  BY RequestFacts
<1>4. Victim(q) \in q.doomed
  BY <1>1, <1>3, VictimFacts DEF Shape
<1>5. q2 \in Request /\ Shape(q2) /\ q2.pc = "unlink" /\ q2.op = q.op /\ q2.doomed = q.doomed /\ q2.cands = q.cands
  <2> HIDE DEF q
  <2> QED
    BY <1>1, <1>3, DeletedShape
<1> HIDE DEF q2
<1>6. ASSUME Go(r, Drop(q, "delete"))
      PROVE  \E p \in Request :
                Shape(p) /\ Go(r, p) /\ (Ends(q, p) \/ Skips(q, p)) /\ p.doomed = q.doomed \ {Victim(q)}
  <2>1. q.op = "article" => FALSE
    BY <1>1, <1>3 DEF Shape
  <2>2. PICK p \in Request :
           /\ Shape(p) /\ Go(r, p)
           /\ \/ Ends(q, p) /\ q.doomed = {Victim(q)}
              \/ /\ p.pc = "delete" /\ p.op = q.op /\ p.cands = q.cands
                 /\ p.doomed = q.doomed \ {Victim(q)}
    BY <1>1, <1>6, <2>1, DropEffect
  <2>3. Ends(q, p) => p.doomed = {}
    BY <2>2 DEF Ends, Shape
  <2> QED
    BY <2>2, <2>3 DEF Skips
<1>7. CASE /\ Go(r, Drop(q, "delete")) /\ UNCHANGED <<files, mistaken>>
           /\ DeleteRefused(Victim(q).id) \/ HeldKeys(q) \subseteq lost'
  <2>1. PICK p \in Request :
           Shape(p) /\ Go(r, p) /\ (Ends(q, p) \/ Skips(q, p)) /\ p.doomed = q.doomed \ {Victim(q)}
    BY <1>6, <1>7
  <2>2. Leaves(q, p)
    BY <1>7, <2>1 DEF Leaves
  <2> QED
    BY <1>1, <1>4, <1>7, <2>1, <2>2
<1> QED
  BY <1>1, <1>2, <1>4, <1>5, <1>7

(* Unlink removes the victim's blob and goes on with the rest.              *)
LEMMA UnlinkEffect ==
  ASSUME TypeOK, Shaped, NEW r \in Actors, Unlink(r)
  PROVE  /\ UNCHANGED <<files, used, aged, attachments, statics, articles, bodies, issued, mistaken>>
         /\ req[r].pc = "unlink" /\ Victim(req[r]) \in req[r].doomed /\ blobs' = blobs \ {Victim(req[r]).key}
         /\ \E q2 \in Request :
               /\ Shape(q2) /\ Go(r, q2)
               /\ \/ Ends(req[r], q2) /\ req[r].doomed = {Victim(req[r])}
                  \/ /\ q2.pc = IF req[r].op = "article" THEN "unlink" ELSE "delete"
                     /\ q2.op = req[r].op /\ q2.cands = req[r].cands
                     /\ q2.doomed = req[r].doomed \ {Victim(req[r])}
<1> DEFINE q == req[r]
           pc == IF q.op = "article" THEN "unlink" ELSE "delete"
<1>1. /\ UNCHANGED <<files, used, aged, attachments, statics, articles, bodies, issued, mistaken>>
      /\ q.pc = "unlink" /\ blobs' = blobs \ {Victim(q).key} /\ Go(r, Drop(q, pc))
  BY DEF Unlink
<1>2. Victim(q) \in q.doomed
  BY <1>1, RequestFacts, VictimFacts DEF Shape
<1>3. pc \in {"delete", "unlink"} /\ (q.op = "article" => pc = "unlink")
  OBVIOUS
<1> HIDE DEF pc
<1>4. \E q2 \in Request :
               /\ Shape(q2) /\ Go(r, q2)
               /\ \/ Ends(q, q2) /\ q.doomed = {Victim(q)}
                  \/ q2.pc = pc /\ q2.op = q.op /\ q2.cands = q.cands /\ q2.doomed = q.doomed \ {Victim(q)}
  BY <1>1, <1>3, DropEffect
<1> QED
  BY <1>1, <1>2, <1>4 DEF pc

(* StartReaper ends at once, or has candidates of more than a day.          *)
LEMMA ReaperEffect ==
  ASSUME TypeOK, Shaped, StartReaper
  PROVE  /\ Steady
         /\ \E q2 \in Request :
               /\ Shape(q2) /\ Go(Reaper, q2) /\ q2.pc \in {"idle", "examine"}
               /\ \A c \in q2.cands : c.id \in FileIds /\ files[c.id].key = c.key /\ files[c.id].of = 0 /\ c.key <= aged
<1> DEFINE C == {Ref(i, files[i].key, 0) : i \in ListOrphanFileCandidates(Cutoff)}
           q == [Idle EXCEPT !.op = "reap", !.cands = C]
<1>1. Steady /\ Go(Reaper, Finished(q))
  BY DEF StartReaper, Steady
<1>2. \A c \in C : c \in FileRef /\ c.id \in FileIds /\ files[c.id].key = c.key /\ files[c.id].of = 0 /\ c.key <= aged
  <2>1. ASSUME NEW i \in ListOrphanFileCandidates(Cutoff)
        PROVE  /\ Ref(i, files[i].key, 0) \in FileRef /\ i \in FileIds /\ files[i].key <= aged /\ files[i].of = 0
    <3>1. i \in FileIds /\ Stored(i) /\ files[i].key <= aged /\ files[i].of = 0
      BY DEF ListOrphanFileCandidates, Cutoff
    <3>2. files[i].key \in Keys
      BY <3>1, RowFacts
    <3> QED
      BY <3>1, <3>2 DEF Ref, FileRef
  <2> QED
    BY <2>1 DEF Ref
<1>3. C \in SUBSET FileRef
  BY <1>2
<1> HIDE DEF C
<1>4. /\ q.pc = "idle" /\ q.op = "reap" /\ q.arg = 0 /\ q.image = FALSE /\ q.file = 0 /\ q.key = 0 /\ q.vkey = 0
      /\ q.old = 0 /\ q.oldKey = 0 /\ q.doomed = {} /\ q.cands = C
  BY DEF Idle
<1>5. q \in Request
  BY <1>3 DEF Idle, Request, Docs, Page
<1> HIDE DEF q
<1>6. Shape(q)
  BY <1>4 DEF Shape, WithKey
<1> QED
  BY <1>1, <1>2, <1>4, <1>5, <1>6, FinishedShape

(* ExamineCandidate keeps the family of a candidate that content names, and *)
(* removes it otherwise.                                                    *)
LEMMA ExamineEffect ==
  ASSUME TypeOK, Shaped, ExamineCandidate
  PROVE  /\ Steady
         /\ \E q2 \in Request :
               /\ Shape(q2) /\ Go(Reaper, q2)
               /\ \/ Ends(req[Reaper], q2)
                  \/ \E c \in req[Reaper].cands :
                        /\ Removes(req[Reaper], q2, c.id, c.key) /\ c.id \in FileIds /\ c.key \in Keys
                        /\ \A d \in Family(c.id, c.key) : ~CountFileKeyContentReferences(d.key, bodies)
<1> DEFINE q == req[Reaper]
<1>1. Steady /\ q.pc = "examine"
  BY DEF ExamineCandidate, Steady
<1>2. q \in Request /\ Shape(q)
  BY RequestFacts, Numbers
<1>3. PICK c \in q.cands : Go(Reaper, IF FamilyInContent(c) THEN Finished([q EXCEPT !.cands = @ \ {c}])
                                      ELSE [[q EXCEPT !.cands = @ \ {c}] EXCEPT !.pc = "delete", !.doomed = Family(c.id, c.key)])
  BY DEF ExamineCandidate
<1>4. c \in FileRef /\ c.id \in FileIds /\ c.key \in Keys
  BY <1>2 DEF Request, FileRef
<1>5. q.op = "reap"
  BY <1>1, <1>2 DEF Shape
<1> DEFINE C == q.cands \ {c}
           S == Family(c.id, c.key)
<1>6. CASE FamilyInContent(c)
  <2> DEFINE p == [q EXCEPT !.cands = C]
  <2>1. Go(Reaper, IF p.op = "reap" /\ p.cands # {}
                   THEN [Idle EXCEPT !.pc = "examine", !.op = "reap", !.cands = p.cands] ELSE Idle)
    BY <1>3, <1>6 DEF Finished
  <2>2. p.op = "reap" /\ p.cands = C
    BY <1>2, <1>5 DEF Request
  <2> HIDE DEF p
  <2> DEFINE f == [Idle EXCEPT !.pc = "examine", !.op = "reap", !.cands = C]
  <2>3. (Go(Reaper, f) /\ C # {}) \/ Go(Reaper, Idle)
    BY <2>1, <2>2
  <2>4. C \in SUBSET FileRef
    BY <1>2 DEF Request
  <2> HIDE DEF C
  <2>5. /\ f.pc = "examine" /\ f.op = "reap" /\ f.arg = 0 /\ f.image = FALSE /\ f.file = 0 /\ f.key = 0 /\ f.vkey = 0
        /\ f.old = 0 /\ f.oldKey = 0 /\ f.doomed = {} /\ f.cands = C
    BY DEF Idle
  <2>6. f \in Request
    BY <2>4 DEF Idle, Request, Docs, Page
  <2> HIDE DEF f
  <2>7. C # {} => Shape(f)
    BY <2>5 DEF Shape, WithKey
  <2>8. Ends(q, f) /\ Ends(q, Idle)
    BY <2>5 DEF Ends, Idle, C
  <2> QED
    BY <1>1, <2>3, <2>6, <2>7, <2>8, IdleShape
<1>7. CASE ~FamilyInContent(c)
  <2> DEFINE q2 == Rested(q, C, S)
  <2>1. [[q EXCEPT !.cands = @ \ {c}] EXCEPT !.pc = "delete", !.doomed = S] = q2
    <3> HIDE DEF S
    <3> QED
      BY <1>2 DEF Rested, Request
  <2>2. Go(Reaper, q2)
    BY <1>3, <1>7, <2>1
  <2>3. S \in SUBSET FileRef /\ S # {} /\ C \in SUBSET q.cands
    BY <1>4, FamilyFacts
  <2>4. \A d \in S : ~CountFileKeyContentReferences(d.key, bodies)
    BY <1>7 DEF FamilyInContent
  <2> HIDE DEF q, S, C
  <2>5. q2 \in Request /\ Shape(q2) /\ q2.pc = "delete" /\ q2.doomed = S /\ q2.cands = C
    BY <1>1, <1>2, <1>5, <2>3, RestShape
  <2> HIDE DEF q2
  <2>6. Removes(q, q2, c.id, c.key)
    BY <2>3, <2>5 DEF Removes, S
  <2> QED
    BY <1>1, <1>4, <2>2, <2>4, <2>5, <2>6 DEF q, S
<1> QED
  BY <1>6, <1>7


(* Files that the attachments of an article name.                           *)
Attached(a) == {i \in FileIds : \E t \in FileIds : attachments[t].file = i /\ attachments[t].article = a}

(* DestroyArticle takes rows that the article's attachments name and that   *)
(* nothing else names, with their variants.                                 *)
LEMMA DestroyEffect ==
  ASSUME TypeOK, Shaped, NEW r \in Requests, DestroyArticle(r)
  PROVE  /\ UNCHANGED <<blobs, used, aged, statics, issued, lost, mistaken>> /\ req[r] = Idle
         /\ \E a \in articles, D \in SUBSET FileIds :
               /\ articles' = articles \ {a} /\ bodies' = [bodies EXCEPT ![a] = {}]
               /\ attachments' = DeleteAttachmentsForRecord(a)
               /\ files' = [i \in FileIds |-> IF i \in D \/ files[i].of \in D THEN NoFile ELSE files[i]]
               /\ \A i \in D : /\ Stored(i) /\ i \in Attached(a)
                               /\ \A j \in {i} \cup ListFileVariants(i) : ~FileReferenced(j, attachments', bodies')
               /\ \/ D = {} /\ UNCHANGED req
                  \/ \E q2 \in Request :
                        /\ Shape(q2) /\ Go(r, q2) /\ q2.pc = "unlink" /\ q2.op = "article" /\ q2.cands = {}
                        /\ q2.doomed = UNION {Family(i, files[i].key) : i \in D}
<1>1. UNCHANGED <<blobs, used, aged, statics, issued, lost, mistaken>> /\ req[r] = Idle
  BY DEF DestroyArticle
<1>2. PICK a \in articles :
        LET docs == [bodies EXCEPT ![a] = {}]
            atts == DeleteAttachmentsForRecord(a)
            doomed == {i \in ListAttachmentFilesForRecord(a) :
                          \A j \in {i} \cup ListFileVariants(i) : ~FileReferenced(j, atts, docs)}
            gone == UNION {Family(i, files[i].key) : i \in doomed} IN
        /\ articles' = articles \ {a} /\ bodies' = docs /\ attachments' = atts
        /\ files' = [i \in FileIds |-> IF i \in doomed \/ files[i].of \in doomed THEN NoFile ELSE files[i]]
        /\ IF gone = {} THEN UNCHANGED req
           ELSE Go(r, [Idle EXCEPT !.pc = "unlink", !.op = "article", !.doomed = gone])
  BY DEF DestroyArticle
<1> DEFINE docs == [bodies EXCEPT ![a] = {}]
           atts == DeleteAttachmentsForRecord(a)
           D == {i \in ListAttachmentFilesForRecord(a) :
                    \A j \in {i} \cup ListFileVariants(i) : ~FileReferenced(j, atts, docs)}
           gone == UNION {Family(i, files[i].key) : i \in D}
           q2 == [Idle EXCEPT !.pc = "unlink", !.op = "article", !.doomed = gone]
<1>3. /\ articles' = articles \ {a} /\ bodies' = docs /\ attachments' = atts
      /\ files' = [i \in FileIds |-> IF i \in D \/ files[i].of \in D THEN NoFile ELSE files[i]]
      /\ IF gone = {} THEN UNCHANGED req ELSE Go(r, q2)
  BY <1>2
<1>4. D \in SUBSET FileIds
  BY DEF ListAttachmentFilesForRecord
<1>5. \A i \in D : /\ Stored(i) /\ i \in Attached(a)
                   /\ \A j \in {i} \cup ListFileVariants(i) : ~FileReferenced(j, atts, docs)
  <2> TAKE i \in D
  <2>1. i \in ListAttachmentFilesForRecord(a) /\ \A j \in {i} \cup ListFileVariants(i) : ~FileReferenced(j, atts, docs)
    OBVIOUS
  <2>2. Stored(i) /\ i \in FileIds /\ \E t \in FileIds : attachments[t] = [file |-> i, article |-> a]
    BY <2>1 DEF ListAttachmentFilesForRecord
  <2>3. i \in Attached(a)
    BY <2>2 DEF Attached
  <2> QED
    BY <2>1, <2>2, <2>3
<1>6. \A i \in D : files[i].key \in Keys
  BY <1>4, <1>5, RowFacts
<1> HIDE DEF D, docs, atts
<1>7. \A i \in D : Family(i, files[i].key) \in SUBSET FileRef /\ Family(i, files[i].key) # {}
  BY <1>4, <1>6, FamilyFacts
<1>8. gone \in SUBSET FileRef /\ (gone = {} => D = {})
  BY <1>7
<1>9. ASSUME gone # {} PROVE q2 \in Request /\ Shape(q2)
  <2>1. /\ q2.pc = "unlink" /\ q2.op = "article" /\ q2.arg = 0 /\ q2.image = FALSE /\ q2.file = 0 /\ q2.key = 0 /\ q2.vkey = 0
        /\ q2.old = 0 /\ q2.oldKey = 0 /\ q2.doomed = gone /\ q2.cands = {}
    BY DEF Idle
  <2> HIDE DEF gone
  <2>2. q2 \in Request
    BY <1>8 DEF Idle, Request, Docs, Page
  <2> HIDE DEF q2
  <2>3. Shape(q2)
    BY <1>9, <2>1 DEF Shape, WithKey
  <2> QED
    BY <2>2, <2>3
<1>10. q2.pc = "unlink" /\ q2.op = "article" /\ q2.cands = {} /\ q2.doomed = gone
  BY DEF Idle
<1> HIDE DEF q2
<1>11. (UNCHANGED req /\ D = {}) \/ \E p \in Request :
                        /\ Shape(p) /\ Go(r, p) /\ p.pc = "unlink" /\ p.op = "article" /\ p.cands = {}
                        /\ p.doomed = UNION {Family(i, files[i].key) : i \in D}
  BY <1>3, <1>8, <1>9, <1>10
<1>12. \A i \in D : /\ Stored(i) /\ i \in Attached(a)
                    /\ \A j \in {i} \cup ListFileVariants(i) : ~FileReferenced(j, attachments', bodies')
  BY <1>3, <1>5
<1> HIDE DEF gone
<1> SUFFICES \E b \in articles, S \in SUBSET FileIds :
               /\ articles' = articles \ {b} /\ bodies' = [bodies EXCEPT ![b] = {}]
               /\ attachments' = DeleteAttachmentsForRecord(b)
               /\ files' = [i \in FileIds |-> IF i \in S \/ files[i].of \in S THEN NoFile ELSE files[i]]
               /\ \A i \in S : /\ Stored(i) /\ i \in Attached(b)
                               /\ \A j \in {i} \cup ListFileVariants(i) : ~FileReferenced(j, attachments', bodies')
               /\ \/ S = {} /\ UNCHANGED req
                  \/ \E p \in Request :
                        /\ Shape(p) /\ Go(r, p) /\ p.pc = "unlink" /\ p.op = "article" /\ p.cands = {}
                        /\ p.doomed = UNION {Family(i, files[i].key) : i \in S}
  BY <1>1
<1> WITNESS a \in articles, D \in SUBSET FileIds
<1> QED
  BY <1>3, <1>11, <1>12 DEF docs, atts

(* CreateAttachment keeps the table typed and names a stored file.          *)
LEMMA AttachmentFacts ==
  ASSUME TypeOK, NEW i \in FileIds, NEW a \in Articles, CreateAttachment(i, a)
  PROVE  /\ attachments' \in AttachmentTable /\ Stored(i)
         /\ \A t \in FileIds : attachments'[t] = attachments[t] \/ attachments'[t].file = i
<1>1. attachments \in AttachmentTable
  BY DEF TypeOK, FilesTypeOK
<1>2. [file |-> i, article |-> a] \in Attachment
  BY DEF Attachment
<1>3. CASE UNCHANGED attachments
  BY <1>1, <1>3 DEF CreateAttachment
<1>4. CASE \E t \in FileIds : attachments' = [attachments EXCEPT ![t] = [file |-> i, article |-> a]]
  BY <1>1, <1>2, <1>4 DEF CreateAttachment, AttachmentTable
<1> QED
  BY <1>3, <1>4 DEF CreateAttachment

(* Deleted attachments are no attachments, the others stay.                 *)
LEMMA DetachFacts ==
  ASSUME TypeOK, NEW a
  PROVE  /\ DeleteAttachmentsForRecord(a) \in AttachmentTable
         /\ \A t \in FileIds : DeleteAttachmentsForRecord(a)[t] \in {attachments[t], NoAttachment}
  BY DEF TypeOK, FilesTypeOK, AttachmentTable, DeleteAttachmentsForRecord

(* A crash leaves every request idle.                                       *)
LEMMA CrashEffect ==
  ASSUME Crash
  PROVE  Steady /\ req' = [r \in Actors |-> Idle] /\ lost' = lost \cup UNION {HeldKeys(req[r]) : r \in Actors}
  BY DEF Crash, Steady

-----------------------------------------------------------------------------
(* Type correctness.                                                        *)

(* Whatever a step lets go is a key.                                        *)
LEMMA LostTyped ==
  ASSUME TypeOK, Shaped, NEW r \in Actors, RequestStep(r) \/ DeleteRow(r) \/ Unlink(r)
  PROVE  lost' \subseteq Keys
<1>1. lost \subseteq Keys /\ HeldKeys(req[r]) \subseteq Keys
  BY DEF TypeOK, FilesTypeOK, HeldKeys
<1>2. UNCHANGED lost \/ lost' = lost \cup HeldKeys(req[r]) => lost' \subseteq Keys
  BY <1>1
<1>3. CASE Upload(r) \/ StaticUpload(r) \/ ImportEntryImage(r)
  BY <1>2, <1>3 DEF Upload, StaticUpload, ImportEntryImage, Begin
<1>4. CASE WriteBlob(r) \/ InsertRow(r) \/ InsertVariant(r) \/ AttachUpload(r)
  BY <1>2, <1>4 DEF WriteBlob, InsertRow, InsertVariant, AttachUpload, NoSpend
<1>5. CASE ImportEntry(r)
  BY <1>2, <1>5 DEF ImportEntry
<1>6. CASE FindStatic(r) \/ CreateStaticFile(r) \/ GetFileForStaticFilename(r)
  BY <1>2, <1>6 DEF FindStatic, CreateStaticFile, GetFileForStaticFilename, NoSpend
<1>7. CASE UpdateStaticFile(r)
  BY <1>1, <1>7 DEF UpdateStaticFile, FamilyKeys, NoSpend
<1>8. CASE StaticDestroy(r) \/ DeleteStaticFile(r) \/ PurgeStoredFile(r) \/ DestroyArticle(r)
  BY <1>2, <1>8 DEF StaticDestroy, DeleteStaticFile, PurgeStoredFile, DestroyArticle, NoSpend, Fault
<1>9. CASE DeleteRow(r) \/ Unlink(r)
  BY <1>2, <1>9 DEF DeleteRow, Unlink, NoSpend, Fault
<1> QED
  BY <1>3, <1>4, <1>5, <1>6, <1>7, <1>8, <1>9 DEF RequestStep

FilesTyped == FilesTypeOK /\ \A s \in Actors : Shape(req[s])

(* A step that keeps the tables typed and gives its request a well-formed   *)
(* record keeps the types.                                                  *)
LEMMA GoTypes ==
  ASSUME TypeOK, Shaped, NEW r \in Actors, NEW q2 \in Request, Shape(q2), Go(r, q2),
         lost' \subseteq Keys, files' \in FileTable, used' \in 0..MaxKeys, blobs' \subseteq 1..used', aged' \in 0..used',
         attachments' \in AttachmentTable, statics' \in StaticTable, articles' \subseteq Articles,
         bodies' \in [Docs -> SUBSET Keys], issued' \subseteq 1..used', mistaken' \in BOOLEAN
  PROVE  FilesTyped'
<1>1. req' \in [Actors -> Request] /\ \A s \in Actors : Shape(req[s])'
  BY GoShape, RequestFacts DEF Shaped
<1> QED
  BY <1>1 DEF FilesTyped, FilesTypeOK

(* The tables are typed.                                                    *)
LEMMA TableTypes ==
  ASSUME TypeOK
  PROVE  /\ files \in FileTable /\ used \in 0..MaxKeys /\ blobs \subseteq 1..used /\ aged \in 0..used
         /\ attachments \in AttachmentTable /\ statics \in StaticTable /\ articles \subseteq Articles
         /\ bodies \in [Docs -> SUBSET Keys] /\ issued \subseteq 1..used /\ mistaken \in BOOLEAN
  BY DEF TypeOK, FilesTypeOK

(* A file that goes or comes keeps the table typed.                         *)
LEMMA RowTypes ==
  ASSUME TypeOK, NEW i \in FileIds
  PROVE  /\ [files EXCEPT ![i] = NoFile] \in FileTable
         /\ \A k \in Keys, of \in {0} \cup FileIds : CreateFile(i, k, of) \in FileTable
         /\ \A k, of : /\ CreateFile(i, k, of)[i] = [key |-> k, of |-> of]
                       /\ \A j \in FileIds \ {i} : CreateFile(i, k, of)[j] = files[j]
  BY TableTypes DEF FileTable, File, CreateFile

(* The key of a request that has one is in use.                             *)
LEMMA KeyInUse ==
  ASSUME TypeOK, Shaped, Fresh, NEW r \in Actors
  PROVE  /\ req[r].key # 0 => req[r].key \in Keys /\ req[r].key \in 1..used
         /\ req[r].vkey # 0 => req[r].vkey \in Keys /\ req[r].vkey \in 1..used
<1>1. req[r].key \in {0} \cup Keys /\ req[r].vkey \in {0} \cup Keys
  BY RequestFacts DEF Request
<1>2. req[r].key <= used /\ req[r].vkey <= used
  BY DEF Fresh
<1> QED
  BY <1>1, <1>2, TableTypes DEF Keys

(* The requests' steps keep the types.                                      *)
LEMMA RequestTypes ==
  ASSUME TypeOK, Shaped, Fresh, NEW r \in Requests, RequestStep(r)
  PROVE  FilesTyped' /\ used <= used'
<1>0. /\ r \in Actors /\ lost' \subseteq Keys /\ used \in Nat /\ req[r] \in Request /\ Shape(req[r])
      /\ MaxKeys \in Nat /\ used <= used
  BY Numbers, LostTyped, RequestFacts, TableTypes, MediaAssumption
<1>1. CASE Upload(r) \/ StaticUpload(r) \/ ImportEntryImage(r) \/ StaticDestroy(r)
  BY <1>0, <1>1, StartEffect, GoTypes, TableTypes DEF Steady
<1>2. CASE WriteBlob(r)
  <2>1. PICK q2 \in Request :
               /\ Shape(q2) /\ Go(r, q2)
               /\ \/ /\ used' = used + 1 /\ used' \in Keys /\ blobs' = blobs \cup {used'}
                  \/ UNCHANGED <<used, blobs>>
    BY <1>2, WriteEffect
  <2>2. UNCHANGED <<files, aged, attachments, statics, articles, bodies, issued, mistaken>>
    BY <1>2, WriteEffect
  <2>3. used' \in 0..MaxKeys /\ blobs' \subseteq 1..used' /\ aged' \in 0..used' /\ issued' \subseteq 1..used' /\ used <= used'
    BY <1>0, <2>1, <2>2, TableTypes DEF Keys
  <2> QED
    BY <1>0, <2>1, <2>2, <2>3, GoTypes, TableTypes
<1>3. CASE InsertRow(r)
  <2>1. UNCHANGED <<used, aged, attachments, statics, articles, bodies, mistaken>> /\ req[r].pc = "row"
    BY <1>3, InsertEffect
  <2>2. PICK q2 \in Request :
           /\ Shape(q2) /\ Go(r, q2)
           /\ UNCHANGED blobs \/ blobs' = blobs \ {req[r].key}
           /\ UNCHANGED files \/ \E id \in FileIds : files' = CreateFile(id, req[r].key, 0)
           /\ UNCHANGED issued \/ issued' = issued \cup {req[r].key}
    BY <1>3, InsertEffect
  <2>3. req[r].key \in Keys /\ req[r].key \in 1..used
    BY <1>0, <2>1, KeyInUse DEF Shape, WithKey
  <2>4. files' \in FileTable
    <3>1. ASSUME NEW id \in FileIds PROVE CreateFile(id, req[r].key, 0) \in FileTable
      BY <2>3, RowTypes
    <3> QED
      BY <2>2, <3>1, TableTypes
  <2> QED
    BY <1>0, <2>1, <2>2, <2>3, <2>4, GoTypes, TableTypes
<1>4. CASE InsertVariant(r)
  <2>1. UNCHANGED <<used, aged, attachments, statics, articles, bodies, mistaken>> /\ req[r].pc = "vrow"
    BY <1>4, VariantEffect
  <2>2. PICK q2 \in Request :
           /\ Shape(q2) /\ Go(r, q2)
           /\ UNCHANGED issued \/ issued' = issued \cup {req[r].key}
    BY <1>4, VariantEffect
  <2>3. /\ UNCHANGED blobs \/ blobs' = blobs \ {req[r].vkey}
        /\ UNCHANGED files \/ \E id \in FileIds : files' = CreateFile(id, req[r].vkey, req[r].file)
    BY <1>4, VariantEffect
  <2>4. req[r].key \in Keys /\ req[r].key \in 1..used /\ req[r].vkey \in Keys
    BY <1>0, <2>1, KeyInUse DEF Shape, WithKey
  <2>5. req[r].file \in {0} \cup FileIds
    BY <1>0 DEF Request
  <2>6. files' \in FileTable
    <3>1. ASSUME NEW id \in FileIds PROVE CreateFile(id, req[r].vkey, req[r].file) \in FileTable
      BY <2>4, <2>5, RowTypes
    <3> QED
      BY <2>3, <3>1, TableTypes
  <2> QED
    BY <1>0, <2>1, <2>2, <2>3, <2>4, <2>6, GoTypes, TableTypes
<1>5. CASE AttachUpload(r)
  <2>1. UNCHANGED <<files, blobs, used, aged, statics, articles, bodies, mistaken>> /\ req[r].pc = "attach"
    BY <1>5, AttachEffect
  <2>2. PICK q2 \in Request :
           /\ Shape(q2) /\ Go(r, q2)
           /\ \/ CreateAttachment(req[r].file, req[r].arg) /\ issued' = issued \cup {req[r].key}
              \/ UNCHANGED <<attachments, issued>>
    BY <1>5, AttachEffect
  <2>3. req[r].key \in 1..used /\ req[r].file \in FileIds /\ req[r].arg \in Articles
    BY <1>0, <2>1, KeyInUse DEF Shape, WithKey, Request
  <2>4. attachments' \in AttachmentTable /\ issued' \subseteq 1..used
    BY <2>2, <2>3, TableTypes, AttachmentFacts
  <2> QED
    BY <1>0, <2>1, <2>2, <2>4, GoTypes, TableTypes
<1>6. CASE ImportEntry(r)
  <2>1. UNCHANGED <<files, blobs, used, aged, attachments, statics, mistaken>> /\ req[r].pc = "embed"
    BY <1>6, EntryEffect
  <2>2. PICK q2 \in Request : Shape(q2) /\ Go(r, q2)
    BY <1>6, EntryEffect
  <2>3. req[r].key \in Keys /\ req[r].key \in 1..used
    BY <1>0, <2>1, KeyInUse DEF Shape, WithKey
  <2>4. \/ \E a \in Articles :
              /\ articles' = articles \cup {a} /\ bodies' = [bodies EXCEPT ![a] = {req[r].key}]
              /\ issued' = issued \cup {req[r].key}
        \/ UNCHANGED <<articles, bodies, issued>>
    BY <1>6, EntryEffect
  <2>5. articles' \subseteq Articles /\ bodies' \in [Docs -> SUBSET Keys] /\ issued' \subseteq 1..used
    BY <2>3, <2>4, TableTypes
  <2> QED
    BY <1>0, <2>1, <2>2, <2>5, GoTypes, TableTypes
<1>7. CASE FindStatic(r)
  BY <1>0, <1>7, FindEffect, GoTypes, TableTypes DEF Steady
<1>8. CASE GetFileForStaticFilename(r)
  BY <1>0, <1>8, ResolveEffect, GoTypes, TableTypes DEF Steady
<1>9. CASE CreateStaticFile(r) \/ UpdateStaticFile(r)
  <2>1. /\ UNCHANGED <<files, blobs, used, aged, attachments, articles, bodies, issued, mistaken>>
        /\ req[r].pc \in {"create", "swap"}
    BY <1>9, CreateEffect, SwapEffect
  <2>2. PICK q2 \in Request :
           /\ Shape(q2) /\ Go(r, q2)
           /\ statics' = [statics EXCEPT ![req[r].arg] = req[r].file] \/ UNCHANGED statics
    BY <1>9, CreateEffect, SwapEffect
  <2>3. req[r].file \in FileIds /\ req[r].arg \in Names
    BY <1>0, <2>1 DEF Shape, WithKey, Request
  <2>4. statics' \in StaticTable
    BY <2>2, <2>3, TableTypes DEF StaticTable
  <2> QED
    BY <1>0, <2>1, <2>2, <2>4, GoTypes, TableTypes
<1>10. CASE DeleteStaticFile(r)
  <2>1. UNCHANGED <<files, blobs, used, aged, attachments, articles, bodies, issued, mistaken>>
    BY <1>10, DeleteStaticEffect
  <2>2. PICK q2 \in Request :
           /\ Shape(q2) /\ Go(r, q2)
           /\ UNCHANGED statics \/ statics' = [statics EXCEPT ![req[r].arg] = 0]
    BY <1>10, DeleteStaticEffect
  <2>3. statics' \in StaticTable
    BY <2>2, TableTypes DEF StaticTable
  <2> QED
    BY <1>0, <2>1, <2>2, <2>3, GoTypes, TableTypes
<1>11. CASE PurgeStoredFile(r)
  <2>1. UNCHANGED <<files, blobs, used, aged, attachments, statics, articles, bodies, issued>>
    BY <1>11, PurgeEffect
  <2>2. PICK q2 \in Request : Shape(q2) /\ Go(r, q2)
               /\ (UNCHANGED mistaken \/ \E k \in Keys : mistaken' = (mistaken \/ k # req[r].oldKey))
    BY <1>11, PurgeEffect
  <2>3. mistaken' \in BOOLEAN
    BY <2>2, TableTypes
  <2> QED
    BY <1>0, <2>1, <2>2, <2>3, GoTypes, TableTypes
<1>12. CASE DestroyArticle(r)
  <2>1. PICK a \in articles, D \in SUBSET FileIds :
               /\ articles' = articles \ {a} /\ bodies' = [bodies EXCEPT ![a] = {}]
               /\ attachments' = DeleteAttachmentsForRecord(a)
               /\ files' = [i \in FileIds |-> IF i \in D \/ files[i].of \in D THEN NoFile ELSE files[i]]
               /\ \/ UNCHANGED req
                  \/ \E q2 \in Request : Shape(q2) /\ Go(r, q2)
    BY <1>12, DestroyEffect
  <2>2. UNCHANGED <<blobs, used, aged, statics, issued, lost, mistaken>>
    BY <1>12, DestroyEffect
  <2>3. /\ files' \in FileTable /\ attachments' \in AttachmentTable /\ articles' \subseteq Articles
        /\ bodies' \in [Docs -> SUBSET Keys]
    BY <2>1, TableTypes, DetachFacts DEF FileTable
  <2>4. CASE UNCHANGED req
    BY <1>0, <2>2, <2>3, <2>4, TableTypes, RequestFacts DEF FilesTyped, FilesTypeOK, Shaped
  <2>5. CASE \E q2 \in Request : Shape(q2) /\ Go(r, q2)
    BY <1>0, <2>2, <2>3, <2>5, GoTypes, TableTypes
  <2> QED
    BY <1>0, <2>1, <2>2, <2>4, <2>5
<1> QED
  BY <1>1, <1>2, <1>3, <1>4, <1>5, <1>6, <1>7, <1>8, <1>9, <1>10, <1>11, <1>12 DEF RequestStep

(* While no backup moves, its types stay.                                   *)
LEMMA TransferRests ==
  ASSUME TypeOK, Shaped, FilesTyped', used <= used', UNCHANGED bundleVars
  PROVE  TypeOK' /\ Shaped'
<1>1. UNCHANGED <<transfer, bundle, unrestored, merged>>
  BY DEF bundleVars
<1>2. used \in Nat /\ used' \in Nat
  BY DEF FilesTyped, TypeOK, FilesTypeOK
<1>3. 1..used \subseteq 1..used'
  BY <1>2
<1>4. TypeOK'
  BY <1>1 DEF TypeOK, FilesTyped
<1>5. /\ transfer'.todo \subseteq 1..used'
      /\ transfer'.db.blobs \subseteq 1..used' \/ transfer'.db = NoBundle
      /\ bundle'.blobs \subseteq 1..used' \/ bundle' = NoBundle
      /\ transfer'.pc \in {"walk", "pack"} => transfer'.db.blobs \subseteq 1..used'
      /\ transfer'.pc \in {"tables", "blobs"} => bundle' # NoBundle
  BY <1>1, <1>3 DEF Shaped
<1>6. \A s \in Actors : Shape(req[s])'
  BY DEF FilesTyped
<1>7. NoBundle' = NoBundle
  BY DEF NoBundle, NoFile, NoAttachment
<1> QED
  BY <1>4, <1>5, <1>6, <1>7 DEF Shaped

(* While only a backup moves, the tables and the requests keep their types. *)
LEMMA FilesRest ==
  ASSUME TypeOK, Shaped, OnlyTransfer
  PROVE  FilesTyped' /\ UNCHANGED <<used, blobs, files, req>>
  BY DEF TypeOK, Shaped, OnlyTransfer, FilesTyped, FilesTypeOK, Shape

Transfer == [pc : {"off", "walk", "pack", "tables", "blobs"}, db : Backup, todo : SUBSET Keys]

(* The copy of the database, and no copy at all, are backups.               *)
LEMMA BackupTypes ==
  ASSUME TypeOK
  PROVE  /\ Database \in Backup /\ NoBundle \in Backup /\ Database.blobs = {} /\ NoBundle.blobs = {0}
         /\ Database.files = files /\ NoBundle.files = [i \in FileIds |-> NoFile]
         /\ \A pc \in {"off", "tables"} : LET t == [Off EXCEPT !.pc = pc] IN
               t \in Transfer /\ t.pc = pc /\ t.db = NoBundle /\ t.todo = {}
<1>1. NoBundle \in Backup
  BY DEF NoBundle, Backup, FileTable, AttachmentTable, StaticTable
<1>2. Database \in Backup
  BY TableTypes DEF Database, Backup
<1>3. ASSUME NEW pc \in {"off", "tables"}
      PROVE  LET t == [Off EXCEPT !.pc = pc] IN t \in Transfer /\ t.pc = pc /\ t.db = NoBundle /\ t.todo = {}
  <2>1. Off = [pc |-> "off", db |-> NoBundle, todo |-> {}]
    BY DEF Off
  <2> QED
    BY <1>1, <2>1 DEF Transfer
<1> QED
  BY <1>1, <1>2, <1>3 DEF Database, NoBundle

(* Stop leaves no copy behind.                                              *)
LEMMA StopFacts ==
  ASSUME TypeOK, NEW pc \in {"off", "tables"}, Stop(pc)
  PROVE  transfer' \in Transfer /\ transfer'.pc = pc /\ transfer'.db = NoBundle /\ transfer'.todo = {}
  BY BackupTypes DEF Stop

(* A step of a backup or an import, in types.                               *)
LEMMA TransferMoves ==
  ASSUME TypeOK, FilesTyped', transfer' \in Transfer, bundle' \in Backup, unrestored' \subseteq Keys, merged' \in BOOLEAN,
         transfer'.todo \subseteq 1..used', transfer'.db.blobs \subseteq 1..used' \/ transfer'.db = NoBundle,
         bundle'.blobs \subseteq 1..used' \/ bundle' = NoBundle,
         transfer'.pc \in {"walk", "pack"} => transfer'.db.blobs \subseteq 1..used',
         transfer'.pc \in {"tables", "blobs"} => bundle' # NoBundle
  PROVE  TypeOK' /\ Shaped'
<1>1. NoBundle' = NoBundle
  BY DEF NoBundle, NoFile, NoAttachment
<1>2. TypeOK'
  BY DEF TypeOK, FilesTyped, Transfer
<1> QED
  BY <1>1, <1>2 DEF Shaped, FilesTyped

(* The jobs' steps keep the types.                                          *)
LEMMA TransferTypes ==
  ASSUME TypeOK, Shaped,
         VacuumInto \/ WalkBlobs \/ PackBlob \/ RenameBundle \/ StartImport \/ CopyTables \/ RestoreBlob \/ CrashAll
  PROVE  TypeOK' /\ Shaped'
<1>0. /\ transfer \in Transfer /\ bundle \in Backup /\ unrestored \subseteq Keys /\ merged \in BOOLEAN
      /\ used \in Nat /\ 1..used \subseteq Keys /\ blobs \subseteq 1..used
      /\ transfer.todo \subseteq 1..used
      /\ transfer.db.blobs \subseteq 1..used \/ transfer.db = NoBundle
      /\ bundle.blobs \subseteq 1..used \/ bundle = NoBundle
      /\ transfer.pc \in {"walk", "pack"} => transfer.db.blobs \subseteq 1..used
      /\ transfer.pc \in {"tables", "blobs"} => bundle # NoBundle
  BY TableTypes, MediaAssumption DEF TypeOK, Shaped, Transfer, Keys
<1>1. ASSUME OnlyTransfer PROVE FilesTyped' /\ used' = used
  BY <1>1, FilesRest
<1>2. CASE VacuumInto
  <2>1. transfer' = [pc |-> "walk", db |-> Database, todo |-> {}] /\ UNCHANGED <<bundle, unrestored, merged>> /\ OnlyTransfer
    BY <1>2 DEF VacuumInto
  <2>2. /\ transfer' \in Transfer /\ transfer'.pc = "walk" /\ transfer'.todo = {} /\ transfer'.db.blobs = {}
    BY <2>1, BackupTypes DEF Transfer
  <2> QED
    BY <1>0, <1>1, <2>1, <2>2, TransferMoves
<1>3. CASE WalkBlobs
  <2>1. /\ transfer.pc = "walk" /\ transfer' = [transfer EXCEPT !.pc = "pack", !.todo = blobs]
        /\ UNCHANGED <<bundle, unrestored, merged>> /\ OnlyTransfer
    BY <1>3 DEF WalkBlobs
  <2>2. transfer' \in Transfer /\ transfer'.pc = "pack" /\ transfer'.todo = blobs /\ transfer'.db = transfer.db
    BY <1>0, <2>1 DEF Transfer
  <2> QED
    BY <1>0, <1>1, <2>1, <2>2, TransferMoves
<1>4. CASE PackBlob
  <2>1. transfer.pc = "pack" /\ UNCHANGED <<bundle, unrestored, merged>> /\ OnlyTransfer
    BY <1>4 DEF PackBlob
  <2>2. PICK k \in transfer.todo :
           IF k \in blobs THEN transfer' = [transfer EXCEPT !.todo = @ \ {k}, !.db.blobs = @ \cup {k}] ELSE Stop("off")
    BY <1>4 DEF PackBlob
  <2>3. CASE k \in blobs
    <3>1. transfer' = [transfer EXCEPT !.todo = @ \ {k}, !.db.blobs = @ \cup {k}]
      BY <2>2, <2>3
    <3>2. k \in 1..used /\ k \in Keys
      BY <1>0, <2>2
    <3>3. transfer.db \in Backup
      BY <1>0 DEF Transfer
    <3>4. /\ [transfer.db EXCEPT !.blobs = @ \cup {k}] \in Backup
          /\ [transfer.db EXCEPT !.blobs = @ \cup {k}].blobs = transfer.db.blobs \cup {k}
      BY <3>2, <3>3 DEF Backup
    <3>5. transfer' = [transfer EXCEPT !.todo = @ \ {k}, !.db = [transfer.db EXCEPT !.blobs = @ \cup {k}]]
      BY <3>1
    <3>6. /\ transfer' \in Transfer /\ transfer'.pc = transfer.pc /\ transfer'.todo = transfer.todo \ {k}
          /\ transfer'.db.blobs = transfer.db.blobs \cup {k}
      BY <1>0, <3>4, <3>5 DEF Transfer
    <3>7. transfer'.db.blobs \subseteq 1..used
      BY <1>0, <2>1, <3>2, <3>6
    <3> QED
      BY <1>0, <1>1, <2>1, <3>6, <3>7, TransferMoves
  <2>4. CASE k \notin blobs
    BY <1>0, <1>1, <2>1, <2>2, <2>4, StopFacts, TransferMoves
  <2> QED
    BY <2>3, <2>4
<1>5. CASE RenameBundle
  <2>1. transfer.pc = "pack" /\ Stop("off") /\ bundle' = transfer.db /\ UNCHANGED <<unrestored, merged>> /\ OnlyTransfer
    BY <1>5 DEF RenameBundle
  <2>2. bundle' \in Backup /\ bundle'.blobs \subseteq 1..used
    BY <1>0, <2>1 DEF Transfer
  <2> QED
    BY <1>0, <1>1, <2>1, <2>2, StopFacts, TransferMoves
<1>6. CASE StartImport
  BY <1>0, <1>1, <1>6, StopFacts, TransferMoves DEF StartImport
<1>7. CASE CopyTables
  <2>1. transfer.pc = "tables" /\ UNCHANGED bundle
    BY <1>7 DEF CopyTables
  <2>2. CASE Stop("off") /\ OnlyTransfer /\ UNCHANGED <<unrestored, merged>>
    BY <1>0, <1>1, <2>1, <2>2, StopFacts, TransferMoves
  <2>3. CASE /\ files' = Merged
             /\ attachments' = Upsert(attachments, bundle.attachments, NoAttachment)
             /\ statics' = Upsert(statics, bundle.statics, 0)
             /\ articles' = articles \cup bundle.articles
             /\ bodies' = [d \in Docs |-> IF d \in bundle.articles \cup {Page} THEN bundle.bodies[d] ELSE bodies[d]]
             /\ unrestored' = unrestored \cup ({Merged[i].key : i \in FileIds} \ ((blobs \ Doomed) \cup {0}))
             /\ transfer' = [transfer EXCEPT !.pc = "blobs", !.todo = bundle.blobs]
             /\ merged' = TRUE
             /\ UNCHANGED <<blobs, used, aged, req, issued, lost, mistaken>>
    <3>1. /\ bundle.files \in FileTable /\ bundle.attachments \in AttachmentTable /\ bundle.statics \in StaticTable
          /\ bundle.articles \subseteq Articles /\ bundle.bodies \in [Docs -> SUBSET Keys]
      BY <1>0 DEF Backup
    <3>2. files' \in FileTable /\ attachments' \in AttachmentTable /\ statics' \in StaticTable
      BY <2>3, <3>1, TableTypes DEF Merged, Upsert, FileTable, AttachmentTable, StaticTable
    <3>3. articles' \subseteq Articles /\ bodies' \in [Docs -> SUBSET Keys]
      BY <2>3, <3>1, TableTypes
    <3>4. FilesTyped'
      BY <2>3, <3>2, <3>3, TableTypes DEF FilesTyped, FilesTypeOK, Shaped, Shape, TypeOK
    <3>5. \A i \in FileIds : files'[i].key \in {0} \cup Keys
      BY <3>2, Numbers DEF FileTable, File, NoFile
    <3>6. unrestored' \subseteq Keys
      BY <1>0, <2>3, <3>5
    <3>7. bundle.blobs \subseteq 1..used /\ bundle # NoBundle
      BY <1>0, <2>1
    <3>8. /\ transfer' \in Transfer /\ transfer'.pc = "blobs" /\ transfer'.todo = bundle.blobs /\ transfer'.db = transfer.db
      BY <1>0, <2>3, <3>7 DEF Transfer
    <3> QED
      BY <1>0, <2>1, <2>3, <3>4, <3>6, <3>7, <3>8, TransferMoves
  <2> QED
    BY <1>7, <2>2, <2>3 DEF CopyTables
<1>8. CASE RestoreBlob
  <2>1. /\ transfer.pc = "blobs"
        /\ UNCHANGED <<files, used, aged, attachments, statics, articles, bodies, req, issued, lost, mistaken, bundle, merged>>
    BY <1>8 DEF RestoreBlob
  <2>2. /\ blobs' \subseteq 1..used /\ unrestored' \subseteq Keys /\ transfer' \in Transfer
        /\ transfer'.todo \subseteq transfer.todo
        /\ transfer'.db \in {transfer.db, NoBundle} /\ transfer'.pc \in {"blobs", "off"}
    <3>1. CASE UNCHANGED <<blobs, unrestored>> /\ Stop("off")
      BY <1>0, <3>1, StopFacts
    <3>2. CASE \E k \in transfer.todo :
             /\ transfer' = [transfer EXCEPT !.todo = @ \ {k}]
             /\ blobs' = blobs \cup {k} /\ unrestored' = unrestored \ ({k} \ Doomed)
      BY <1>0, <2>1, <3>2 DEF Transfer
    <3> QED
      BY <1>8, <3>1, <3>2 DEF RestoreBlob
  <2>3. FilesTyped'
    BY <2>1, <2>2, TableTypes DEF FilesTyped, FilesTypeOK, Shaped, Shape, TypeOK
  <2> QED
    BY <1>0, <2>1, <2>2, <2>3, TransferMoves
<1>9. CASE CrashAll
  <2>1. Stop("off") /\ UNCHANGED <<bundle, unrestored, merged>>
    BY <1>9 DEF CrashAll
  <2>2. FilesTyped' /\ used' = used
    <3>1. CASE OnlyTransfer
      BY <1>1, <3>1
    <3>2. CASE Crash
      <4>1. /\ UNCHANGED <<files, blobs, used, aged, attachments, statics, articles, bodies, issued, mistaken>>
            /\ req' = [r \in Actors |-> Idle] /\ lost' = lost \cup UNION {HeldKeys(req[r]) : r \in Actors}
        BY <3>2 DEF Crash
      <4>2. lost' \subseteq Keys
        BY <4>1 DEF HeldKeys, TypeOK, FilesTypeOK
      <4> QED
        BY <4>1, <4>2, IdleShape DEF FilesTyped, FilesTypeOK, TypeOK
    <3> QED
      BY <1>9, <3>1, <3>2 DEF CrashAll
  <2> QED
    BY <1>0, <2>1, <2>2, StopFacts, TransferMoves
<1> QED
  BY <1>2, <1>3, <1>4, <1>5, <1>6, <1>7, <1>8, <1>9

(* Every step keeps the types.                                              *)
LEMMA StepTypes ==
  ASSUME TypeOK, Shaped, Fresh, [Next]_vars
  PROVE  TypeOK' /\ Shaped'
<1>0. used \in Nat /\ used <= used /\ lost \subseteq Keys
  BY TableTypes DEF TypeOK, FilesTypeOK
<1>1. CASE \E r \in Requests : RequestStep(r) /\ UNCHANGED bundleVars
  BY <1>1, RequestTypes, TransferRests
<1>2. ASSUME NEW r \in Actors, DeleteRow(r), UNCHANGED bundleVars PROVE TypeOK' /\ Shaped'
  <2>1. UNCHANGED <<blobs, used, aged, attachments, statics, articles, bodies, issued>> /\ lost' \subseteq Keys
    BY <1>2, DeleteEffect, LostTyped
  <2>2. PICK q2 \in Request :
           /\ Shape(q2) /\ Go(r, q2)
           /\ \/ /\ files' = [files EXCEPT ![Victim(req[r]).id] = NoFile]
                 /\ mistaken' = (mistaken \/ files[Victim(req[r]).id].key \notin {0, Victim(req[r]).key})
              \/ UNCHANGED <<files, mistaken>>
    BY <1>2, DeleteEffect
  <2>3. files' \in FileTable /\ mistaken' \in BOOLEAN
    BY <2>2, TableTypes DEF FileTable
  <2> QED
    BY <1>0, <1>2, <2>1, <2>2, <2>3, GoTypes, TableTypes, TransferRests
<1>3. ASSUME NEW r \in Actors, Unlink(r), UNCHANGED bundleVars PROVE TypeOK' /\ Shaped'
  <2>1. UNCHANGED <<files, used, aged, attachments, statics, articles, bodies, issued, mistaken>> /\ lost' \subseteq Keys
    BY <1>3, UnlinkEffect, LostTyped
  <2>2. PICK q2 \in Request : Shape(q2) /\ Go(r, q2)
    BY <1>3, UnlinkEffect
  <2>3. blobs' \subseteq 1..used'
    BY <1>3, <2>1, UnlinkEffect, TableTypes
  <2> QED
    BY <1>0, <1>3, <2>1, <2>2, <2>3, GoTypes, TableTypes, TransferRests
<1>4. CASE SaveDocument /\ UNCHANGED bundleVars
  <2>1. UNCHANGED <<files, blobs, used, aged, attachments, statics, articles, req, issued, lost, mistaken>>
    BY <1>4 DEF SaveDocument
  <2>2. PICK d \in articles \cup {Page}, k \in issued :
          bodies' = [bodies EXCEPT ![d] = @ \cup {k}] \/ bodies' = [bodies EXCEPT ![d] = @ \ {k}]
    BY <1>4 DEF SaveDocument
  <2>3. k \in Keys
    BY <2>2, TableTypes, MediaAssumption DEF Keys
  <2>4. bodies' \in [Docs -> SUBSET Keys]
    BY <2>2, <2>3, TableTypes
  <2>5. FilesTyped'
    BY <2>1, <2>4, TableTypes DEF FilesTyped, FilesTypeOK, Shaped, Shape, TypeOK
  <2> QED
    BY <1>0, <1>4, <2>1, <2>5, TransferRests
<1>5. CASE ADayPasses /\ UNCHANGED bundleVars
  <2>1. UNCHANGED <<files, blobs, used, attachments, statics, articles, bodies, req, issued, lost, mistaken>> /\ aged' = used
    BY <1>5 DEF ADayPasses
  <2>2. FilesTyped'
    BY <1>0, <2>1, TableTypes DEF FilesTyped, FilesTypeOK, Shaped, Shape, TypeOK
  <2> QED
    BY <1>0, <1>5, <2>1, <2>2, TransferRests
<1>6. CASE StartReaper /\ UNCHANGED bundleVars
  <2>1. UNCHANGED lost
    BY <1>6 DEF StartReaper
  <2> QED
    BY <1>0, <1>6, <2>1, ReaperEffect, Numbers, GoTypes, TableTypes, TransferRests DEF Steady
<1>7. CASE ExamineCandidate /\ UNCHANGED bundleVars
  <2>1. UNCHANGED lost
    BY <1>7 DEF ExamineCandidate, NoSpend
  <2> QED
    BY <1>0, <1>7, <2>1, ExamineEffect, Numbers, GoTypes, TableTypes, TransferRests DEF Steady
<1>8. CASE VacuumInto \/ WalkBlobs \/ PackBlob \/ RenameBundle \/ StartImport \/ CopyTables \/ RestoreBlob \/ CrashAll
  BY <1>8, TransferTypes
<1>9. CASE UNCHANGED vars
  <2>1. FilesTyped' /\ used' = used /\ UNCHANGED bundleVars
    BY <1>9, TableTypes DEF vars, fileVars, FilesTyped, FilesTypeOK, Shaped, Shape, TypeOK
  <2> QED
    BY <1>0, <2>1, TransferRests
<1> QED
  BY <1>1, <1>2, <1>3, <1>4, <1>5, <1>6, <1>7, <1>8, <1>9 DEF Next

-----------------------------------------------------------------------------
(* A row keeps its blob.                                                    *)

RowParts == OneHome /\ Fresh /\ RowHasBlob /\ UnlinkedHasNoRow /\ BackupHolds

(* A request that reads no row nobody knew and stores nothing.              *)
CalmTo(q, q2) ==
    /\ q2.pc \notin {"row", "vrow", "unlink"}
    /\ q2.key \in {0, q.key}
    /\ \A i \in FileIds, k \in Keys : Keeps(q2, i, k) => Known(i, k)

(* Keys stay with their ids and unborn as long as nobody learns of a row.   *)
LEMMA HomeKept ==
  ASSUME TypeOK, OneHome, Fresh, used' \in Nat, used <= used',
         \A i \in FileIds, k \in Keys : Known(i, k)' => Known(i, k),
         \A r \in Actors : req'[r].key <= used' /\ req'[r].vkey <= used',
         \A r \in Actors : Unborn(req'[r]) \subseteq Unborn(req[r]) \cap blobs'
  PROVE  OneHome' /\ Fresh'
<1>0. used \in Nat /\ blobs \subseteq Keys
  BY TableTypes, MediaAssumption DEF Keys
<1>1. OneHome'
  BY DEF OneHome
<1>2. \A i \in FileIds, k \in Keys : Known(i, k)' => k <= used'
  BY <1>0 DEF Fresh, Keys
<1>3. \A r \in Actors : \A k \in Unborn(req'[r]) :
          /\ k \in blobs' /\ \A i \in FileIds : ~Known(i, k)'
          /\ \A s \in Actors : k \in Unborn(req'[s]) => r = s
  BY <1>0 DEF Fresh
<1> QED
  BY <1>1, <1>2, <1>3 DEF Fresh

(* The keys a request reads are keys of ids, the one it stores is in use.   *)
LEMMA GoKnown ==
  ASSUME TypeOK, Shaped, Fresh, NEW r \in Actors, NEW q2 \in Request, Shape(q2), Go(r, q2)
  PROVE  /\ req'[r] = q2 /\ \A s \in Actors \ {r} : req'[s] = req[s]
         /\ \A i \in FileIds, k \in Keys :
               (\E s \in Actors : Keeps(req'[s], i, k)) => Known(i, k) \/ Keeps(q2, i, k)
         /\ (\A s \in Actors : req[s].key <= used /\ req[s].vkey <= used)
<1>1. req'[r] = q2 /\ \A s \in Actors \ {r} : req'[s] = req[s]
  BY GoShape, RequestFacts DEF Shaped
<1>2. ASSUME NEW i \in FileIds, NEW k \in Keys, NEW s \in Actors, Keeps(req'[s], i, k)
      PROVE  Known(i, k) \/ Keeps(q2, i, k)
  BY <1>1, <1>2 DEF Known
<1> QED
  BY <1>1, <1>2 DEF Fresh

(* The keys of a request are numbers.                                       *)
LEMMA RequestNumbers ==
  ASSUME TypeOK, Shaped, NEW r \in Actors
  PROVE  req[r].key \in Nat /\ req[r].vkey \in Nat
<1>1. req[r].key \in {0} \cup Keys /\ req[r].vkey \in {0} \cup Keys
  BY RequestFacts DEF Request
<1> QED
  BY <1>1 DEF Keys

(* Going keys are keys of ids.                                              *)
LEMMA GoingFacts ==
  ASSUME NEW q \in Request, Shape(q), NEW d \in Going(q)
  PROVE  q.pc = "unlink" /\ d \in q.doomed /\ d \in FileRef /\ d.id \in FileIds /\ d.key \in Keys /\ Keeps(q, d.id, d.key)
<1>1. q.pc = "unlink" /\ d \in q.doomed
  BY VictimFacts DEF Going, Shape
<1>2. d \in FileRef
  BY <1>1 DEF Request
<1> QED
  BY <1>1, <1>2 DEF FileRef, Keeps

(* A calm step keeps the rows' blobs.                                       *)
LEMMA CalmKeeps ==
  ASSUME TypeOK, Shaped, RowParts, TypeOK', NEW r \in Actors, NEW q2 \in Request, Shape(q2), Go(r, q2), CalmTo(req[r], q2),
         UNCHANGED <<files, blobs, used, bundleVars>>
  PROVE  RowParts'
<1>1. /\ req'[r] = q2 /\ \A s \in Actors \ {r} : req'[s] = req[s]
      /\ \A i \in FileIds, k \in Keys :
            (\E s \in Actors : Keeps(req'[s], i, k)) => Known(i, k) \/ Keeps(q2, i, k)
      /\ \A s \in Actors : req[s].key <= used /\ req[s].vkey <= used
  BY GoKnown DEF RowParts
<1>2. UNCHANGED <<transfer, bundle, unrestored, merged>> /\ used \in Nat /\ 0 <= used
  BY TableTypes DEF bundleVars
<1>3. \A i \in FileIds, k \in Keys : Known(i, k)' => Known(i, k)
  BY <1>1, <1>2 DEF Known, CalmTo
<1>4. q2.vkey = 0 /\ Unborn(q2) = {} /\ Going(q2) = {}
  BY DEF CalmTo, Shape, Unborn, Going
<1>5. \A s \in Actors : req'[s].key <= used' /\ req'[s].vkey <= used'
  BY <1>1, <1>2, <1>4 DEF CalmTo
<1>6. \A s \in Actors : Unborn(req[s]) \subseteq blobs
  BY DEF RowParts, Fresh
<1>7. \A s \in Actors : Unborn(req'[s]) \subseteq Unborn(req[s]) \cap blobs'
  BY <1>1, <1>4, <1>6
<1>8. OneHome' /\ Fresh'
  BY <1>2, <1>3, <1>5, <1>7, HomeKept DEF RowParts
<1>9. RowHasBlob'
  BY <1>2 DEF RowParts, RowHasBlob, Stored
<1>10. UnlinkedHasNoRow'
  BY <1>1, <1>2, <1>4 DEF RowParts, UnlinkedHasNoRow
<1>11. BackupHolds'
  BY <1>2 DEF RowParts, BackupHolds, BundleHoldsItsBlobs, Packed, NoBundle, NoFile, NoAttachment
<1> QED
  BY <1>8, <1>9, <1>10, <1>11 DEF RowParts

(* The steps that are calm.                                                 *)
LEMMA CalmSteps ==
  ASSUME TypeOK, Shaped, NEW r \in Actors, NEW q2 \in Request, Shape(q2),
         \/ Starts(req[r], q2) \/ Ends(req[r], q2) \/ Continues(req[r], q2) \/ Resolves(req[r], q2)
         \/ PurgesOwn(req[r], q2) \/ PurgesOld(req[r], q2) \/ Skips(req[r], q2)
         \/ PurgesNamed(req[r], q2) /\ q2.old # 0
         \/ \E i \in FileIds, k \in Keys : Removes(req[r], q2, i, k) /\ Known(i, k)
  PROVE  CalmTo(req[r], q2)
<1> DEFINE q == req[r]
<1>0. q \in Request /\ Shape(q) /\ 0 \notin FileIds /\ 0 \notin Keys
  BY RequestFacts, Numbers
<1>1. \A i \in FileIds, k \in Keys : Keeps(q, i, k) \/ files[i].key = k => Known(i, k)
  BY DEF Known
<1> HIDE DEF q
<1>2. CASE Starts(q, q2) \/ Ends(q, q2)
  <2>1. q2.pc \notin WithKey /\ q2.pc \in {"blob", "fetch", "idle", "examine"} /\ q2.cands \subseteq q.cands
    BY <1>2 DEF Starts, Ends, WithKey
  <2>2. q2.key = 0 /\ q2.file = 0 /\ q2.old = 0 /\ q2.doomed = {}
    BY <2>1 DEF Shape
  <2> QED
    BY <1>0, <1>1, <2>1, <2>2 DEF CalmTo, Keeps, q
<1>3. CASE Continues(q, q2)
  <2>1. q2.old = 0 /\ q2.doomed = {}
    BY <1>3 DEF Continues, Shape
  <2> QED
    BY <1>0, <1>1, <1>3, <2>1 DEF Continues, CalmTo, Keeps, q
<1>4. CASE Resolves(q, q2)
  <2>1. q2.doomed = {}
    BY <1>4 DEF Resolves, Shape
  <2> QED
    BY <1>0, <1>1, <1>4, <2>1 DEF Resolves, CalmTo, Keeps, q
<1>5. CASE PurgesOwn(q, q2)
  <2>1. q2.doomed = {} /\ q2.file = 0 /\ q2.key = 0
    BY <1>5 DEF PurgesOwn, Shape, WithKey
  <2> QED
    BY <1>0, <1>1, <1>5, <2>1 DEF PurgesOwn, CalmTo, Keeps, q
<1>6. CASE PurgesOld(q, q2)
  <2>1. q2.doomed = {} /\ q2.file = 0 /\ q2.key = 0
    BY <1>6 DEF PurgesOld, Shape, WithKey
  <2> QED
    BY <1>0, <1>1, <1>6, <2>1 DEF PurgesOld, CalmTo, Keeps, q
<1>7. CASE PurgesNamed(q, q2) /\ q2.old # 0
  <2>1. q2.doomed = {} /\ q2.file = 0 /\ q2.key = 0
    BY <1>7 DEF PurgesNamed, Shape, WithKey
  <2> QED
    BY <1>0, <1>1, <1>7, <2>1 DEF PurgesNamed, CalmTo, Keeps, q
<1>8. CASE Skips(q, q2)
  <2>1. q2.old = 0 /\ q2.file = 0 /\ q2.key = 0
    BY <1>8 DEF Skips, Shape, WithKey
  <2> QED
    BY <1>0, <1>1, <1>8, <2>1 DEF Skips, CalmTo, Keeps, q
<1>9. ASSUME NEW i \in FileIds, NEW k \in Keys, Removes(q, q2, i, k), Known(i, k) PROVE CalmTo(q, q2)
  <2>1. q2.old = 0 /\ q2.file = 0 /\ q2.key = 0 /\ q2.pc = "delete" /\ q2.doomed = Family(i, k) /\ q2.cands \subseteq q.cands
    BY <1>9 DEF Removes, Shape, WithKey
  <2>2. \A d \in Family(i, k) : d.id \in FileIds /\ d.key \in Keys => Known(d.id, d.key)
    BY <1>1, <1>9, FamilyFacts
  <2>3. \A j \in FileIds, l \in Keys : Keeps(q2, j, l) => Known(j, l)
    BY <1>0, <1>1, <2>1, <2>2 DEF Keeps
  <2> QED
    BY <2>1, <2>3 DEF CalmTo
<1> QED
  BY <1>2, <1>3, <1>4, <1>5, <1>6, <1>7, <1>8, <1>9 DEF q

(* A blob stored under a new key is nobody's yet.                           *)
LEMMA WriteKeeps ==
  ASSUME TypeOK, Shaped, RowParts, TypeOK', NEW r \in Requests, WriteBlob(r), UNCHANGED bundleVars
  PROVE  RowParts'
<1>1. UNCHANGED <<files, transfer, bundle, unrestored, merged>> /\ r \in Actors /\ used \in Nat
  BY WriteEffect, Numbers, TableTypes DEF bundleVars
<1>2. PICK q2 \in Request :
               /\ Shape(q2) /\ Go(r, q2)
               /\ \/ /\ used' = used + 1 /\ used' \in Keys /\ blobs' = blobs \cup {used'} /\ q2.cands = req[r].cands
                     /\ \/ q2.pc = "row" /\ q2.key = used' /\ req[r].pc = "blob"
                        \/ /\ q2.pc = "vrow" /\ q2.key = req[r].key /\ q2.file = req[r].file /\ q2.vkey = used'
                           /\ req[r].pc = "vblob"
                  \/ Ends(req[r], q2) /\ UNCHANGED <<used, blobs>>
  BY WriteEffect
<1>3. CASE Ends(req[r], q2) /\ UNCHANGED <<used, blobs>>
  BY <1>1, <1>2, <1>3, CalmSteps, CalmKeeps
<1>4. CASE /\ used' = used + 1 /\ used' \in Keys /\ blobs' = blobs \cup {used'} /\ q2.cands = req[r].cands
           /\ \/ q2.pc = "row" /\ q2.key = used' /\ req[r].pc = "blob"
              \/ /\ q2.pc = "vrow" /\ q2.key = req[r].key /\ q2.file = req[r].file /\ q2.vkey = used'
                 /\ req[r].pc = "vblob"
  <2>1. /\ req'[r] = q2 /\ \A s \in Actors \ {r} : req'[s] = req[s]
        /\ \A i \in FileIds, k \in Keys :
              (\E s \in Actors : Keeps(req'[s], i, k)) => Known(i, k) \/ Keeps(q2, i, k)
        /\ \A s \in Actors : req[s].key <= used /\ req[s].vkey <= used
    BY <1>1, <1>2, GoKnown DEF RowParts
  <2>2. \A i \in FileIds, k \in Keys : Keeps(q2, i, k) => Known(i, k)
    <3>1. q2.old = 0 /\ q2.doomed = {} /\ (q2.pc = "row" => q2.file = 0)
      BY <1>2, <1>4 DEF Shape
    <3> QED
      BY <1>1, <1>4, <3>1, Numbers DEF Keeps, Known
  <2>3. \A i \in FileIds, k \in Keys : Known(i, k)' => Known(i, k)
    BY <1>1, <2>1, <2>2 DEF Known
  <2>4. \A i \in FileIds, k \in Keys : Known(i, k) => k <= used
    BY DEF RowParts, Fresh
  <2>5. OneHome'
    BY <2>3 DEF RowParts, OneHome
  <2>6. Unborn(q2) = {used'} /\ Going(q2) = {}
    BY <1>4 DEF Unborn, Going
  <2>7. q2.key <= used' /\ q2.vkey <= used'
    <3>1. q2.pc = "row" => q2.vkey = 0
      BY <1>2 DEF Shape
    <3> QED
      BY <1>1, <1>4, <2>1, <3>1, RequestNumbers
  <2>8. \A s \in Actors : Unborn(req[s]) \subseteq blobs /\ blobs \subseteq Keys /\ blobs \subseteq 1..used
    BY TableTypes, MediaAssumption DEF RowParts, Fresh, Keys
  <2>9. Fresh'
    <3>1. \A i \in FileIds, k \in Keys : Known(i, k)' => k <= used'
      BY <1>1, <1>4, <2>3, <2>4 DEF Keys
    <3>2. \A s \in Actors : req'[s].key <= used' /\ req'[s].vkey <= used'
      <4> TAKE s \in Actors
      <4>1. CASE s = r
        BY <2>1, <2>7, <4>1
      <4>2. CASE s # r
        <5>1. req'[s] = req[s] /\ req[s].key <= used /\ req[s].vkey <= used /\ req[s] \in Request
          BY <2>1, <4>2, RequestFacts
        <5>2. req[s].key \in Nat /\ req[s].vkey \in Nat
          BY RequestNumbers
        <5> QED
          BY <1>1, <1>4, <5>1, <5>2
      <4> QED
        BY <4>1, <4>2
    <3>3. ASSUME NEW s \in Actors, NEW k \in Unborn(req'[s])
          PROVE  /\ k \in blobs' /\ \A i \in FileIds : ~Known(i, k)'
                 /\ \A t \in Actors : k \in Unborn(req'[t]) => s = t
      <4>1. CASE s = r
        <5>1. k = used'
          BY <2>1, <2>6, <3>3, <4>1
        <5>2. \A i \in FileIds : ~Known(i, k)'
          BY <1>1, <1>4, <2>3, <2>4, <5>1
        <5>3. \A t \in Actors \ {r} : k \notin Unborn(req'[t])
          BY <1>1, <1>4, <2>1, <2>8, <5>1
        <5> QED
          BY <1>4, <4>1, <5>1, <5>2, <5>3
      <4>2. CASE s # r
        <5>1. k \in Unborn(req[s]) /\ k \in blobs /\ k \in Keys /\ k # used'
          BY <1>1, <1>4, <2>1, <2>8, <3>3, <4>2
        <5>2. \A i \in FileIds : ~Known(i, k)'
          BY <2>3, <5>1 DEF RowParts, Fresh
        <5>3. \A t \in Actors : k \in Unborn(req'[t]) => s = t
          BY <2>1, <2>6, <5>1 DEF RowParts, Fresh
        <5> QED
          BY <1>4, <5>1, <5>2, <5>3
      <4> QED
        BY <4>1, <4>2
    <3> QED
      BY <3>1, <3>2, <3>3 DEF Fresh
  <2>10. RowHasBlob'
    BY <1>1, <1>4 DEF RowParts, RowHasBlob, Stored
  <2>11. UnlinkedHasNoRow'
    BY <1>1, <2>1, <2>6 DEF RowParts, UnlinkedHasNoRow
  <2>12. NoBundle' = NoBundle
    BY DEF NoBundle, NoFile, NoAttachment
  <2>13. ASSUME NEW i \in FileIds
         PROVE  /\ bundle.files[i] # NoFile => bundle.files[i].key # used'
                /\ transfer.db.files[i] # NoFile => transfer.db.files[i].key # used'
    <3>1. bundle.files[i] \in File \cup {NoFile} /\ transfer.db.files[i] \in File \cup {NoFile}
      BY DEF TypeOK, Backup, FileTable
    <3>2. /\ bundle.files[i] # NoFile => bundle.files[i].key \in Keys /\ Known(i, bundle.files[i].key)
          /\ transfer.db.files[i] # NoFile => transfer.db.files[i].key \in Keys /\ Known(i, transfer.db.files[i].key)
      BY <3>1 DEF File, Known
    <3> QED
      BY <1>1, <1>4, <2>4, <3>2
  <2>14. BackupHolds'
    <3>1. \A i \in FileIds : bundle.files[i] # NoFile /\ bundle.files[i].key \notin blobs => bundle.files[i].key \notin blobs'
      BY <1>4, <2>13
    <3>2. \A i \in FileIds : transfer.db.files[i] # NoFile /\ transfer.db.files[i].key \notin blobs =>
              transfer.db.files[i].key \notin blobs'
      BY <1>4, <2>13
    <3>3. BundleHoldsItsBlobs'
      BY <1>1, <2>12, <3>1 DEF RowParts, BackupHolds, BundleHoldsItsBlobs, NoFile
    <3>4. transfer.pc = "pack" => Packed(transfer.db, transfer.todo)'
      BY <1>1, <3>2 DEF RowParts, BackupHolds, Packed, NoFile
    <3> QED
      BY <1>1, <3>3, <3>4 DEF RowParts, BackupHolds
  <2> QED
    BY <2>5, <2>9, <2>10, <2>11, <2>14 DEF RowParts
<1> QED
  BY <1>2, <1>3, <1>4

(* A new row takes a key that was nobody's; its request may know it.        *)
LEMMA RowStoredKeeps ==
  ASSUME TypeOK, Shaped, RowParts, TypeOK', NEW r \in Actors, NEW q2 \in Request, Shape(q2), Go(r, q2),
         q2.pc \notin {"row", "vrow", "unlink"}, q2.key \in {0, req[r].key},
         NEW id \in FileIds, files[id] = NoFile, NEW k \in Unborn(req[r]), NEW of \in {0} \cup FileIds,
         files' = CreateFile(id, k, of),
         \A i \in FileIds, l \in Keys : Keeps(q2, i, l) => Known(i, l) \/ (i = id /\ l = k),
         UNCHANGED <<blobs, used, bundleVars>>
  PROVE  RowParts'
<1>1. /\ req'[r] = q2 /\ \A s \in Actors \ {r} : req'[s] = req[s]
      /\ \A i \in FileIds, l \in Keys :
            (\E s \in Actors : Keeps(req'[s], i, l)) => Known(i, l) \/ Keeps(q2, i, l)
      /\ \A s \in Actors : req[s].key <= used /\ req[s].vkey <= used
  BY GoKnown DEF RowParts
<1>2. UNCHANGED <<transfer, bundle, unrestored, merged>> /\ used \in Nat /\ blobs \subseteq 1..used /\ blobs \subseteq Keys
  BY TableTypes, MediaAssumption DEF bundleVars, Keys
<1>3. files'[id] = [key |-> k, of |-> of] /\ files'[id].key = k /\ \A j \in FileIds \ {id} : files'[j] = files[j]
  <2>1. CreateFile(id, k, of)[id] = [key |-> k, of |-> of] /\ \A j \in FileIds \ {id} : CreateFile(id, k, of)[j] = files[j]
    BY TableTypes DEF FileTable, CreateFile
  <2> QED
    BY <2>1
<1>4. k \in blobs /\ k \in Keys /\ k <= used /\ \A i \in FileIds : ~Known(i, k)
  BY <1>2 DEF RowParts, Fresh
<1>5. ASSUME NEW i \in FileIds, NEW l \in Keys, Known(i, l)' PROVE Known(i, l) \/ (i = id /\ l = k)
  <2>1. files'[i].key = l => files[i].key = l \/ (i = id /\ l = k)
    BY <1>3
  <2> QED
    BY <1>1, <1>2, <1>5, <2>1 DEF Known
<1>6. OneHome'
  <2>1. ASSUME NEW i \in FileIds, NEW j \in FileIds, NEW l \in Keys, Known(i, l)', Known(j, l)' PROVE i = j
    BY <1>4, <1>5, <2>1 DEF RowParts, OneHome
  <2> QED
    BY <2>1 DEF OneHome
<1>7. q2.vkey = 0 /\ Unborn(q2) = {} /\ Going(q2) = {}
  BY DEF Shape, Unborn, Going
<1>8. Fresh'
  <2>1. ASSUME NEW i \in FileIds, NEW l \in Keys, Known(i, l)' PROVE l <= used'
    BY <1>2, <1>4, <1>5, <2>1 DEF RowParts, Fresh
  <2>2. \A s \in Actors : req'[s].key <= used' /\ req'[s].vkey <= used'
    BY <1>1, <1>2, <1>7
  <2>3. ASSUME NEW s \in Actors, NEW l \in Unborn(req'[s])
        PROVE  /\ l \in blobs' /\ \A i \in FileIds : ~Known(i, l)'
               /\ \A t \in Actors : l \in Unborn(req'[t]) => s = t
    <3>1. s # r /\ l \in Unborn(req[s])
      BY <1>1, <1>7, <2>3
    <3>2. /\ l \in blobs /\ l \in Keys /\ (\A i \in FileIds : ~Known(i, l)) /\ l # k
          /\ \A t \in Actors : l \in Unborn(req[t]) => s = t
      BY <1>2, <3>1 DEF RowParts, Fresh
    <3>3. \A t \in Actors : l \in Unborn(req'[t]) => s = t
      BY <1>1, <1>7, <3>2
    <3> QED
      BY <1>5, <3>2, <3>3
  <2> QED
    BY <2>1, <2>2, <2>3 DEF Fresh
<1>9. RowHasBlob'
  <2>1. ASSUME NEW i \in FileIds, files'[i] # NoFile PROVE files'[i].key \in blobs \cup unrestored
    BY <1>3, <1>4, <2>1, Numbers DEF RowParts, RowHasBlob, Stored
  <2> QED
    BY <1>2, <2>1 DEF RowHasBlob, Stored
<1>10. UnlinkedHasNoRow'
  <2>1. ASSUME NEW s \in Actors, NEW d \in Going(req'[s]), NEW i \in FileIds, files'[i].key = d.key PROVE d.key \in unrestored
    <3>1. s # r /\ d \in Going(req[s])
      BY <1>1, <1>7, <2>1
    <3>2. Known(d.id, d.key) /\ d.id \in FileIds
      BY <3>1, GoingFacts, RequestFacts DEF Known
    <3>3. files[i].key = d.key
      BY <1>3, <1>4, <2>1, <3>2
    <3> QED
      BY <3>1, <3>3 DEF RowParts, UnlinkedHasNoRow
  <2> QED
    BY <1>2, <2>1 DEF UnlinkedHasNoRow
<1>11. BackupHolds'
  BY <1>2 DEF RowParts, BackupHolds, BundleHoldsItsBlobs, Packed, NoBundle, NoFile, NoAttachment
<1> QED
  BY <1>6, <1>8, <1>9, <1>10, <1>11 DEF RowParts

(* A blob that never got its row is removed again.                          *)
LEMMA BlobDroppedKeeps ==
  ASSUME TypeOK, Shaped, RowParts, TypeOK', NEW r \in Actors, NEW q2 \in Request, Shape(q2), Go(r, q2), CalmTo(req[r], q2),
         NEW k \in Unborn(req[r]), blobs' = blobs \ {k},
         UNCHANGED <<files, used, bundleVars>>
  PROVE  RowParts'
<1>1. /\ req'[r] = q2 /\ \A s \in Actors \ {r} : req'[s] = req[s]
      /\ \A i \in FileIds, l \in Keys :
            (\E s \in Actors : Keeps(req'[s], i, l)) => Known(i, l) \/ Keeps(q2, i, l)
      /\ \A s \in Actors : req[s].key <= used /\ req[s].vkey <= used
  BY GoKnown DEF RowParts
<1>2. UNCHANGED <<transfer, bundle, unrestored, merged>> /\ used \in Nat /\ 0 <= used /\ blobs \subseteq Keys
  BY TableTypes, MediaAssumption DEF bundleVars, Keys
<1>3. \A i \in FileIds, l \in Keys : Known(i, l)' => Known(i, l)
  BY <1>1, <1>2 DEF Known, CalmTo
<1>4. q2.vkey = 0 /\ Unborn(q2) = {} /\ Going(q2) = {}
  BY DEF CalmTo, Shape, Unborn, Going
<1>5. \A s \in Actors : req'[s].key <= used' /\ req'[s].vkey <= used'
  BY <1>1, <1>2, <1>4 DEF CalmTo
<1>6. k \in Keys /\ \A i \in FileIds : ~Known(i, k)
  BY <1>2 DEF RowParts, Fresh
<1>7. \A s \in Actors : Unborn(req'[s]) \subseteq Unborn(req[s]) \cap blobs'
  <2>1. \A s \in Actors : Unborn(req[s]) \subseteq blobs /\ (s # r => k \notin Unborn(req[s]))
    BY DEF RowParts, Fresh
  <2> QED
    BY <1>1, <1>4, <2>1
<1>8. OneHome' /\ Fresh'
  BY <1>2, <1>3, <1>5, <1>7, HomeKept DEF RowParts
<1>9. RowHasBlob'
  <2>1. \A i \in FileIds : files[i].key # k
    BY <1>6 DEF Known
  <2> QED
    BY <1>2, <2>1 DEF RowParts, RowHasBlob, Stored
<1>10. UnlinkedHasNoRow'
  BY <1>1, <1>2, <1>4 DEF RowParts, UnlinkedHasNoRow
<1>11. BackupHolds'
  BY <1>2 DEF RowParts, BackupHolds, BundleHoldsItsBlobs, Packed, NoBundle, NoFile, NoAttachment
<1> QED
  BY <1>8, <1>9, <1>10, <1>11 DEF RowParts

(* InsertRow and InsertVariant keep the rows' blobs.                        *)
LEMMA InsertKeeps ==
  ASSUME TypeOK, Shaped, RowParts, TypeOK', NEW r \in Requests, InsertRow(r) \/ InsertVariant(r), UNCHANGED bundleVars
  PROVE  RowParts'
<1> DEFINE q == req[r]
<1>0. r \in Actors /\ q \in Request /\ Shape(q) /\ 0 \notin FileIds /\ 0 \notin Keys
  BY Numbers, RequestFacts
<1>1. ASSUME NEW q2 \in Request, Shape(q2), q2.pc \in {"vblob", "attach", "embed", "lookup"}
      PROVE  q2.old = 0 /\ q2.doomed = {} /\ q2.pc \notin {"row", "vrow", "unlink"}
  BY <1>1 DEF Shape
<1>2. CASE InsertRow(r)
  <2>1. q.pc = "row" /\ UNCHANGED used
    BY <1>2, InsertEffect
  <2>2. q.key \in Unborn(q)
    BY <2>1 DEF Unborn
  <2>3. PICK q2 \in Request :
               /\ Shape(q2) /\ Go(r, q2)
               /\ \/ /\ UNCHANGED blobs
                     /\ \E id \in FileIds :
                           /\ files[id] = NoFile /\ files' = CreateFile(id, req[r].key, 0)
                           /\ \/ Ends(req[r], q2) /\ issued' = issued \cup {req[r].key}
                              \/ /\ q2.pc \in {"vblob", "attach", "embed", "lookup"} /\ q2.cands = req[r].cands
                                 /\ q2.key = req[r].key /\ q2.file = id /\ UNCHANGED issued
                  \/ Ends(req[r], q2) /\ blobs' = blobs \ {req[r].key} /\ UNCHANGED <<files, issued>>
    BY <1>2, InsertEffect
  <2>4. CASE Ends(q, q2) /\ blobs' = blobs \ {q.key} /\ UNCHANGED files
    BY <1>0, <2>1, <2>2, <2>3, <2>4, CalmSteps, BlobDroppedKeeps
  <2>5. ASSUME NEW id \in FileIds, UNCHANGED blobs, files[id] = NoFile, files' = CreateFile(id, q.key, 0),
               \/ Ends(q, q2)
               \/ q2.pc \in {"vblob", "attach", "embed", "lookup"} /\ q2.cands = q.cands /\ q2.key = q.key /\ q2.file = id
        PROVE  RowParts'
    <3>1. CASE Ends(q, q2)
      <4>1. CalmTo(q, q2)
        BY <1>0, <2>3, <3>1, CalmSteps
      <4> QED
        BY <1>0, <2>1, <2>2, <2>3, <2>5, <4>1, RowStoredKeeps DEF CalmTo
    <3>2. CASE q2.pc \in {"vblob", "attach", "embed", "lookup"} /\ q2.cands = q.cands /\ q2.key = q.key /\ q2.file = id
      <4>1. \A i \in FileIds, l \in Keys : Keeps(q2, i, l) => Known(i, l) \/ (i = id /\ l = q.key)
        BY <1>0, <1>1, <2>3, <3>2 DEF Keeps, Known
      <4> QED
        BY <1>0, <1>1, <2>1, <2>2, <2>3, <2>5, <3>2, <4>1, RowStoredKeeps
    <3> QED
      BY <2>5, <3>1, <3>2
  <2> QED
    BY <2>3, <2>4, <2>5
<1>3. CASE InsertVariant(r)
  <2>1. q.pc = "vrow" /\ UNCHANGED used
    BY <1>3, VariantEffect
  <2>2. q.vkey \in Unborn(q) /\ q.file \in FileIds
    BY <1>0, <2>1 DEF Unborn, Shape, WithKey, Request
  <2>3. \/ /\ UNCHANGED blobs
           /\ \E id \in FileIds : files[id] = NoFile /\ files' = CreateFile(id, q.vkey, q.file)
        \/ blobs' = blobs \ {q.vkey} /\ UNCHANGED files
    BY <1>3, VariantEffect
  <2>4. PICK q2 \in Request :
               /\ Shape(q2) /\ Go(r, q2)
               /\ \/ Ends(req[r], q2)
                  \/ /\ q2.pc \in {"attach", "embed", "lookup"} /\ q2.cands = req[r].cands
                     /\ q2.key = req[r].key /\ q2.file = req[r].file
    BY <1>3, VariantEffect
  <2>5. CalmTo(q, q2)
    <3>1. CASE Ends(q, q2)
      BY <1>0, <2>4, <3>1, CalmSteps
    <3>2. CASE q2.pc \in {"attach", "embed", "lookup"} /\ q2.cands = q.cands /\ q2.key = q.key /\ q2.file = q.file
      <4>1. \A i \in FileIds, l \in Keys : Keeps(q2, i, l) => Known(i, l)
        BY <1>0, <1>1, <2>4, <3>2 DEF Keeps, Known
      <4> QED
        BY <3>2, <4>1 DEF CalmTo
    <3> QED
      BY <2>4, <3>1, <3>2
  <2>6. CASE blobs' = blobs \ {q.vkey} /\ UNCHANGED files
    BY <1>0, <2>1, <2>2, <2>4, <2>5, <2>6, BlobDroppedKeeps
  <2>7. ASSUME NEW id \in FileIds, UNCHANGED blobs, files[id] = NoFile, files' = CreateFile(id, q.vkey, q.file)
        PROVE  RowParts'
    BY <1>0, <2>1, <2>2, <2>4, <2>5, <2>7, RowStoredKeeps DEF CalmTo
  <2> QED
    BY <2>3, <2>6, <2>7
<1> QED
  BY <1>2, <1>3

(* What touches neither rows nor blobs nor requests keeps the rows' blobs.  *)
LEMMA StillKeeps ==
  ASSUME RowParts, UNCHANGED <<files, blobs, used, req, bundleVars>>
  PROVE  RowParts'
<1>1. UNCHANGED <<transfer, bundle, unrestored, merged>>
  BY DEF bundleVars
<1>2. \A i \in FileIds, k \in Keys : Known(i, k)' <=> Known(i, k)
  BY <1>1 DEF Known
<1>3. OneHome' /\ Fresh'
  BY <1>1, <1>2 DEF RowParts, OneHome, Fresh, Known
<1>4. RowHasBlob' /\ UnlinkedHasNoRow'
  BY <1>1 DEF RowParts, RowHasBlob, Stored, UnlinkedHasNoRow
<1>5. BackupHolds'
  BY <1>1 DEF RowParts, BackupHolds, BundleHoldsItsBlobs, Packed, NoBundle, NoFile, NoAttachment
<1> QED
  BY <1>3, <1>4, <1>5 DEF RowParts

(* Rows that go before their blobs do keep the blobs of the others: a key   *)
(* to unlink has no other row.                                              *)
LEMMA RowsGoneKeeps ==
  ASSUME TypeOK, Shaped, RowParts, TypeOK', NEW r \in Actors, NEW q2 \in Request, Shape(q2), Go(r, q2), q2.pc = "unlink",
         \A i \in FileIds : files'[i] \in {NoFile, files[i]},
         \A i \in FileIds, k \in Keys : Keeps(q2, i, k) => Known(i, k),
         \A d \in Going(q2) : files'[d.id] = NoFile,
         UNCHANGED <<blobs, used, bundleVars>>
  PROVE  RowParts'
<1>1. /\ req'[r] = q2 /\ \A s \in Actors \ {r} : req'[s] = req[s]
      /\ \A i \in FileIds, k \in Keys :
            (\E s \in Actors : Keeps(req'[s], i, k)) => Known(i, k) \/ Keeps(q2, i, k)
      /\ \A s \in Actors : req[s].key <= used /\ req[s].vkey <= used
  BY GoKnown DEF RowParts
<1>2. UNCHANGED <<transfer, bundle, unrestored, merged>> /\ used \in Nat /\ 0 <= used /\ NoFile.key = 0
  BY TableTypes DEF bundleVars, NoFile
<1>3. \A i \in FileIds, k \in Keys : files'[i].key = k => files[i].key = k
  BY <1>2, Numbers
<1>4. \A i \in FileIds, k \in Keys : Known(i, k)' => Known(i, k)
  BY <1>1, <1>2, <1>3 DEF Known
<1>5. q2.key = 0 /\ q2.vkey = 0 /\ Unborn(q2) = {}
  BY DEF Shape, Unborn, WithKey
<1>6. \A s \in Actors : req'[s].key <= used' /\ req'[s].vkey <= used'
  BY <1>1, <1>2, <1>5
<1>7. \A s \in Actors : Unborn(req[s]) \subseteq blobs
  BY DEF RowParts, Fresh
<1>8. \A s \in Actors : Unborn(req'[s]) \subseteq Unborn(req[s]) \cap blobs'
  BY <1>1, <1>5, <1>7
<1>9. OneHome' /\ Fresh'
  BY <1>2, <1>4, <1>6, <1>8, HomeKept DEF RowParts
<1>10. RowHasBlob'
  BY <1>2 DEF RowParts, RowHasBlob, Stored
<1>11. UnlinkedHasNoRow'
  <2>1. ASSUME NEW s \in Actors, NEW d \in Going(req'[s]), NEW i \in FileIds, files'[i].key = d.key PROVE d.key \in unrestored
    <3>1. CASE s = r
      <4>1. d \in Going(q2) /\ d.id \in FileIds /\ d.key \in Keys /\ Known(d.id, d.key)
        BY <1>1, <2>1, <3>1, GoingFacts
      <4>2. files[i].key = d.key /\ files'[i] # NoFile
        BY <1>2, <1>3, <2>1, <4>1, Numbers
      <4>3. i = d.id
        BY <4>1, <4>2 DEF RowParts, OneHome, Known
      <4> QED
        BY <4>1, <4>2, <4>3
    <3>2. CASE s # r
      <4>1. d \in Going(req[s]) /\ d.key \in Keys
        BY <1>1, <2>1, <3>2, GoingFacts, RequestFacts
      <4> QED
        BY <1>3, <2>1, <4>1 DEF RowParts, UnlinkedHasNoRow
    <3> QED
      BY <3>1, <3>2
  <2> QED
    BY <1>2, <2>1 DEF UnlinkedHasNoRow
<1>12. BackupHolds'
  BY <1>2 DEF RowParts, BackupHolds, BundleHoldsItsBlobs, Packed, NoBundle, NoFile, NoAttachment
<1> QED
  BY <1>9, <1>10, <1>11, <1>12 DEF RowParts

(* DeleteRow keeps the rows' blobs.                                         *)
LEMMA DeleteKeeps ==
  ASSUME TypeOK, Shaped, RowParts, TypeOK', NEW r \in Actors, DeleteRow(r), UNCHANGED bundleVars
  PROVE  RowParts'
<1> DEFINE q == req[r]
           v == Victim(q)
<1>1. UNCHANGED <<blobs, used>> /\ q.pc = "delete" /\ v \in q.doomed
  BY DeleteEffect
<1>2. PICK q2 \in Request :
               /\ Shape(q2) /\ Go(r, q2)
               /\ \/ /\ files' = [files EXCEPT ![Victim(req[r]).id] = NoFile]
                     /\ q2.pc = "unlink" /\ q2.op = req[r].op /\ q2.doomed = req[r].doomed /\ q2.cands = req[r].cands
                  \/ Ends(req[r], q2) /\ UNCHANGED <<files, mistaken>>
                  \/ Skips(req[r], q2) /\ UNCHANGED <<files, mistaken>>
  BY DeleteEffect
<1>3. CASE (Ends(q, q2) \/ Skips(q, q2)) /\ UNCHANGED files
  <2>1. CalmTo(q, q2)
    BY <1>2, <1>3, CalmSteps
  <2> QED
    BY <1>1, <1>2, <1>3, <2>1, CalmKeeps
<1>4. CASE /\ files' = [files EXCEPT ![v.id] = NoFile]
           /\ q2.pc = "unlink" /\ q2.op = q.op /\ q2.doomed = q.doomed /\ q2.cands = q.cands
  <2>1. q \in Request /\ Shape(q)
    BY RequestFacts
  <2>2. v.id \in FileIds
    BY <1>1, <2>1 DEF Request, FileRef
  <2>3. q2.op # "article"
    BY <1>1, <1>4, <2>1 DEF Shape
  <2>4. Going(q2) = {Victim(q2)}
    BY <1>4, <2>3 DEF Going
  <2>5. Victim(q2) = v
    BY <1>4 DEF Victim
  <2>6. files'[v.id] = NoFile /\ \A i \in FileIds : files'[i] \in {NoFile, files[i]}
    BY <1>4, <2>2, TableTypes DEF FileTable
  <2>7. q2.file = 0 /\ q2.old = 0
    BY <1>2, <1>4 DEF Shape, WithKey
  <2>8. \A i \in FileIds, k \in Keys : Keeps(q2, i, k) => Known(i, k)
    BY <1>4, <2>7, Numbers DEF Keeps, Known
  <2>9. \A d \in Going(q2) : files'[d.id] = NoFile
    BY <2>4, <2>5, <2>6
  <2> QED
    BY <1>1, <1>2, <1>4, <2>6, <2>8, <2>9, RowsGoneKeeps
<1> QED
  BY <1>2, <1>3, <1>4

(* DestroyArticle keeps the rows' blobs.                                    *)
LEMMA DestroyKeeps ==
  ASSUME TypeOK, Shaped, RowParts, TypeOK', NEW r \in Requests, DestroyArticle(r), UNCHANGED bundleVars
  PROVE  RowParts'
<1>1. UNCHANGED <<blobs, used>> /\ r \in Actors
  BY DestroyEffect, Numbers
<1>2. PICK D \in SUBSET FileIds :
               /\ files' = [i \in FileIds |-> IF i \in D \/ files[i].of \in D THEN NoFile ELSE files[i]]
               /\ \A i \in D : Stored(i)
               /\ \/ D = {} /\ UNCHANGED req
                  \/ \E q2 \in Request :
                        /\ Shape(q2) /\ Go(r, q2) /\ q2.pc = "unlink" /\ q2.op = "article" /\ q2.cands = {}
                        /\ q2.doomed = UNION {Family(i, files[i].key) : i \in D}
  BY DestroyEffect
<1>3. CASE D = {} /\ UNCHANGED req
  <2>1. UNCHANGED files
    BY <1>2, <1>3, TableTypes DEF FileTable
  <2> QED
    BY <1>1, <1>3, <2>1, StillKeeps
<1>4. ASSUME NEW q2 \in Request, Shape(q2), Go(r, q2), q2.pc = "unlink", q2.op = "article", q2.cands = {},
             q2.doomed = UNION {Family(i, files[i].key) : i \in D}
      PROVE  RowParts'
  <2>1. \A i \in FileIds : files'[i] \in {NoFile, files[i]} /\ (i \in D \/ files[i].of \in D => files'[i] = NoFile)
    BY <1>2
  <2>2. \A i \in D : files[i].key \in Keys
    BY <1>2, RowFacts
  <2>3. ASSUME NEW d \in q2.doomed
        PROVE  d.id \in FileIds /\ files[d.id].key = d.key /\ files'[d.id] = NoFile
    <3>1. PICK i \in D : d \in Family(i, files[i].key)
      BY <1>4, <2>3
    <3> QED
      BY <2>1, <2>2, <3>1, FamilyFacts
  <2>4. q2.file = 0 /\ q2.old = 0
    BY <1>4 DEF Shape, WithKey
  <2>5. \A i \in FileIds, k \in Keys : Keeps(q2, i, k) => Known(i, k)
    BY <1>4, <2>3, <2>4, Numbers DEF Keeps, Known
  <2>6. \A d \in Going(q2) : files'[d.id] = NoFile
    BY <1>4, <2>3, GoingFacts
  <2> QED
    BY <1>1, <1>4, <2>1, <2>5, <2>6, RowsGoneKeeps
<1> QED
  BY <1>2, <1>3, <1>4

(* Unlink removes a blob that no row has.                                   *)
LEMMA UnlinkKeeps ==
  ASSUME TypeOK, Shaped, RowParts, TypeOK', NEW r \in Actors, Unlink(r), UNCHANGED bundleVars
  PROVE  RowParts'
<1> DEFINE q == req[r]
           v == Victim(q)
<1>0. q \in Request /\ Shape(q)
  BY RequestFacts
<1>1. UNCHANGED <<files, used>> /\ q.pc = "unlink" /\ v \in q.doomed /\ blobs' = blobs \ {v.key}
  BY UnlinkEffect
<1>2. PICK q2 \in Request :
               /\ Shape(q2) /\ Go(r, q2)
               /\ \/ Ends(req[r], q2)
                  \/ /\ q2.pc = IF req[r].op = "article" THEN "unlink" ELSE "delete"
                     /\ q2.op = req[r].op /\ q2.cands = req[r].cands
                     /\ q2.doomed = req[r].doomed \ {Victim(req[r])}
  BY UnlinkEffect
<1>3. v \in Going(q)
  BY <1>1 DEF Going
<1>4. v.id \in FileIds /\ v.key \in Keys /\ Known(v.id, v.key)
  BY <1>0, <1>3, GoingFacts DEF Known
<1>5. Going(q2) \subseteq Going(q)
  <2>1. CASE Ends(q, q2)
    BY <2>1 DEF Ends, Going
  <2>2. CASE /\ q2.pc = IF q.op = "article" THEN "unlink" ELSE "delete"
             /\ q2.op = q.op /\ q2.cands = q.cands
             /\ q2.doomed = q.doomed \ {Victim(q)}
    BY <1>1, <2>2 DEF Going
  <2> QED
    BY <1>2, <2>1, <2>2
<1>6. q2.key = 0 /\ q2.vkey = 0 /\ Unborn(q2) = {} /\ q2.file = 0 /\ q2.old = 0
      /\ q2.doomed \subseteq q.doomed /\ q2.cands \subseteq q.cands
  <2>1. q2.pc \in {"idle", "examine", "unlink", "delete"} /\ (Ends(q, q2) => q2.pc \notin {"delete", "unlink"})
    BY <1>2 DEF Ends
  <2>2. q2.key = 0 /\ q2.vkey = 0 /\ Unborn(q2) = {} /\ q2.file = 0 /\ q2.old = 0
    BY <1>2, <2>1 DEF Shape, Unborn, WithKey
  <2>3. Ends(q, q2) => q2.doomed = {} /\ q2.cands \subseteq q.cands
    BY <1>2, <2>1 DEF Shape, Ends
  <2> QED
    BY <1>2, <2>2, <2>3
<1>7. /\ req'[r] = q2 /\ \A s \in Actors \ {r} : req'[s] = req[s]
      /\ \A i \in FileIds, k \in Keys :
            (\E s \in Actors : Keeps(req'[s], i, k)) => Known(i, k) \/ Keeps(q2, i, k)
      /\ \A s \in Actors : req[s].key <= used /\ req[s].vkey <= used
  BY <1>2, GoKnown DEF RowParts
<1>8. UNCHANGED <<transfer, bundle, unrestored, merged>> /\ used \in Nat /\ 0 <= used
  BY TableTypes DEF bundleVars
<1>9. \A i \in FileIds, k \in Keys : Keeps(q2, i, k) => Known(i, k)
  BY <1>6, Numbers DEF Keeps, Known
<1>10. \A i \in FileIds, k \in Keys : Known(i, k)' => Known(i, k)
  BY <1>1, <1>7, <1>8, <1>9 DEF Known
<1>11. \A s \in Actors : Unborn(req[s]) \subseteq blobs /\ v.key \notin Unborn(req[s])
  BY <1>4 DEF RowParts, Fresh
<1>12. \A s \in Actors : Unborn(req'[s]) \subseteq Unborn(req[s]) \cap blobs'
  BY <1>1, <1>6, <1>7, <1>11
<1>13. \A s \in Actors : req'[s].key <= used' /\ req'[s].vkey <= used'
  BY <1>1, <1>6, <1>7, <1>8
<1>14. OneHome' /\ Fresh'
  BY <1>1, <1>8, <1>10, <1>12, <1>13, HomeKept DEF RowParts
<1>15. RowHasBlob'
  <2>1. \A i \in FileIds : files[i].key = v.key => v.key \in unrestored
    BY <1>3 DEF RowParts, UnlinkedHasNoRow
  <2> QED
    BY <1>1, <1>8, <2>1 DEF RowParts, RowHasBlob, Stored
<1>16. UnlinkedHasNoRow'
  BY <1>1, <1>5, <1>7, <1>8 DEF RowParts, UnlinkedHasNoRow
<1>17. BackupHolds'
  BY <1>1, <1>8 DEF RowParts, BackupHolds, BundleHoldsItsBlobs, Packed, NoBundle, NoFile, NoAttachment
<1> QED
  BY <1>14, <1>15, <1>16, <1>17 DEF RowParts

(* The jobs copy rows and keep the keys with their ids.                     *)
LEMMA CopyKeepsHome ==
  ASSUME TypeOK, RowParts, UNCHANGED <<used, req>>, blobs \subseteq blobs',
         \A i \in FileIds : files'[i] \in {files[i], bundle.files[i]},
         \A i \in FileIds : transfer'.db.files[i] \in {transfer.db.files[i], files[i], NoFile},
         \A i \in FileIds : bundle'.files[i] \in {transfer.db.files[i], bundle.files[i]}
  PROVE  OneHome' /\ Fresh'
<1>1. NoFile.key = 0 /\ used \in Nat
  BY TableTypes DEF NoFile
<1>2. ASSUME NEW i \in FileIds, NEW k \in Keys, Known(i, k)' PROVE Known(i, k)
  <2>1. files'[i].key = k => Known(i, k)
    BY DEF Known
  <2>2. transfer'.db.files[i].key = k => Known(i, k)
    BY <1>1, Numbers DEF Known
  <2>3. bundle'.files[i].key = k => Known(i, k)
    BY DEF Known
  <2>4. (\E s \in Actors : Keeps(req'[s], i, k)) => Known(i, k)
    BY DEF Known
  <2> QED
    BY <1>2, <2>1, <2>2, <2>3, <2>4 DEF Known
<1>3. \A s \in Actors : req'[s].key <= used' /\ req'[s].vkey <= used'
  BY DEF RowParts, Fresh
<1>4. \A s \in Actors : Unborn(req'[s]) \subseteq Unborn(req[s]) \cap blobs'
  BY DEF RowParts, Fresh
<1> QED
  BY <1>1, <1>2, <1>3, <1>4, HomeKept DEF RowParts

(* NoBundle does not change.                                                *)
LEMMA NoBundleStays == NoBundle' = NoBundle /\ NoFile' = NoFile /\ \A i \in FileIds : NoBundle.files[i] = NoFile
  BY DEF NoBundle, NoFile, NoAttachment

(* A backup that is made keeps the rows' blobs.                             *)
LEMMA ExportKeeps ==
  ASSUME TypeOK, Shaped, RowParts, VacuumInto \/ WalkBlobs \/ PackBlob \/ RenameBundle \/ StartImport
  PROVE  RowParts'
<1>1. UNCHANGED <<files, blobs, used, req, unrestored>>
  BY DEF VacuumInto, WalkBlobs, PackBlob, RenameBundle, StartImport, OnlyTransfer
<1>2. RowHasBlob' /\ UnlinkedHasNoRow'
  BY <1>1 DEF RowParts, RowHasBlob, Stored, UnlinkedHasNoRow
<1>3. transfer \in Transfer /\ bundle \in Backup
  BY DEF TypeOK, Transfer
<1>4. CASE VacuumInto
  <2>1. transfer' = [pc |-> "walk", db |-> Database, todo |-> {}] /\ UNCHANGED bundle
    BY <1>4 DEF VacuumInto
  <2>2. transfer'.db.files = files /\ transfer'.pc = "walk"
    BY <2>1, BackupTypes
  <2>3. OneHome' /\ Fresh'
    BY <1>1, <2>1, <2>2, CopyKeepsHome
  <2>4. BackupHolds'
    BY <1>1, <2>1, <2>2, NoBundleStays DEF RowParts, BackupHolds, BundleHoldsItsBlobs
  <2> QED
    BY <1>2, <2>3, <2>4 DEF RowParts
<1>5. CASE WalkBlobs
  <2>1. transfer' = [transfer EXCEPT !.pc = "pack", !.todo = blobs] /\ UNCHANGED bundle
    BY <1>5 DEF WalkBlobs
  <2>2. transfer'.db = transfer.db /\ transfer'.pc = "pack" /\ transfer'.todo = blobs
    BY <1>3, <2>1 DEF Transfer
  <2>3. OneHome' /\ Fresh'
    BY <1>1, <2>1, <2>2, CopyKeepsHome
  <2>4. Packed(transfer.db, transfer.todo)'
    BY <1>1, <2>2, NoBundleStays DEF Packed
  <2>5. BackupHolds'
    BY <1>1, <2>1, <2>2, <2>4, NoBundleStays DEF RowParts, BackupHolds, BundleHoldsItsBlobs
  <2> QED
    BY <1>2, <2>3, <2>5 DEF RowParts
<1>6. CASE PackBlob
  <2>1. transfer.pc = "pack" /\ UNCHANGED bundle
    BY <1>6 DEF PackBlob
  <2>2. PICK k \in transfer.todo :
           IF k \in blobs THEN transfer' = [transfer EXCEPT !.todo = @ \ {k}, !.db.blobs = @ \cup {k}] ELSE Stop("off")
    BY <1>6 DEF PackBlob
  <2>3. CASE k \in blobs
    <3>1. transfer' = [transfer EXCEPT !.todo = @ \ {k}, !.db = [transfer.db EXCEPT !.blobs = @ \cup {k}]]
      BY <2>2, <2>3
    <3>2. transfer.db \in Backup
      BY <1>3 DEF Transfer
    <3>3. /\ transfer'.pc = "pack" /\ transfer'.todo = transfer.todo \ {k} /\ transfer'.db.files = transfer.db.files
          /\ transfer'.db.blobs = transfer.db.blobs \cup {k}
      BY <1>3, <2>1, <3>1, <3>2 DEF Transfer, Backup
    <3>4. OneHome' /\ Fresh'
      BY <1>1, <2>1, <3>3, CopyKeepsHome
    <3>5. transfer'.db.blobs \cup transfer'.todo = transfer.db.blobs \cup transfer.todo
      BY <2>2, <3>3
    <3>6. Packed(transfer.db, transfer.todo)
      BY <2>1 DEF RowParts, BackupHolds
    <3>7. Packed(transfer.db, transfer.todo)'
      BY <1>1, <3>3, <3>5, <3>6, NoBundleStays DEF Packed
    <3>8. BackupHolds'
      BY <1>1, <2>1, <3>3, <3>7, NoBundleStays DEF RowParts, BackupHolds, BundleHoldsItsBlobs
    <3> QED
      BY <1>2, <3>4, <3>8 DEF RowParts
  <2>4. CASE k \notin blobs
    <3>1. transfer'.pc = "off" /\ transfer'.db = NoBundle
      BY <2>2, <2>4, StopFacts
    <3>2. OneHome' /\ Fresh'
      BY <1>1, <2>1, <3>1, NoBundleStays, CopyKeepsHome
    <3>3. BackupHolds'
      BY <1>1, <2>1, <3>1, NoBundleStays DEF RowParts, BackupHolds, BundleHoldsItsBlobs
    <3> QED
      BY <1>2, <3>2, <3>3 DEF RowParts
  <2> QED
    BY <2>3, <2>4
<1>7. CASE RenameBundle
  <2>1. transfer.pc = "pack" /\ transfer.todo = {} /\ Stop("off") /\ bundle' = transfer.db
    BY <1>7 DEF RenameBundle
  <2>2. transfer'.pc = "off" /\ transfer'.db = NoBundle
    BY <2>1, StopFacts
  <2>3. OneHome' /\ Fresh'
    BY <1>1, <2>1, <2>2, NoBundleStays, CopyKeepsHome
  <2>4. BundleHoldsItsBlobs'
    BY <1>1, <2>1, NoBundleStays DEF RowParts, BackupHolds, BundleHoldsItsBlobs, Packed
  <2>5. BackupHolds'
    BY <2>2, <2>4 DEF BackupHolds
  <2> QED
    BY <1>2, <2>3, <2>5 DEF RowParts
<1>8. CASE StartImport
  <2>1. Stop("tables") /\ UNCHANGED bundle
    BY <1>8 DEF StartImport
  <2>2. transfer'.pc = "tables" /\ transfer'.db = NoBundle
    BY <2>1, StopFacts
  <2>3. OneHome' /\ Fresh'
    BY <1>1, <2>1, <2>2, NoBundleStays, CopyKeepsHome
  <2>4. BackupHolds'
    BY <1>1, <2>1, <2>2, NoBundleStays DEF RowParts, BackupHolds, BundleHoldsItsBlobs
  <2> QED
    BY <1>2, <2>3, <2>4 DEF RowParts
<1> QED
  BY <1>4, <1>5, <1>6, <1>7, <1>8

(* An import remembers the keys it merges without a lasting blob.           *)
LEMMA ImportKeeps ==
  ASSUME TypeOK, Shaped, RowParts, TypeOK', CopyTables \/ RestoreBlob
  PROVE  RowParts'
<1>0. /\ transfer \in Transfer /\ bundle \in Backup /\ bundle' = bundle /\ UNCHANGED <<used, req>>
  BY DEF TypeOK, Transfer, CopyTables, RestoreBlob, OnlyTransfer
<1>1. \A s \in Actors : \A d \in Going(req[s]) : d.key \in Doomed /\ d.key \in Keys
  BY GoingFacts, RequestFacts DEF Doomed
<1>2. CASE CopyTables
  <2>1. CASE Stop("off") /\ OnlyTransfer /\ UNCHANGED <<unrestored, merged>>
    <3>1. transfer'.pc = "off" /\ transfer'.db = NoBundle /\ UNCHANGED <<files, blobs>>
      BY <2>1, StopFacts DEF OnlyTransfer
    <3>2. OneHome' /\ Fresh'
      BY <1>0, <3>1, NoBundleStays, CopyKeepsHome
    <3>3. BackupHolds'
      BY <1>0, <2>1, <3>1, NoBundleStays DEF RowParts, BackupHolds, BundleHoldsItsBlobs
    <3>4. RowHasBlob' /\ UnlinkedHasNoRow'
      BY <1>0, <2>1, <3>1 DEF RowParts, RowHasBlob, Stored, UnlinkedHasNoRow
    <3> QED
      BY <3>2, <3>3, <3>4 DEF RowParts
  <2>2. CASE /\ files' = Merged
             /\ unrestored' = unrestored \cup ({Merged[i].key : i \in FileIds} \ ((blobs \ Doomed) \cup {0}))
             /\ transfer' = [transfer EXCEPT !.pc = "blobs", !.todo = bundle.blobs]
             /\ UNCHANGED blobs
    <3>1. transfer'.pc = "blobs" /\ transfer'.db = transfer.db /\ transfer'.todo = bundle.blobs
      BY <1>0, <2>2 DEF Transfer
    <3>2. \A i \in FileIds : files'[i] \in {files[i], bundle.files[i]}
      BY <2>2, TableTypes DEF Merged, Upsert, FileTable
    <3>3. OneHome' /\ Fresh'
      BY <1>0, <2>2, <3>1, <3>2, CopyKeepsHome
    <3>4. \A i \in FileIds : files'[i].key \in unrestored' \/ files'[i].key \in (blobs \ Doomed) \cup {0}
      BY <2>2
    <3>5. \A i \in FileIds : files'[i].key \in {0} \cup Keys /\ (files'[i] # NoFile <=> files'[i].key # 0)
      BY <3>2, Numbers DEF TypeOK, FilesTypeOK, FileTable, File, NoFile
    <3>6. RowHasBlob'
      BY <2>2, <3>4, <3>5 DEF RowHasBlob, Stored
    <3>7. UnlinkedHasNoRow'
      BY <1>0, <1>1, <3>4, Numbers DEF UnlinkedHasNoRow
    <3>8. unrestored \subseteq unrestored'
      BY <2>2
    <3>9. BackupHolds'
      BY <1>0, <2>2, <3>1, <3>8, NoBundleStays DEF RowParts, BackupHolds, BundleHoldsItsBlobs
    <3> QED
      BY <3>3, <3>6, <3>7, <3>9 DEF RowParts
  <2> QED
    BY <1>2, <2>1, <2>2 DEF CopyTables
<1>3. CASE RestoreBlob
  <2>1. transfer.pc = "blobs" /\ UNCHANGED files
    BY <1>3 DEF RestoreBlob
  <2>2. CASE Stop("off") /\ UNCHANGED <<blobs, unrestored>>
    <3>1. transfer'.pc = "off" /\ transfer'.db = NoBundle
      BY <2>2, StopFacts
    <3>2. OneHome' /\ Fresh'
      BY <1>0, <2>1, <2>2, <3>1, NoBundleStays, CopyKeepsHome
    <3>3. BackupHolds'
      BY <1>0, <2>2, <3>1, NoBundleStays DEF RowParts, BackupHolds, BundleHoldsItsBlobs
    <3>4. RowHasBlob' /\ UnlinkedHasNoRow'
      BY <1>0, <2>1, <2>2 DEF RowParts, RowHasBlob, Stored, UnlinkedHasNoRow
    <3> QED
      BY <3>2, <3>3, <3>4 DEF RowParts
  <2>3. ASSUME NEW k \in transfer.todo, transfer' = [transfer EXCEPT !.todo = @ \ {k}],
               blobs' = blobs \cup {k}, unrestored' = unrestored \ ({k} \ Doomed)
        PROVE  RowParts'
    <3>1. transfer'.pc = "blobs" /\ transfer'.db = transfer.db /\ transfer'.todo = transfer.todo \ {k}
      BY <1>0, <2>1, <2>3 DEF Transfer
    <3>2. OneHome' /\ Fresh'
      BY <1>0, <2>1, <2>3, <3>1, CopyKeepsHome
    <3>3. RowHasBlob'
      BY <2>1, <2>3 DEF RowParts, RowHasBlob, Stored
    <3>4. UnlinkedHasNoRow'
      BY <1>0, <1>1, <2>1, <2>3 DEF RowParts, UnlinkedHasNoRow
    <3>5. transfer.todo \subseteq bundle.blobs
      BY <2>1 DEF RowParts, BackupHolds
    <3>6. BundleHoldsItsBlobs'
      BY <1>0, <2>3, <3>5, NoBundleStays DEF RowParts, BackupHolds, BundleHoldsItsBlobs
    <3>7. BackupHolds'
      BY <1>0, <3>1, <3>5, <3>6 DEF BackupHolds
    <3> QED
      BY <3>2, <3>3, <3>4, <3>7 DEF RowParts
  <2> QED
    BY <1>3, <2>2, <2>3 DEF RestoreBlob
<1> QED
  BY <1>2, <1>3

(* A crash forgets the requests and the job, and no row.                    *)
LEMMA CrashKeeps ==
  ASSUME TypeOK, Shaped, RowParts, CrashAll
  PROVE  RowParts'
<1>1. UNCHANGED <<files, blobs, used, unrestored, bundle>> /\ Stop("off")
  BY DEF CrashAll, Crash, OnlyTransfer
<1>2. transfer'.pc = "off" /\ transfer'.db = NoBundle
  BY <1>1, StopFacts
<1>3. BackupHolds'
  BY <1>1, <1>2, NoBundleStays DEF RowParts, BackupHolds, BundleHoldsItsBlobs
<1>4. RowHasBlob'
  BY <1>1 DEF RowParts, RowHasBlob, Stored
<1>5. CASE UNCHANGED req
  <2>1. OneHome' /\ Fresh'
    BY <1>1, <1>2, <1>5, NoBundleStays, CopyKeepsHome
  <2>2. UnlinkedHasNoRow'
    BY <1>1, <1>5 DEF RowParts, UnlinkedHasNoRow
  <2> QED
    BY <1>3, <1>4, <2>1, <2>2 DEF RowParts
<1>6. CASE req' = [s \in Actors |-> Idle]
  <2>1. /\ Unborn(Idle) = {} /\ Going(Idle) = {} /\ Idle.key = 0 /\ Idle.vkey = 0
        /\ \A i \in FileIds, k \in Keys : ~Keeps(Idle, i, k)
    BY Numbers DEF Idle, Unborn, Going, Keeps
  <2>2. \A s \in Actors : req'[s] = Idle
    BY <1>6
  <2>3. NoFile.key = 0 /\ used \in Nat /\ 0 <= used
    BY TableTypes DEF NoFile
  <2>4. \A i \in FileIds, k \in Keys : Known(i, k)' => Known(i, k)
    BY <1>1, <1>2, <2>1, <2>2, <2>3, NoBundleStays, Numbers DEF Known
  <2>5. \A s \in Actors : req'[s].key <= used' /\ req'[s].vkey <= used'
    BY <1>1, <2>1, <2>2, <2>3
  <2>6. \A s \in Actors : Unborn(req'[s]) \subseteq Unborn(req[s]) \cap blobs'
    BY <2>1, <2>2
  <2>7. OneHome' /\ Fresh'
    BY <1>1, <2>3, <2>4, <2>5, <2>6, HomeKept DEF RowParts
  <2>8. UnlinkedHasNoRow'
    BY <2>1, <2>2 DEF UnlinkedHasNoRow
  <2> QED
    BY <1>3, <1>4, <2>7, <2>8 DEF RowParts
<1> QED
  BY <1>5, <1>6 DEF CrashAll, Crash, OnlyTransfer

(* A request's step keeps the rows' blobs.                                  *)
LEMMA RequestKeeps ==
  ASSUME TypeOK, Shaped, RowParts, TypeOK', NEW r \in Requests, RequestStep(r), UNCHANGED bundleVars
  PROVE  RowParts'
<1> DEFINE q == req[r]
<1>0. r \in Actors /\ q \in Request /\ Shape(q)
  BY Numbers, RequestFacts
<1>1. ASSUME NEW q2 \in Request, Shape(q2), Go(r, q2), UNCHANGED <<files, blobs, used>>,
             \/ Starts(q, q2) \/ Ends(q, q2) \/ Continues(q, q2) \/ Resolves(q, q2)
             \/ PurgesOwn(q, q2) \/ PurgesOld(q, q2) \/ Skips(q, q2)
             \/ PurgesNamed(q, q2) /\ q2.old # 0
             \/ \E i \in FileIds, k \in Keys : Removes(q, q2, i, k) /\ Known(i, k)
      PROVE  RowParts'
  <2>1. CalmTo(q, q2)
    BY <1>0, <1>1, CalmSteps
  <2> QED
    BY <1>0, <1>1, <2>1, CalmKeeps
<1>2. CASE Upload(r) \/ StaticUpload(r) \/ ImportEntryImage(r) \/ StaticDestroy(r)
  BY <1>1, <1>2, StartEffect DEF Steady
<1>3. CASE FindStatic(r)
  BY <1>1, <1>3, FindEffect DEF Steady
<1>4. CASE CreateStaticFile(r) \/ UpdateStaticFile(r)
  BY <1>1, <1>4, CreateEffect, SwapEffect
<1>5. CASE GetFileForStaticFilename(r)
  BY <1>1, <1>5, ResolveEffect DEF Steady
<1>6. CASE DeleteStaticFile(r)
  BY <1>1, <1>6, DeleteStaticEffect
<1>7. CASE PurgeStoredFile(r)
  <2>1. UNCHANGED <<files, blobs, used>>
    BY <1>7, PurgeEffect
  <2>2. PICK q2 \in Request :
               /\ Shape(q2) /\ Go(r, q2)
               /\ \/ Ends(req[r], q2)
                  \/ \E k \in Keys :
                        /\ Removes(req[r], q2, req[r].old, k) /\ req[r].old \in FileIds
                        /\ k = req[r].oldKey \/ k = files[req[r].old].key
    BY <1>7, PurgeEffect
  <2>3. \A k \in Keys : q.old \in FileIds /\ (k = q.oldKey \/ k = files[q.old].key) => Known(q.old, k)
    BY <1>0 DEF Known, Keeps
  <2> QED
    BY <1>1, <2>1, <2>2, <2>3
<1>8. CASE AttachUpload(r)
  <2>1. UNCHANGED <<files, blobs, used>>
    BY <1>8, AttachEffect
  <2>2. PICK q2 \in Request :
               /\ Shape(q2) /\ Go(r, q2)
               /\ \/ Ends(req[r], q2)
                  \/ Removes(req[r], q2, req[r].file, req[r].key) /\ req[r].file \in FileIds /\ req[r].key \in Keys
    BY <1>8, AttachEffect
  <2>3. q.file \in FileIds /\ q.key \in Keys => Known(q.file, q.key)
    BY <1>0 DEF Known, Keeps
  <2> QED
    BY <1>1, <2>1, <2>2, <2>3
<1>9. CASE ImportEntry(r)
  BY <1>1, <1>9, EntryEffect
<1>10. CASE WriteBlob(r)
  BY <1>10, WriteKeeps
<1>11. CASE InsertRow(r) \/ InsertVariant(r)
  BY <1>11, InsertKeeps
<1>12. CASE DestroyArticle(r)
  BY <1>12, DestroyKeeps
<1> QED
  BY <1>2, <1>3, <1>4, <1>5, <1>6, <1>7, <1>8, <1>9, <1>10, <1>11, <1>12 DEF RequestStep

(* The sweep reads rows of more than a day and lets go of the rest.         *)
LEMMA SweepKeeps ==
  ASSUME TypeOK, Shaped, RowParts, TypeOK', StartReaper \/ ExamineCandidate, UNCHANGED bundleVars
  PROVE  RowParts'
<1>0. Reaper \in Actors /\ req[Reaper] \in Request /\ Shape(req[Reaper]) /\ 0 \notin FileIds
  BY Numbers, RequestFacts
<1>1. CASE StartReaper
  <2>1. UNCHANGED <<files, blobs, used>>
    BY <1>1, ReaperEffect DEF Steady
  <2>2. PICK q2 \in Request :
               /\ Shape(q2) /\ Go(Reaper, q2) /\ q2.pc \in {"idle", "examine"}
               /\ \A c \in q2.cands : c.id \in FileIds /\ files[c.id].key = c.key
    BY <1>1, ReaperEffect
  <2>3. q2.key = 0 /\ q2.file = 0 /\ q2.old = 0 /\ q2.doomed = {}
    BY <2>2 DEF Shape, WithKey
  <2>4. CalmTo(req[Reaper], q2)
    BY <1>0, <2>2, <2>3 DEF CalmTo, Keeps, Known
  <2> QED
    BY <1>0, <2>1, <2>2, <2>4, CalmKeeps
<1>2. CASE ExamineCandidate
  <2>1. UNCHANGED <<files, blobs, used>>
    BY <1>2, ExamineEffect DEF Steady
  <2>2. PICK q2 \in Request :
               /\ Shape(q2) /\ Go(Reaper, q2)
               /\ \/ Ends(req[Reaper], q2)
                  \/ \E c \in req[Reaper].cands :
                        Removes(req[Reaper], q2, c.id, c.key) /\ c.id \in FileIds /\ c.key \in Keys
    BY <1>2, ExamineEffect
  <2>3. \A c \in req[Reaper].cands : c.id \in FileIds /\ c.key \in Keys => Known(c.id, c.key)
    BY <1>0 DEF Known, Keeps
  <2>4. CalmTo(req[Reaper], q2)
    BY <1>0, <2>2, <2>3, CalmSteps
  <2> QED
    BY <1>0, <2>1, <2>2, <2>4, CalmKeeps
<1> QED
  BY <1>1, <1>2

(* Nothing is stored, kept or going in the beginning.                       *)
LEMMA InitRows == Init => RowInv
<1> SUFFICES ASSUME Init PROVE RowInv
  OBVIOUS
<1>0. /\ files = [i \in FileIds |-> NoFile] /\ blobs = {} /\ used = 0 /\ aged = 0 /\ issued = {} /\ lost = {}
      /\ req = [r \in Actors |-> Idle] /\ transfer = Off /\ bundle = NoBundle /\ unrestored = {}
      /\ attachments = [t \in FileIds |-> NoAttachment] /\ statics = [n \in Names |-> 0]
      /\ bodies = [d \in Docs |-> {}] /\ merged = FALSE /\ mistaken = FALSE
  BY DEF Init, FilesInit
<1>1. articles \subseteq Articles
  BY MediaAssumption DEF Init, FilesInit
<1>2. Off.pc = "off" /\ Off.db = NoBundle /\ Off.todo = {} /\ NoFile.key = 0
  BY DEF Off, NoFile
<1>3. /\ Unborn(Idle) = {} /\ Going(Idle) = {} /\ Idle.key = 0 /\ Idle.vkey = 0
      /\ \A i \in FileIds, k \in Keys : ~Keeps(Idle, i, k)
  BY Numbers DEF Idle, Unborn, Going, Keeps
<1>4. FilesTypeOK
  <2>1. files \in FileTable /\ attachments \in AttachmentTable /\ statics \in StaticTable
    BY <1>0 DEF FileTable, AttachmentTable, StaticTable
  <2>2. bodies \in [Docs -> SUBSET Keys] /\ req \in [Actors -> Request]
    BY <1>0, IdleShape
  <2>3. used \in 0..MaxKeys /\ blobs \subseteq 1..used /\ aged \in 0..used /\ issued \subseteq 1..used /\ lost \subseteq Keys
    BY <1>0, MediaAssumption
  <2> QED
    BY <1>0, <1>1, <2>1, <2>2, <2>3 DEF FilesTypeOK
<1>5. NoBundle \in Backup
  BY DEF NoBundle, Backup, FileTable, AttachmentTable, StaticTable
<1>6. TypeOK
  BY <1>0, <1>4, <1>5 DEF TypeOK, Off
<1>7. Shaped
  BY <1>0, <1>2, IdleShape DEF Shaped
<1>8. \A i \in FileIds, k \in Keys : ~Known(i, k)
  BY <1>0, <1>2, <1>3, NoBundleStays, Numbers DEF Known
<1>9. OneHome /\ Fresh /\ UnlinkedHasNoRow
  BY <1>0, <1>3, <1>8 DEF OneHome, Fresh, UnlinkedHasNoRow
<1>10. RowHasBlob /\ BackupHolds
  BY <1>0, <1>2 DEF RowHasBlob, Stored, BackupHolds, BundleHoldsItsBlobs
<1> QED
  BY <1>6, <1>7, <1>9, <1>10 DEF RowInv

(* Every step keeps the invariant.                                          *)
LEMMA StepRows ==
  ASSUME RowInv, [Next]_vars
  PROVE  RowInv'
<1>1. TypeOK /\ Shaped /\ RowParts
  BY DEF RowInv, RowParts
<1>2. TypeOK' /\ Shaped'
  BY <1>1, StepTypes DEF RowParts
<1> SUFFICES RowParts'
  BY <1>2 DEF RowInv, RowParts
<1>3. CASE \E r \in Requests : RequestStep(r) /\ UNCHANGED bundleVars
  BY <1>1, <1>2, <1>3, RequestKeeps
<1>4. CASE \E r \in Actors : (DeleteRow(r) \/ Unlink(r)) /\ UNCHANGED bundleVars
  BY <1>1, <1>2, <1>4, DeleteKeeps, UnlinkKeeps
<1>5. CASE (SaveDocument \/ ADayPasses) /\ UNCHANGED bundleVars
  BY <1>1, <1>5, StillKeeps DEF SaveDocument, ADayPasses
<1>6. CASE (StartReaper \/ ExamineCandidate) /\ UNCHANGED bundleVars
  BY <1>1, <1>2, <1>6, SweepKeeps
<1>7. CASE VacuumInto \/ WalkBlobs \/ PackBlob \/ RenameBundle \/ StartImport
  BY <1>1, <1>7, ExportKeeps
<1>8. CASE CopyTables \/ RestoreBlob
  BY <1>1, <1>2, <1>8, ImportKeeps
<1>9. CASE CrashAll
  BY <1>1, <1>9, CrashKeeps
<1>10. CASE UNCHANGED vars
  BY <1>1, <1>10, StillKeeps DEF vars, fileVars
<1> QED
  BY <1>3, <1>4, <1>5, <1>6, <1>7, <1>8, <1>9, <1>10 DEF Next

(* The invariant holds throughout.                                          *)
THEOREM RowInvariant == Spec => []RowInv
<1>1. Init => RowInv
  BY InitRows
<1>2. RowInv /\ [Next]_vars => RowInv'
  BY StepRows
<1> QED
  BY <1>1, <1>2, PTL DEF Spec

(* Types, for any number of requests, rows and keys.                        *)
THEOREM BundleTypes == Spec => []TypeOK
<1>1. RowInv => TypeOK
  BY DEF RowInv
<1> QED
  BY <1>1, RowInvariant, PTL

(* No upload, variant, purge, sweep, destruction, crash, backup or import   *)
(* leaves a files row without its blob, rows an import merged before their  *)
(* blob aside (media.go:78, static_files_admin.go:340).                     *)
THEOREM RowsHaveBlobs == Spec => []RowHasBlob
<1>1. RowInv => RowHasBlob
  BY DEF RowInv
<1> QED
  BY <1>1, RowInvariant, PTL

(* A finished backup holds the blobs of its rows, whatever is stored,       *)
(* removed or restored while it is made and after (export_db.go:40).        *)
THEOREM BackupsHoldTheirBlobs == Spec => []BundleHoldsItsBlobs
<1>1. RowInv => BundleHoldsItsBlobs
  BY DEF RowInv, BackupHolds
<1> QED
  BY <1>1, RowInvariant, PTL

(* A key belongs to one id for ever: in the table, in backups and in what   *)
(* requests remember, though ids come back for other files.                 *)
THEOREM KeysHaveOneHome == Spec => []OneHome
<1>1. RowInv => OneHome
  BY DEF RowInv
<1> QED
  BY <1>1, RowInvariant, PTL

-----------------------------------------------------------------------------
(* An embedded URL is served.                                               *)

TakenNext(k) == k \in issued' \/ \E r \in Actors : req'[r].key = k

EmbeddedNext(k) == \E d \in Docs : k \in bodies'[d]

SparedNext(q, d) ==
    ~TakenNext(d.key) \/ (d.key <= aged' /\ ~EmbeddedNext(d.key)) \/ (q.pc = "unlink" /\ q.op = "article")

(* The primed parts, in terms of the next state.                            *)
LEMMA NextFacts ==
  /\ \A k : Taken(k)' <=> TakenNext(k)
  /\ \A k : Embedded(k)' <=> EmbeddedNext(k)
  /\ \A q, d : Spared(q, d)' <=> SparedNext(q, d)
  BY DEF Taken, TakenNext, Embedded, EmbeddedNext, Spared, SparedNext

Releases(r, q2) ==
    \/ q2.key = req[r].key /\ UNCHANGED issued
    \/ q2.key = 0 /\ UNCHANGED issued
    \/ q2.key = 0 /\ req[r].key # 0 /\ issued' = issued \cup {req[r].key}

(* What a request lets go of, or hands out, was taken before.               *)
LEMMA ReleaseFacts ==
  ASSUME TypeOK, Shaped, OwnKeys, NEW r \in Actors, NEW q2 \in Request, Shape(q2), Go(r, q2), Releases(r, q2)
  PROVE  /\ req'[r] = q2 /\ \A s \in Actors \ {r} : req'[s] = req[s]
         /\ \A s \in Actors : req'[s].key \in {0, req[s].key}
         /\ issued \subseteq issued'
         /\ \A k \in Keys : TakenNext(k) => Taken(k)
         /\ req[r].key # 0 /\ q2.key = 0 /\ UNCHANGED issued => ~TakenNext(req[r].key)
<1>1. req'[r] = q2 /\ \A s \in Actors \ {r} : req'[s] = req[s]
  BY GoShape, RequestFacts DEF Shaped
<1>2. \A s \in Actors : req'[s].key \in {0, req[s].key}
  BY <1>1 DEF Releases
<1>3. ASSUME NEW k \in Keys, TakenNext(k) PROVE Taken(k)
  <2>1. k # 0
    BY <1>3, Numbers
  <2> QED
    BY <1>2, <1>3, <2>1 DEF Taken, TakenNext, Releases
<1>4. ASSUME req[r].key # 0, q2.key = 0, UNCHANGED issued PROVE ~TakenNext(req[r].key)
  <2>1. req[r].key \notin issued' /\ \A s \in Actors \ {r} : req'[s].key # req[r].key
    BY <1>1, <1>4 DEF OwnKeys
  <2> QED
    BY <1>1, <1>4, <2>1 DEF TakenNext
<1>5. issued \subseteq issued'
  BY DEF Releases
<1> QED
  BY <1>1, <1>2, <1>3, <1>4, <1>5

(* The keys a table or a request names.                                     *)
LEMMA KeyFacts ==
  ASSUME TypeOK, Shaped
  PROVE  /\ \A i \in FileIds : Stored(i) => files[i].key \in Keys
         /\ \A i \in FileIds : files[i].of # 0 => files[i].key \in Keys
         /\ \A n \in Names : statics[n] # 0 => statics[n] \in FileIds
         /\ \A t \in FileIds : attachments[t].file # 0 => attachments[t].file \in FileIds
         /\ \A r \in Actors : /\ req[r].oldKey # 0 => req[r].oldKey \in Keys
                              /\ req[r].vkey # 0 => req[r].vkey \in Keys
                              /\ req[r].key # 0 => req[r].key \in Keys
                              /\ req[r].file # 0 => req[r].file \in FileIds
                              /\ \A d \in req[r].doomed : d.key \in Keys /\ d.id \in FileIds
                              /\ \A c \in req[r].cands : c.key \in Keys /\ c.id \in FileIds
<1>1. \A i \in FileIds : (Stored(i) => files[i].key \in Keys) /\ (files[i].of # 0 => files[i].key \in Keys)
  BY RowFacts
<1>2. \A n \in Names : statics[n] # 0 => statics[n] \in FileIds
  BY TableTypes DEF StaticTable
<1>3. \A t \in FileIds : attachments[t].file # 0 => attachments[t].file \in FileIds
  <2>1. \A t \in FileIds : attachments[t] \in Attachment \cup {NoAttachment}
    BY TableTypes DEF AttachmentTable
  <2> QED
    BY <2>1 DEF Attachment, NoAttachment
<1>4. ASSUME NEW r \in Actors
      PROVE  /\ req[r].oldKey # 0 => req[r].oldKey \in Keys
             /\ req[r].vkey # 0 => req[r].vkey \in Keys
             /\ req[r].key # 0 => req[r].key \in Keys
             /\ req[r].file # 0 => req[r].file \in FileIds
             /\ \A d \in req[r].doomed : d.key \in Keys /\ d.id \in FileIds
             /\ \A c \in req[r].cands : c.key \in Keys /\ c.id \in FileIds
  BY RequestFacts DEF Request, FileRef
<1> QED
  BY <1>1, <1>2, <1>3, <1>4

(* Tables that stay keep their parts while keys are only let go and rows    *)
(* only come.                                                               *)
LEMMA TablesRest ==
  ASSUME TypeOK, Shaped, TableParts, \A i \in FileIds : files[i] # NoFile => files'[i] = files[i], issued \subseteq issued',
         \A k \in Keys : TakenNext(k) => Taken(k), \A s \in Actors : req'[s].key \in {0, req[s].key}
  PROVE  /\ UNCHANGED bodies => EmbeddedHasRow'
         /\ UNCHANGED files => VariantsUntaken'
         /\ UNCHANGED statics => StaticsUntaken'
         /\ UNCHANGED attachments => AttachedStored'
<1>0. \A i \in FileIds : Stored(i) => files'[i] = files[i] /\ Stored(i)'
  BY NoBundleStays DEF Stored
<1>1. ASSUME UNCHANGED bodies PROVE EmbeddedHasRow'
  <2>1. ASSUME NEW k \in Keys, NEW i \in FileIds, files[i].key = k PROVE files'[i].key = k
    BY <2>1, <1>0, RowFacts, Numbers
  <2>2. ASSUME NEW k \in Keys, EmbeddedNext(k) PROVE k \in issued' /\ \E i \in FileIds : files'[i].key = k
    BY <1>1, <2>1, <2>2 DEF TableParts, EmbeddedHasRow, Embedded, EmbeddedNext
  <2> QED
    BY <2>2 DEF EmbeddedHasRow, Embedded, EmbeddedNext
<1>2. ASSUME UNCHANGED files PROVE VariantsUntaken'
  <2>1. ASSUME NEW i \in FileIds, files'[i].of # 0 PROVE ~TakenNext(files'[i].key)
    BY <1>2, <2>1, KeyFacts DEF TableParts, VariantsUntaken
  <2> QED
    BY <2>1 DEF VariantsUntaken, Taken, TakenNext
<1>3. ASSUME UNCHANGED statics PROVE StaticsUntaken'
  <2>1. ASSUME NEW n \in Names, statics'[n] # 0 PROVE Stored(statics[n])' /\ ~TakenNext(files'[statics'[n]].key)
    <3>1. statics'[n] = statics[n] /\ statics[n] \in FileIds /\ Stored(statics[n]) /\ ~Taken(files[statics[n]].key)
      BY <1>3, <2>1, KeyFacts DEF TableParts, StaticsUntaken
    <3>2. files'[statics[n]] = files[statics[n]] /\ files[statics[n]].key \in Keys
      BY <1>0, <3>1, KeyFacts
    <3> QED
      BY <1>0, <1>3, <3>1, <3>2 DEF Stored
  <2> QED
    BY <2>1 DEF StaticsUntaken, Taken, TakenNext
<1>4. ASSUME UNCHANGED attachments PROVE AttachedStored'
  <2>1. ASSUME NEW t \in FileIds, attachments'[t].file # 0
        PROVE  Stored(attachments[t].file)' /\ \A r \in Actors : req'[r].key # files'[attachments'[t].file].key
    <3>1. /\ attachments'[t] = attachments[t] /\ attachments[t].file \in FileIds /\ Stored(attachments[t].file)
          /\ \A r \in Actors : req[r].key # files[attachments[t].file].key
      BY <1>4, <2>1, KeyFacts DEF TableParts, AttachedStored
    <3>2. files[attachments[t].file].key # 0 /\ files'[attachments[t].file] = files[attachments[t].file]
      BY <1>0, <3>1, KeyFacts, Numbers
    <3> QED
      BY <1>0, <1>4, <3>1, <3>2 DEF Stored
  <2> QED
    BY <2>1 DEF AttachedStored
<1> QED
  BY <1>1, <1>2, <1>3, <1>4

(* A request that lets go of its key, or keeps it, keeps what requests know.*)
LEMMA RequestsRest ==
  ASSUME TypeOK, Shaped, RequestParts, NEW r \in Actors, NEW q2 \in Request, Shape(q2), Go(r, q2), Releases(r, q2),
         UNCHANGED aged,
         \A k \in Keys : k <= aged /\ EmbeddedNext(k) => Embedded(k),
         \A s \in Actors : req'[s].key # 0 /\ req'[s].file # 0 =>
            files'[req'[s].file] = [key |-> req'[s].key, of |-> 0],
         q2.pc = "vrow" => ~TakenNext(q2.vkey),
         q2.oldKey # 0 => ~TakenNext(q2.oldKey),
         \A d \in q2.doomed : SparedNext(q2, d),
         \A c \in q2.cands : c.key <= aged
  PROVE  RequestParts'
<1>1. /\ req'[r] = q2 /\ \A s \in Actors \ {r} : req'[s] = req[s]
      /\ \A s \in Actors : req'[s].key \in {0, req[s].key}
      /\ \A k \in Keys : TakenNext(k) => Taken(k)
  BY ReleaseFacts DEF RequestParts
<1>2. OwnKeys'
  <2>1. ASSUME NEW s \in Actors, req'[s].key # 0
        PROVE  /\ req'[s].key \notin issued' /\ req'[s].key > aged'
               /\ \A t \in Actors : req'[t].key = req'[s].key => t = s
    <3>1. req'[s].key = req[s].key /\ req[s].key # 0
      BY <1>1, <2>1
    <3>2. /\ req[s].key \notin issued /\ req[s].key > aged
          /\ \A t \in Actors : req[t].key = req[s].key => t = s
      BY <3>1 DEF RequestParts, OwnKeys
    <3>3. \A t \in Actors : req'[t].key = req'[s].key => t = s
      BY <1>1, <2>1, <3>1, <3>2
    <3>4. req[s].key \notin issued'
      <4>1. CASE UNCHANGED issued
        BY <3>2, <4>1
      <4>2. CASE q2.key = 0 /\ req[r].key # 0 /\ issued' = issued \cup {req[r].key}
        BY <1>1, <2>1, <3>2, <4>2
      <4> QED
        BY <4>1, <4>2 DEF Releases
    <3> QED
      BY <3>1, <3>2, <3>3, <3>4
  <2> QED
    BY <2>1 DEF OwnKeys
<1>3. ReadsUntaken'
  <2>1. ASSUME NEW s \in Actors
        PROVE  (req'[s].pc = "vrow" => ~TakenNext(req'[s].vkey)) /\ (req'[s].oldKey # 0 => ~TakenNext(req'[s].oldKey))
    <3>1. CASE s = r
      BY <1>1, <3>1
    <3>2. CASE s # r
      <4>1. req'[s] = req[s]
        BY <1>1, <3>2
      <4>2. req[s].pc = "vrow" => req[s].vkey # 0
        BY RequestFacts DEF Shape
      <4> QED
        BY <1>1, <4>1, <4>2, KeyFacts DEF RequestParts, ReadsUntaken
    <3> QED
      BY <3>1, <3>2
  <2> QED
    BY <2>1 DEF ReadsUntaken, Taken, TakenNext
<1>4. RemovalsSpare'
  <2>1. ASSUME NEW s \in Actors
        PROVE  (\A d \in req'[s].doomed : SparedNext(req'[s], d)) /\ \A c \in req'[s].cands : c.key <= aged'
    <3>1. CASE s = r
      BY <1>1, <3>1
    <3>2. CASE s # r
      <4>1. req'[s] = req[s]
        BY <1>1, <3>2
      <4>2. ASSUME NEW d \in req[s].doomed PROVE SparedNext(req[s], d)
        <5>1. d.key \in Keys /\ Spared(req[s], d)
          BY <4>2, KeyFacts DEF RequestParts, RemovalsSpare
        <5> QED
          BY <1>1, <5>1 DEF Spared, SparedNext
      <4> QED
        BY <4>1, <4>2 DEF RequestParts, RemovalsSpare
    <3> QED
      BY <3>1, <3>2
  <2> QED
    BY <2>1 DEF RemovalsSpare, Spared, SparedNext, Taken, TakenNext, Embedded, EmbeddedNext
<1> QED
  BY <1>2, <1>3, <1>4 DEF RequestParts

(* The steps that read, end and pass on.                                    *)
Calms(r, q2) ==
    \/ UNCHANGED issued /\ (Starts(req[r], q2) \/ Ends(req[r], q2) \/ Continues(req[r], q2) \/ Resolves(req[r], q2))
    \/ UNCHANGED issued /\ (PurgesOwn(req[r], q2) \/ PurgesOld(req[r], q2))
    \/ UNCHANGED issued /\ PurgesNamed(req[r], q2) /\ q2.old # 0
    \/ UNCHANGED issued /\ Skips(req[r], q2) /\ req[r].pc = "delete"
    \/ /\ UNCHANGED issued
       /\ \E i \in FileIds, k \in Keys :
             /\ Removes(req[r], q2, i, k)
             /\ \/ k = req[r].key
                \/ ~Taken(k)
                \/ k <= aged /\ \A d \in Family(i, k) : ~EmbeddedNext(d.key)
    \/ Ends(req[r], q2) /\ req[r].key # 0 /\ issued' = issued \cup {req[r].key}

(* They keep what requests know.                                            *)
LEMMA RequestsCalm ==
  ASSUME TypeOK, Shaped, TableParts, RequestParts, NEW r \in Actors, NEW q2 \in Request, Shape(q2), Go(r, q2),
         UNCHANGED <<files, aged>>, \A k \in Keys : k <= aged /\ EmbeddedNext(k) => Embedded(k), Calms(r, q2)
  PROVE  RequestParts' /\ Releases(r, q2)
<1> DEFINE q == req[r]
<1>0. q \in Request /\ Shape(q) /\ 0 \notin FileIds /\ 0 \notin Keys
  BY RequestFacts, Numbers
<1>1. ASSUME Releases(r, q2), q2.key # 0 => q2.file = q.file \/ q2.file = 0, q2.pc # "vrow",
             q2.oldKey # 0 => ~TakenNext(q2.oldKey),
             \A d \in q2.doomed : SparedNext(q2, d),
             \A c \in q2.cands : c.key <= aged
      PROVE  RequestParts' /\ Releases(r, q2)
  <2>1. req'[r] = q2 /\ \A s \in Actors \ {r} : req'[s] = req[s]
    BY <1>1, ReleaseFacts DEF RequestParts
  <2>2. ASSUME NEW s \in Actors, req'[s].key # 0, req'[s].file # 0
        PROVE  files'[req'[s].file] = [key |-> req'[s].key, of |-> 0]
    <3>1. req'[s].key = req[s].key /\ req'[s].file = req[s].file
      BY <1>1, <2>1, <2>2 DEF Releases
    <3> QED
      BY <2>2, <3>1 DEF RequestParts, OwnKeys
  <2> QED
    BY <1>1, <2>2, RequestsRest
<1>2. \A c \in q.cands : c.key <= aged
  BY DEF RequestParts, RemovalsSpare
<1>3. \A k \in Keys : Releases(r, q2) /\ TakenNext(k) => Taken(k)
  BY ReleaseFacts DEF RequestParts
<1>4. Releases(r, q2) /\ q.key # 0 /\ q2.key = 0 /\ UNCHANGED issued => ~TakenNext(q.key)
  BY ReleaseFacts DEF RequestParts
<1>5. \A n \in Names : statics[n] # 0 => files[statics[n]].key \in Keys /\ ~Taken(files[statics[n]].key)
  <2>1. ASSUME NEW n \in Names, statics[n] # 0 PROVE files[statics[n]].key \in Keys /\ ~Taken(files[statics[n]].key)
    <3>1. Stored(statics[n]) /\ statics[n] \in FileIds /\ ~Taken(files[statics[n]].key)
      BY <2>1, KeyFacts DEF TableParts, StaticsUntaken
    <3> QED
      BY <3>1, KeyFacts
  <2> QED
    BY <2>1
<1>6. q.oldKey # 0 => q.oldKey \in Keys /\ ~Taken(q.oldKey)
  BY KeyFacts DEF RequestParts, ReadsUntaken
<1>7. \A i \in FileIds : files[i].of # 0 => files[i].key \in Keys /\ ~Taken(files[i].key)
  BY KeyFacts DEF TableParts, VariantsUntaken
<1>8. CASE Starts(q, q2) /\ UNCHANGED issued
  <2>1. q2.key = 0 /\ q2.oldKey = 0 /\ q2.doomed = {} /\ q2.cands = {} /\ q2.pc # "vrow"
    BY <1>8 DEF Starts, Shape, WithKey
  <2>2. Releases(r, q2)
    BY <1>8, <2>1 DEF Releases
  <2> QED
    BY <1>1, <2>1, <2>2
<1>9. CASE Ends(q, q2) /\ (UNCHANGED issued \/ (q.key # 0 /\ issued' = issued \cup {q.key}))
  <2>1. q2.key = 0 /\ q2.oldKey = 0 /\ q2.doomed = {} /\ q2.cands \subseteq q.cands /\ q2.pc # "vrow"
    BY <1>9 DEF Ends, Shape, WithKey
  <2>2. Releases(r, q2)
    BY <1>9, <2>1 DEF Releases
  <2> QED
    BY <1>1, <1>2, <2>1, <2>2
<1>10. CASE Continues(q, q2) /\ UNCHANGED issued
  <2>1. q2.key = q.key /\ q2.file = q.file /\ q2.oldKey = 0 /\ q2.doomed = {} /\ q2.cands = q.cands /\ q2.pc # "vrow"
    BY <1>10 DEF Continues, Shape
  <2>2. Releases(r, q2)
    BY <1>10, <2>1 DEF Releases
  <2> QED
    BY <1>1, <1>2, <2>1, <2>2
<1>11. CASE Resolves(q, q2) /\ UNCHANGED issued
  <2>1. q2.key = q.key /\ q2.file = q.file /\ q2.doomed = {} /\ q2.cands = q.cands /\ q2.pc # "vrow"
    BY <1>11 DEF Resolves, Shape
  <2>2. Releases(r, q2)
    BY <1>11, <2>1 DEF Releases
  <2>3. q2.oldKey # 0 => ~TakenNext(q2.oldKey)
    BY <1>3, <1>5, <1>11, <2>2 DEF Resolves
  <2> QED
    BY <1>1, <1>2, <2>1, <2>2, <2>3
<1>12. CASE PurgesOwn(q, q2) /\ UNCHANGED issued
  <2>1. q2.key = 0 /\ q2.doomed = {} /\ q2.cands = q.cands /\ q2.pc # "vrow" /\ q2.oldKey = q.key
    BY <1>12 DEF PurgesOwn, Shape, WithKey
  <2>2. Releases(r, q2)
    BY <1>12, <2>1 DEF Releases
  <2> QED
    BY <1>1, <1>2, <1>4, <1>12, <2>1, <2>2
<1>13. CASE PurgesOld(q, q2) /\ UNCHANGED issued
  <2>1. q2.key = 0 /\ q2.doomed = {} /\ q2.cands = q.cands /\ q2.pc # "vrow" /\ q2.oldKey = q.oldKey
    BY <1>13 DEF PurgesOld, Shape, WithKey
  <2>2. Releases(r, q2)
    BY <1>13, <2>1 DEF Releases
  <2> QED
    BY <1>1, <1>2, <1>3, <1>6, <2>1, <2>2
<1>14. CASE PurgesNamed(q, q2) /\ q2.old # 0 /\ UNCHANGED issued
  <2>1. q2.key = 0 /\ q2.doomed = {} /\ q2.cands = q.cands /\ q2.pc # "vrow"
    BY <1>14 DEF PurgesNamed, Shape, WithKey
  <2>2. Releases(r, q2)
    BY <1>14, <2>1 DEF Releases
  <2>3. ~TakenNext(q2.oldKey)
    BY <1>3, <1>5, <1>14, <2>2 DEF PurgesNamed
  <2> QED
    BY <1>1, <1>2, <2>1, <2>2, <2>3
<1>15. CASE Skips(q, q2) /\ q.pc = "delete" /\ UNCHANGED issued
  <2>1. q2.key = 0 /\ q2.oldKey = 0 /\ q2.doomed \subseteq q.doomed /\ q2.cands = q.cands /\ q2.pc # "vrow"
    BY <1>15 DEF Skips, Shape, WithKey
  <2>2. Releases(r, q2)
    BY <1>15, <2>1 DEF Releases
  <2>3. ASSUME NEW d \in q2.doomed PROVE SparedNext(q2, d)
    <3>1. d.key \in Keys /\ Spared(q, d)
      BY <2>1, <2>3, KeyFacts DEF RequestParts, RemovalsSpare
    <3> QED
      BY <1>3, <1>15, <2>2, <3>1 DEF Spared, SparedNext
  <2> QED
    BY <1>1, <1>2, <2>1, <2>2, <2>3
<1>16. ASSUME NEW i \in FileIds, NEW k \in Keys, UNCHANGED issued, Removes(q, q2, i, k),
              \/ k = q.key
              \/ ~Taken(k)
              \/ k <= aged /\ \A d \in Family(i, k) : ~EmbeddedNext(d.key)
       PROVE  RequestParts' /\ Releases(r, q2)
  <2>1. q2.key = 0 /\ q2.oldKey = 0 /\ q2.doomed = Family(i, k) /\ q2.cands \subseteq q.cands /\ q2.pc # "vrow"
    BY <1>16 DEF Removes, Shape, WithKey
  <2>2. Releases(r, q2)
    BY <1>16, <2>1 DEF Releases
  <2>3. ASSUME NEW d \in q2.doomed PROVE SparedNext(q2, d)
    <3>1. \/ d.key = k
          \/ d.id \in FileIds /\ files[d.id].key = d.key /\ files[d.id].of # 0
      BY <1>0, <2>1, <2>3, FamilyFacts
    <3>2. CASE d.key = k
      <4>1. ~TakenNext(k) \/ (k <= aged /\ ~EmbeddedNext(d.key))
        BY <1>3, <1>4, <1>0, <1>16, <2>1, <2>2, <2>3
      <4> QED
        BY <3>2, <4>1 DEF SparedNext
    <3>3. CASE d.id \in FileIds /\ files[d.id].key = d.key /\ files[d.id].of # 0
      BY <1>3, <1>7, <2>2, <3>3 DEF SparedNext
    <3> QED
      BY <3>1, <3>2, <3>3
  <2> QED
    BY <1>1, <1>2, <2>1, <2>2, <2>3
<1> QED
  BY <1>8, <1>9, <1>10, <1>11, <1>12, <1>13, <1>14, <1>15, <1>16 DEF Calms

(* And the tables that they leave alone.                                    *)
LEMMA TablesCalm ==
  ASSUME TypeOK, Shaped, TableParts, RequestParts, NEW r \in Actors, NEW q2 \in Request, Shape(q2), Go(r, q2),
         UNCHANGED <<files, aged>>, \A k \in Keys : k <= aged /\ EmbeddedNext(k) => Embedded(k), Calms(r, q2)
  PROVE  /\ RequestParts' /\ VariantsUntaken'
         /\ UNCHANGED bodies => EmbeddedHasRow'
         /\ UNCHANGED statics => StaticsUntaken'
         /\ UNCHANGED attachments => AttachedStored'
         /\ req'[r] = q2 /\ \A s \in Actors : req'[s].key \in {0, req[s].key}
         /\ issued \subseteq issued' /\ \A k \in Keys : TakenNext(k) => Taken(k)
         /\ req[r].key # 0 /\ q2.key = 0 /\ UNCHANGED issued => ~TakenNext(req[r].key)
<1>1. RequestParts' /\ Releases(r, q2)
  BY RequestsCalm
<1>2. /\ req'[r] = q2 /\ \A s \in Actors : req'[s].key \in {0, req[s].key}
      /\ issued \subseteq issued' /\ \A k \in Keys : TakenNext(k) => Taken(k)
      /\ req[r].key # 0 /\ q2.key = 0 /\ UNCHANGED issued => ~TakenNext(req[r].key)
  BY <1>1, ReleaseFacts DEF RequestParts
<1>3. \A i \in FileIds : files[i] # NoFile => files'[i] = files[i]
  OBVIOUS
<1> QED
  BY <1>1, <1>2, <1>3, TablesRest

(* Documents that stay embed what they did.                                 *)
LEMMA BodiesStay ==
  ASSUME UNCHANGED bodies
  PROVE  \A k : EmbeddedNext(k) <=> Embedded(k)
  BY DEF Embedded, EmbeddedNext

(* A request and the key it stores.                                         *)
LEMMA OwnFacts ==
  ASSUME TypeOK, Shaped, RequestParts, NEW r \in Actors, req[r].key # 0
  PROVE  /\ req[r].key \in Keys /\ req[r].key \notin issued
         /\ \A k \in Keys : k <= aged => k # req[r].key
         /\ \A s \in Actors : req[s].key = req[r].key => s = r
         /\ req[r].file # 0 => /\ req[r].file \in FileIds /\ files[req[r].file].key = req[r].key
                              /\ files[req[r].file].of = 0 /\ Stored(req[r].file)
<1>1. req[r].key \in Keys /\ (req[r].file # 0 => req[r].file \in FileIds)
  BY KeyFacts
<1>2. OwnKeys
  BY DEF RequestParts
<1>3. /\ req[r].key \notin issued /\ req[r].key > aged
      /\ \A s \in Actors : req[s].key = req[r].key => s = r
      /\ req[r].file # 0 => files[req[r].file] = [key |-> req[r].key, of |-> 0]
  BY <1>2 DEF OwnKeys
<1>4. aged \in 0..used /\ used \in 0..MaxKeys
  BY TableTypes
<1>5. ASSUME NEW k \in Keys, k <= aged PROVE k # req[r].key
  BY <1>1, <1>3, <1>4, <1>5, Numbers
<1>6. ASSUME req[r].file # 0
      PROVE  files[req[r].file].key = req[r].key /\ files[req[r].file].of = 0 /\ Stored(req[r].file)
  <2>1. files[req[r].file].key = req[r].key /\ files[req[r].file].of = 0
    BY <1>3, <1>6
  <2> QED
    BY <1>1, <1>6, <2>1, RowFacts
<1> QED
  BY <1>1, <1>3, <1>5, <1>6

(* Steps that leave the tables alone.                                       *)
LEMMA QuietEmbeds ==
  ASSUME TypeOK, Shaped, TableParts, RequestParts, ~mistaken', NEW r \in Requests,
         \/ Upload(r) \/ StaticUpload(r) \/ ImportEntryImage(r) \/ StaticDestroy(r)
         \/ FindStatic(r) \/ GetFileForStaticFilename(r) \/ PurgeStoredFile(r)
  PROVE  TableParts' /\ RequestParts'
<1>0. r \in Actors
  BY Numbers
<1>1. ASSUME NEW q2 \in Request, Shape(q2), Go(r, q2), Calms(r, q2), UNCHANGED <<files, aged, attachments, statics, bodies>>
      PROVE  TableParts' /\ RequestParts'
  <2>1. \A k \in Keys : k <= aged /\ EmbeddedNext(k) => Embedded(k)
    BY <1>1, BodiesStay
  <2> QED
    BY <1>0, <1>1, <2>1, TablesCalm DEF TableParts
<1>2. CASE Upload(r) \/ StaticUpload(r) \/ ImportEntryImage(r) \/ StaticDestroy(r)
  <2>1. Steady /\ \E q2 \in Request : Shape(q2) /\ Go(r, q2) /\ Starts(req[r], q2)
    BY <1>2, StartEffect
  <2> QED
    BY <1>1, <2>1 DEF Steady, Calms
<1>3. CASE FindStatic(r)
  <2>1. Steady /\ \E q2 \in Request :
            Shape(q2) /\ Go(r, q2) /\ (Continues(req[r], q2) \/ PurgesOwn(req[r], q2))
    BY <1>3, FindEffect
  <2> QED
    BY <1>1, <2>1 DEF Steady, Calms
<1>4. CASE GetFileForStaticFilename(r)
  <2>1. Steady /\ \E q2 \in Request : Shape(q2) /\ Go(r, q2) /\ Resolves(req[r], q2)
    BY <1>4, ResolveEffect
  <2> QED
    BY <1>1, <2>1 DEF Steady, Calms
<1>5. CASE PurgeStoredFile(r)
  <2>1. UNCHANGED <<files, aged, attachments, statics, bodies, issued>>
    BY <1>5, PurgeEffect
  <2>2. PICK q2 \in Request :
               /\ Shape(q2) /\ Go(r, q2)
               /\ \/ Ends(req[r], q2)
                  \/ \E k \in Keys :
                        /\ Removes(req[r], q2, req[r].old, k) /\ req[r].old \in FileIds
                        /\ mistaken' = (mistaken \/ k # req[r].oldKey)
    BY <1>5, PurgeEffect
  <2>3. ASSUME NEW k \in Keys, mistaken' = (mistaken \/ k # req[r].oldKey) PROVE ~Taken(k)
    <3>1. k = req[r].oldKey /\ req[r].oldKey # 0
      BY <2>3, Numbers
    <3> QED
      BY <1>0, <3>1 DEF RequestParts, ReadsUntaken
  <2>4. Calms(r, q2)
    BY <2>1, <2>2, <2>3 DEF Calms
  <2> QED
    BY <1>1, <2>1, <2>2, <2>4
<1> QED
  BY <1>2, <1>3, <1>4, <1>5

(* An attachment names a row whose key is handed out with it.               *)
LEMMA AttachEmbeds ==
  ASSUME TypeOK, Shaped, TableParts, RequestParts, NEW r \in Requests, AttachUpload(r)
  PROVE  TableParts' /\ RequestParts'
<1> DEFINE q == req[r]
<1>0. r \in Actors /\ q \in Request /\ Shape(q)
  BY RequestFacts, Numbers
<1>1. UNCHANGED <<files, aged, statics, bodies>> /\ q.pc = "attach"
  BY AttachEffect
<1>2. PICK q2 \in Request :
         /\ Shape(q2) /\ Go(r, q2)
         /\ \/ Ends(q, q2) /\ CreateAttachment(q.file, q.arg) /\ issued' = issued \cup {q.key}
            \/ /\ Removes(q, q2, q.file, q.key) /\ q.file \in FileIds /\ q.key \in Keys
               /\ UNCHANGED <<attachments, issued>>
  BY AttachEffect
<1>3. \A k \in Keys : k <= aged /\ EmbeddedNext(k) => Embedded(k)
  BY <1>1, BodiesStay
<1>4. q.key # 0 /\ q.file # 0 /\ q.file \in FileIds /\ q.arg \in Articles
  BY <1>0, <1>1 DEF Shape, WithKey, Request
<1>5. Calms(r, q2)
  <2>1. CASE Ends(q, q2) /\ issued' = issued \cup {q.key}
    BY <1>4, <2>1 DEF Calms
  <2>2. CASE Removes(q, q2, q.file, q.key) /\ q.file \in FileIds /\ q.key \in Keys /\ UNCHANGED issued
    BY <2>2 DEF Calms
  <2> QED
    BY <1>2, <2>1, <2>2
<1>6. RequestParts' /\ VariantsUntaken' /\ EmbeddedHasRow' /\ StaticsUntaken' /\ (UNCHANGED attachments => AttachedStored')
  BY <1>0, <1>1, <1>2, <1>3, <1>5, TablesCalm
<1>7. CASE Ends(q, q2) /\ CreateAttachment(q.file, q.arg)
  <2>1. req'[r] = q2 /\ \A s \in Actors : req'[s].key \in {0, req[s].key}
    BY <1>0, <1>1, <1>2, <1>3, <1>5, TablesCalm
  <2>2. q2.key = 0
    BY <1>2, <1>7 DEF Ends, Shape, WithKey
  <2>3. Stored(q.file) /\ \A t \in FileIds : attachments'[t] = attachments[t] \/ attachments'[t].file = q.file
    BY <1>4, <1>7, AttachmentFacts
  <2>4. ASSUME NEW t \in FileIds, attachments'[t].file # 0
        PROVE  /\ attachments'[t].file \in FileIds /\ Stored(attachments'[t].file)
               /\ \A s \in Actors : req'[s].key # files[attachments'[t].file].key
    <3>1. CASE attachments'[t].file = q.file
      <4>1. files[q.file].key = q.key /\ \A s \in Actors : req[s].key = q.key => s = r
        BY <1>0, <1>4, OwnFacts
      <4> QED
        BY <1>4, <2>1, <2>2, <2>3, <3>1, <4>1
    <3>2. CASE attachments'[t] = attachments[t]
      <4>1. /\ attachments[t].file \in FileIds /\ Stored(attachments[t].file)
            /\ \A s \in Actors : req[s].key # files[attachments[t].file].key
        BY <2>4, <3>2, KeyFacts DEF TableParts, AttachedStored
      <4>2. files[attachments[t].file].key # 0
        BY <4>1, KeyFacts, Numbers
      <4> QED
        BY <2>1, <3>2, <4>1, <4>2
    <3> QED
      BY <2>3, <3>1, <3>2
  <2>5. AttachedStored'
    BY <1>1, <2>4 DEF AttachedStored, Stored
  <2> QED
    BY <1>6, <2>5 DEF TableParts
<1>8. CASE UNCHANGED attachments
  BY <1>6, <1>8 DEF TableParts
<1> QED
  BY <1>2, <1>7, <1>8

(* An imported article embeds the image that was stored for it.             *)
LEMMA EntryEmbeds ==
  ASSUME TypeOK, Shaped, TableParts, RequestParts, NEW r \in Requests, ImportEntry(r)
  PROVE  TableParts' /\ RequestParts'
<1> DEFINE q == req[r]
<1>0. r \in Actors /\ q \in Request /\ Shape(q) /\ bodies \in [Docs -> SUBSET Keys]
  BY RequestFacts, Numbers, TableTypes
<1>1. UNCHANGED <<files, aged, attachments, statics>> /\ q.pc = "embed"
  BY EntryEffect
<1>2. PICK q2 \in Request : Shape(q2) /\ Go(r, q2) /\ Ends(q, q2)
  BY EntryEffect
<1>3. \/ \E a \in Articles : bodies' = [bodies EXCEPT ![a] = {q.key}] /\ issued' = issued \cup {q.key}
      \/ UNCHANGED <<bodies, issued>>
  BY EntryEffect
<1>4. q.key # 0 /\ q.file # 0
  BY <1>0, <1>1 DEF Shape, WithKey
<1>6. q.file \in FileIds /\ files[q.file].key = q.key /\ \A k \in Keys : k <= aged => k # q.key
  BY <1>0, <1>4, OwnFacts
<1>5. \A k : EmbeddedNext(k) => Embedded(k) \/ k = q.key
  BY <1>0, <1>3 DEF Embedded, EmbeddedNext
<1>7. \A k \in Keys : k <= aged /\ EmbeddedNext(k) => Embedded(k)
  BY <1>5, <1>6
<1>8. Calms(r, q2)
  <2>1. CASE issued' = issued \cup {q.key}
    BY <1>2, <1>4, <2>1 DEF Calms
  <2>2. CASE UNCHANGED issued
    BY <1>2, <2>2 DEF Calms
  <2> QED
    BY <1>3, <2>1, <2>2
<1>9. /\ RequestParts' /\ VariantsUntaken' /\ StaticsUntaken' /\ AttachedStored'
      /\ (UNCHANGED bodies => EmbeddedHasRow')
  BY <1>0, <1>1, <1>2, <1>7, <1>8, TablesCalm
<1>10. CASE issued' = issued \cup {q.key}
  <2>1. ASSUME NEW k \in Keys, EmbeddedNext(k) PROVE k \in issued' /\ \E i \in FileIds : files'[i].key = k
    BY <1>1, <1>5, <1>6, <1>10, <2>1 DEF TableParts, EmbeddedHasRow
  <2>2. EmbeddedHasRow'
    BY <2>1 DEF EmbeddedHasRow, Embedded, EmbeddedNext
  <2> QED
    BY <1>9, <2>2 DEF TableParts
<1> QED
  BY <1>3, <1>9, <1>10 DEF TableParts

(* A static_files row names a stored file whose key is let go with it, or   *)
(* nothing.                                                                 *)
LEMMA StaticEmbeds ==
  ASSUME TypeOK, Shaped, TableParts, RequestParts, NEW r \in Requests,
         CreateStaticFile(r) \/ UpdateStaticFile(r) \/ DeleteStaticFile(r)
  PROVE  TableParts' /\ RequestParts'
<1> DEFINE q == req[r]
<1>0. r \in Actors /\ q \in Request /\ Shape(q) /\ statics \in StaticTable
  BY RequestFacts, Numbers, TableTypes
<1>1. UNCHANGED <<files, aged, attachments, bodies, issued>>
  BY CreateEffect, SwapEffect, DeleteStaticEffect
<1>2. \E q2 \in Request :
         /\ Shape(q2) /\ Go(r, q2) /\ Calms(r, q2)
         /\ \/ UNCHANGED statics
            \/ statics' = [statics EXCEPT ![q.arg] = 0]
            \/ /\ q2.key = 0 /\ q.key # 0 /\ q.file # 0 /\ q.arg \in Names
               /\ statics' = [statics EXCEPT ![q.arg] = q.file]
  <2>1. CASE CreateStaticFile(r) \/ UpdateStaticFile(r)
    <3>1. q.pc \in {"create", "swap"}
      BY <2>1, CreateEffect, SwapEffect
    <3>2. q.key # 0 /\ q.file # 0 /\ q.arg \in Names
      BY <1>0, <3>1 DEF Shape, WithKey
    <3>3. \E q2 \in Request :
             /\ Shape(q2) /\ Go(r, q2)
             /\ \/ (Ends(q, q2) \/ PurgesOld(q, q2)) /\ statics' = [statics EXCEPT ![q.arg] = q.file]
                \/ PurgesOwn(q, q2) /\ UNCHANGED statics
      BY <2>1, CreateEffect, SwapEffect
    <3>4. ASSUME NEW q2 \in Request, Shape(q2), Ends(q, q2) \/ PurgesOld(q, q2) PROVE q2.key = 0
      BY <3>4 DEF Ends, PurgesOld, Shape, WithKey
    <3> QED
      BY <1>1, <3>2, <3>3, <3>4 DEF Calms
  <2>2. CASE DeleteStaticFile(r)
    <3>1. \E q2 \in Request :
             /\ Shape(q2) /\ Go(r, q2)
             /\ \/ Ends(q, q2) /\ UNCHANGED statics
                \/ PurgesNamed(q, q2) /\ statics' = [statics EXCEPT ![q.arg] = 0] /\ q2.old # 0
      BY <2>2, DeleteStaticEffect
    <3> QED
      BY <1>1, <3>1 DEF Calms
  <2> QED
    BY <2>1, <2>2
<1>3. PICK q2 \in Request :
         /\ Shape(q2) /\ Go(r, q2) /\ Calms(r, q2)
         /\ \/ UNCHANGED statics
            \/ statics' = [statics EXCEPT ![q.arg] = 0]
            \/ /\ q2.key = 0 /\ q.key # 0 /\ q.file # 0 /\ q.arg \in Names
               /\ statics' = [statics EXCEPT ![q.arg] = q.file]
  BY <1>2
<1>4. \A k \in Keys : k <= aged /\ EmbeddedNext(k) => Embedded(k)
  BY <1>1, BodiesStay
<1>5. /\ RequestParts' /\ VariantsUntaken' /\ EmbeddedHasRow' /\ AttachedStored'
      /\ \A k \in Keys : TakenNext(k) => Taken(k)
      /\ q.key # 0 /\ q2.key = 0 => ~TakenNext(q.key)
      /\ (UNCHANGED statics => StaticsUntaken')
  BY <1>0, <1>1, <1>3, <1>4, TablesCalm
<1>6. ASSUME NEW n \in Names, statics'[n] # 0 PROVE Stored(statics'[n]) /\ ~TakenNext(files[statics'[n]].key)
  <2>1. CASE statics'[n] = statics[n]
    <3>1. Stored(statics[n]) /\ ~Taken(files[statics[n]].key) /\ statics[n] \in FileIds
      BY <1>6, <2>1, KeyFacts DEF TableParts, StaticsUntaken
    <3> QED
      BY <1>5, <2>1, <3>1, KeyFacts
  <2>2. CASE statics'[n] = q.file /\ q2.key = 0 /\ q.key # 0 /\ q.file # 0
    <3>1. Stored(q.file) /\ files[q.file].key = q.key
      BY <1>0, <2>2, OwnFacts
    <3> QED
      BY <1>5, <2>2, <3>1
  <2> QED
    BY <1>0, <1>3, <1>6, <2>1, <2>2 DEF StaticTable
<1>7. StaticsUntaken'
  BY <1>1, <1>6 DEF StaticsUntaken, Stored, Taken, TakenNext
<1> QED
  BY <1>5, <1>7 DEF TableParts

(* A new key is in no hand but the request's.                               *)
LEMMA WriteEmbeds ==
  ASSUME TypeOK, Shaped, Fresh, TableParts, RequestParts, NEW r \in Requests, WriteBlob(r)
  PROVE  TableParts' /\ RequestParts'
<1> DEFINE q == req[r]
<1>0. r \in Actors /\ q \in Request /\ Shape(q)
  BY RequestFacts, Numbers
<1>1. UNCHANGED <<files, aged, attachments, statics, bodies, issued>>
  BY WriteEffect
<1>2. PICK q2 \in Request :
         /\ Shape(q2) /\ Go(r, q2)
         /\ \/ /\ used' = used + 1 /\ used' \in Keys /\ q2.cands = q.cands
               /\ \/ q2.pc = "row" /\ q2.key = used' /\ q.pc = "blob"
                  \/ /\ q2.pc = "vrow" /\ q2.key = q.key /\ q2.file = q.file /\ q2.vkey = used'
                     /\ q.pc = "vblob"
            \/ Ends(q, q2)
  BY WriteEffect
<1>3. \A k \in Keys : EmbeddedNext(k) <=> Embedded(k)
  BY <1>1, BodiesStay
<1>4. req'[r] = q2 /\ \A s \in Actors \ {r} : req'[s] = req[s]
  BY <1>0, <1>2, GoShape, RequestFacts DEF Shaped
<1>5. CASE Ends(q, q2)
  BY <1>0, <1>1, <1>2, <1>3, <1>5, TablesCalm DEF Calms, TableParts
<1> DEFINE new == used + 1
<1>6. used \in Nat /\ aged \in Nat /\ aged <= used /\ issued \subseteq 1..used
  BY TableTypes, MediaAssumption
<1>7. ASSUME used' = new PROVE new \notin issued /\ new > aged /\ (\A s \in Actors : req[s].key # new) /\ ~Taken(new)
  <2>1. new \notin issued /\ new > aged
    BY <1>6
  <2>2. ASSUME NEW s \in Actors PROVE req[s].key # new
    BY <1>6, RequestNumbers DEF Fresh
  <2> QED
    BY <2>1, <2>2 DEF Taken
<1>8. \A i \in FileIds : Stored(i) => files[i].key # new
  <2> TAKE i \in FileIds
  <2> HAVE Stored(i)
  <2>1. files[i].key \in Keys
    BY KeyFacts
  <2>2. Known(i, files[i].key)
    BY DEF Known
  <2> QED
    BY <1>6, <2>1, <2>2, Numbers DEF Fresh
<1>9. ASSUME NEW i \in FileIds, NEW k \in Keys, Known(i, k) PROVE k # new
  BY <1>6, <1>9, Numbers DEF Fresh
<1>10. CASE q2.pc = "vrow" /\ q2.key = q.key /\ q2.file = q.file /\ q2.vkey = used' /\ used' = new /\ q2.cands = q.cands
  <2>1. Releases(r, q2)
    BY <1>1, <1>10 DEF Releases
  <2>2. /\ issued \subseteq issued' /\ \A k \in Keys : TakenNext(k) => Taken(k)
        /\ \A s \in Actors : req'[s].key \in {0, req[s].key}
    BY <1>0, <1>2, <2>1, ReleaseFacts DEF RequestParts
  <2>3. ~TakenNext(new)
    BY <1>1, <1>4, <1>7, <1>10 DEF TakenNext, Taken
  <2>4. ASSUME NEW s \in Actors, req'[s].key # 0, req'[s].file # 0
        PROVE  files'[req'[s].file] = [key |-> req'[s].key, of |-> 0]
    <3>1. req'[s].key = req[s].key /\ req'[s].file = req[s].file
      BY <1>4, <1>10
    <3> QED
      BY <1>1, <2>4, <3>1 DEF RequestParts, OwnKeys
  <2>5. \A c \in q2.cands : c.key <= aged
    BY <1>0, <1>10 DEF RequestParts, RemovalsSpare
  <2>6. q2.doomed = {} /\ q2.oldKey = 0
    BY <1>2, <1>10 DEF Shape
  <2>7. RequestParts'
    BY <1>0, <1>1, <1>2, <1>3, <1>10, <2>1, <2>3, <2>4, <2>5, <2>6, RequestsRest
  <2>8. \A i \in FileIds : files[i] # NoFile => files'[i] = files[i]
    BY <1>1
  <2> QED
    BY <1>1, <2>2, <2>7, <2>8, TablesRest DEF TableParts
<1>11. CASE q2.pc = "row" /\ q2.key = used' /\ used' = new /\ q.pc = "blob" /\ q2.cands = q.cands
  <2>1. \A k : TakenNext(k) => Taken(k) \/ k = new
    BY <1>1, <1>4, <1>11 DEF Taken, TakenNext
  <2>2. q2.file = 0 /\ q2.doomed = {} /\ q2.oldKey = 0
    BY <1>2, <1>11 DEF Shape, WithKey
  <2>3. EmbeddedHasRow'
    BY <1>1 DEF TableParts, EmbeddedHasRow, Embedded
  <2>4. VariantsUntaken'
    <3>1. ASSUME NEW i \in FileIds, files[i].of # 0 PROVE ~TakenNext(files[i].key)
      BY <1>8, <2>1, <3>1, RowFacts DEF TableParts, VariantsUntaken
    <3> QED
      BY <1>1, <3>1 DEF VariantsUntaken, Taken, TakenNext
  <2>5. StaticsUntaken'
    <3>1. ASSUME NEW n \in Names, statics[n] # 0 PROVE Stored(statics[n]) /\ ~TakenNext(files[statics[n]].key)
      <4>1. Stored(statics[n]) /\ ~Taken(files[statics[n]].key) /\ statics[n] \in FileIds
        BY <3>1, KeyFacts DEF TableParts, StaticsUntaken
      <4> QED
        BY <1>8, <2>1, <4>1
    <3> QED
      BY <1>1, <3>1 DEF StaticsUntaken, Stored, Taken, TakenNext
  <2>6. AttachedStored'
    <3>1. ASSUME NEW t \in FileIds, attachments[t].file # 0
          PROVE  Stored(attachments[t].file) /\ \A s \in Actors : req'[s].key # files[attachments[t].file].key
      <4>1. /\ Stored(attachments[t].file) /\ attachments[t].file \in FileIds
            /\ \A s \in Actors : req[s].key # files[attachments[t].file].key
        BY <3>1, KeyFacts DEF TableParts, AttachedStored
      <4> QED
        BY <1>4, <1>8, <1>11, <4>1
    <3> QED
      BY <1>1, <3>1 DEF AttachedStored, Stored
  <2>7. OwnKeys'
    <3>1. ASSUME NEW s \in Actors, req'[s].key # 0
          PROVE  /\ req'[s].key \notin issued' /\ req'[s].key > aged'
                 /\ \A t \in Actors : req'[t].key = req'[s].key => t = s
                 /\ req'[s].file # 0 => files'[req'[s].file] = [key |-> req'[s].key, of |-> 0]
      <4>1. CASE s = r
        BY <1>1, <1>4, <1>7, <1>11, <2>2, <4>1
      <4>2. CASE s # r
        <5>1. req'[s] = req[s]
          BY <1>4, <4>2
        <5>2. /\ req[s].key \notin issued /\ req[s].key > aged
              /\ \A t \in Actors : req[t].key = req[s].key => t = s
              /\ req[s].file # 0 => files[req[s].file] = [key |-> req[s].key, of |-> 0]
          BY <3>1, <5>1 DEF RequestParts, OwnKeys
        <5> QED
          BY <1>1, <1>4, <1>7, <1>11, <4>2, <5>1, <5>2
      <4> QED
        BY <4>1, <4>2
    <3> QED
      BY <3>1 DEF OwnKeys
  <2>8. ReadsUntaken'
    <3>1. ASSUME NEW s \in Actors
          PROVE  (req'[s].pc = "vrow" => ~TakenNext(req'[s].vkey)) /\ (req'[s].oldKey # 0 => ~TakenNext(req'[s].oldKey))
      <4>1. CASE s = r
        BY <1>4, <1>11, <2>2, <4>1
      <4>2. CASE s # r
        <5>1. req'[s] = req[s]
          BY <1>4, <4>2
        <5>2. req[s].vkey # new
          BY <1>6, RequestNumbers DEF Fresh
        <5>3. req[s].oldKey # 0 => req[s].oldKey # new
          <6>1. ASSUME req[s].oldKey # 0 PROVE req[s].old \in FileIds /\ req[s].oldKey \in Keys
            BY <6>1, RequestFacts DEF Request, Shape
          <6>2. ASSUME req[s].oldKey # 0 PROVE Known(req[s].old, req[s].oldKey)
            BY DEF Known, Keeps
          <6> QED
            BY <1>9, <6>1, <6>2
        <5>4. (req[s].pc = "vrow" => ~Taken(req[s].vkey)) /\ (req[s].oldKey # 0 => ~Taken(req[s].oldKey))
          BY DEF RequestParts, ReadsUntaken
        <5> QED
          BY <2>1, <5>1, <5>2, <5>3, <5>4
      <4> QED
        BY <4>1, <4>2
    <3> QED
      BY <3>1 DEF ReadsUntaken, Taken, TakenNext
  <2>9. RemovalsSpare'
    <3>1. ASSUME NEW s \in Actors
          PROVE  (\A d \in req'[s].doomed : SparedNext(req'[s], d)) /\ \A c \in req'[s].cands : c.key <= aged'
      <4>1. \A c \in req[s].cands : c.key <= aged
        BY DEF RequestParts, RemovalsSpare
      <4>2. CASE s = r
        BY <1>1, <1>4, <1>11, <2>2, <4>1, <4>2
      <4>3. CASE s # r
        <5>1. req'[s] = req[s]
          BY <1>4, <4>3
        <5>2. ASSUME NEW d \in req[s].doomed PROVE SparedNext(req[s], d)
          <6>1. d.key \in Keys /\ d.id \in FileIds /\ Spared(req[s], d)
            BY <5>2, KeyFacts DEF RequestParts, RemovalsSpare
          <6>2. Known(d.id, d.key)
            BY <5>2 DEF Known, Keeps
          <6>3. d.key # new
            BY <1>9, <6>1, <6>2
          <6> QED
            BY <1>1, <1>3, <2>1, <6>1, <6>3 DEF Spared, SparedNext
        <5> QED
          BY <1>1, <4>1, <5>1, <5>2
      <4> QED
        BY <4>2, <4>3
    <3> QED
      BY <3>1 DEF RemovalsSpare, Spared, SparedNext, Taken, TakenNext, Embedded, EmbeddedNext
  <2> QED
    BY <2>3, <2>4, <2>5, <2>6, <2>7, <2>8, <2>9 DEF TableParts, RequestParts
<1> QED
  BY <1>2, <1>5, <1>10, <1>11

(* A new row is no variant, or one that nobody has the URL of.              *)
LEMMA InsertEmbeds ==
  ASSUME TypeOK, Shaped, TableParts, RequestParts, NEW r \in Requests, InsertRow(r) \/ InsertVariant(r)
  PROVE  TableParts' /\ RequestParts'
<1> DEFINE q == req[r]
<1>0. r \in Actors /\ q \in Request /\ Shape(q)
  BY RequestFacts, Numbers
<1>1. UNCHANGED <<aged, attachments, statics, bodies>> /\ q.pc \in {"row", "vrow"}
  BY InsertEffect, VariantEffect
<1>2. q.key # 0 /\ q.key \in Keys /\ (q.pc = "vrow" => q.file # 0 /\ q.file \in FileIds /\ q.vkey \in Keys)
  BY <1>0, <1>1, KeyFacts DEF Shape, WithKey
<1>3. \E q2 \in Request :
         /\ Shape(q2) /\ Go(r, q2)
         /\ \/ Ends(q, q2) /\ UNCHANGED <<files, issued>>
            \/ /\ \/ Ends(q, q2) /\ issued' = issued \cup {q.key}
                  \/ /\ q2.pc \in {"vblob", "attach", "embed", "lookup"} /\ q2.cands = q.cands
                     /\ q2.key = q.key /\ UNCHANGED issued
               /\ \/ \E id \in FileIds :
                        /\ q.pc = "row" /\ files[id] = NoFile /\ files' = CreateFile(id, q.key, 0)
                        /\ q2.key # 0 => q2.file = id
                  \/ \E id \in FileIds :
                        /\ q.pc = "vrow" /\ files[id] = NoFile /\ files' = CreateFile(id, q.vkey, q.file)
                        /\ q2.key # 0 => q2.file = q.file
                  \/ q.pc = "vrow" /\ UNCHANGED files /\ (q2.key # 0 => q2.file = q.file)
  <2>1. ASSUME NEW q2 \in Request, Shape(q2), Ends(q, q2) PROVE q2.key = 0
    BY <2>1 DEF Ends, Shape, WithKey
  <2>2. CASE InsertRow(r)
    <3>1. q.pc = "row"
      BY <2>2, InsertEffect
    <3>2. PICK q2 \in Request :
             /\ Shape(q2) /\ Go(r, q2)
             /\ \/ \E id \in FileIds :
                      /\ files[id] = NoFile /\ files' = CreateFile(id, q.key, 0)
                      /\ \/ Ends(q, q2) /\ issued' = issued \cup {q.key}
                         \/ /\ q2.pc \in {"vblob", "attach", "embed", "lookup"} /\ q2.cands = q.cands
                            /\ q2.key = q.key /\ q2.file = id /\ UNCHANGED issued
                \/ Ends(q, q2) /\ UNCHANGED <<files, issued>>
      BY <2>2, InsertEffect
    <3> QED
      BY <2>1, <3>1, <3>2
  <2>3. CASE InsertVariant(r)
    <3>1. /\ q.pc = "vrow"
          /\ \/ \E id \in FileIds : files[id] = NoFile /\ files' = CreateFile(id, q.vkey, q.file)
             \/ UNCHANGED files
      BY <2>3, VariantEffect
    <3>2. PICK q2 \in Request :
             /\ Shape(q2) /\ Go(r, q2)
             /\ \/ Ends(q, q2) /\ issued' = issued \cup {q.key}
                \/ /\ q2.pc \in {"attach", "embed", "lookup"} /\ q2.cands = q.cands
                   /\ q2.key = q.key /\ q2.file = q.file /\ UNCHANGED issued
      BY <2>3, VariantEffect
    <3> QED
      BY <2>1, <3>1, <3>2
  <2> QED
    BY <2>2, <2>3
<1>4. PICK q2 \in Request :
         /\ Shape(q2) /\ Go(r, q2)
         /\ \/ Ends(q, q2) /\ UNCHANGED <<files, issued>>
            \/ /\ \/ Ends(q, q2) /\ issued' = issued \cup {q.key}
                  \/ /\ q2.pc \in {"vblob", "attach", "embed", "lookup"} /\ q2.cands = q.cands
                     /\ q2.key = q.key /\ UNCHANGED issued
               /\ \/ \E id \in FileIds :
                        /\ q.pc = "row" /\ files[id] = NoFile /\ files' = CreateFile(id, q.key, 0)
                        /\ q2.key # 0 => q2.file = id
                  \/ \E id \in FileIds :
                        /\ q.pc = "vrow" /\ files[id] = NoFile /\ files' = CreateFile(id, q.vkey, q.file)
                        /\ q2.key # 0 => q2.file = q.file
                  \/ q.pc = "vrow" /\ UNCHANGED files /\ (q2.key # 0 => q2.file = q.file)
  BY <1>3
<1>5. \A k \in Keys : EmbeddedNext(k) <=> Embedded(k)
  BY <1>1, BodiesStay
<1>6. CASE Ends(q, q2) /\ UNCHANGED <<files, issued>>
  BY <1>0, <1>1, <1>4, <1>5, <1>6, TablesCalm DEF Calms, TableParts
<1>14. ASSUME NEW id \in FileIds, NEW k \in Keys, NEW of \in {0} \cup FileIds, files' = CreateFile(id, k, of)
       PROVE  files'[id] = [key |-> k, of |-> of] /\ \A j \in FileIds \ {id} : files'[j] = files[j]
  <2>1. /\ CreateFile(id, k, of)[id] = [key |-> k, of |-> of]
        /\ \A j \in FileIds \ {id} : CreateFile(id, k, of)[j] = files[j]
    BY TableTypes DEF CreateFile, FileTable
  <2> QED
    BY <1>14, <2>1
<1>7. ASSUME \/ Ends(q, q2) /\ issued' = issued \cup {q.key}
             \/ /\ q2.pc \in {"vblob", "attach", "embed", "lookup"} /\ q2.cands = q.cands
                /\ q2.key = q.key /\ UNCHANGED issued,
             NEW id \in FileIds, NEW k \in Keys, NEW of \in {0} \cup FileIds,
             UNCHANGED files \/ (files[id] = NoFile /\ files' = CreateFile(id, k, of)),
             of # 0 => k = q.vkey /\ q.pc = "vrow",
             q2.key # 0 => /\ q2.file \in FileIds
                           /\ files'[q2.file] = [key |-> q.key, of |-> 0]
      PROVE  TableParts' /\ RequestParts'
  <2>1. Releases(r, q2)
    BY <1>2, <1>4, <1>7 DEF Releases, Ends, Shape, WithKey
  <2>2. /\ req'[r] = q2 /\ \A s \in Actors \ {r} : req'[s] = req[s]
        /\ \A s \in Actors : req'[s].key \in {0, req[s].key}
        /\ issued \subseteq issued' /\ \A e \in Keys : TakenNext(e) => Taken(e)
    BY <1>0, <1>4, <2>1, ReleaseFacts DEF RequestParts
  <2>3. /\ \A i \in FileIds : files[i] # NoFile => files'[i] = files[i]
        /\ \A i \in FileIds : files'[i] = files[i] \/ files'[i] = [key |-> k, of |-> of]
    <3>1. CASE UNCHANGED files
      BY <3>1
    <3>2. CASE files[id] = NoFile /\ files' = CreateFile(id, k, of)
      BY <1>14, <3>2
    <3> QED
      BY <1>7, <3>1, <3>2
  <2>4. ASSUME NEW s \in Actors, req'[s].key # 0, req'[s].file # 0
        PROVE  files'[req'[s].file] = [key |-> req'[s].key, of |-> 0]
    <3>1. CASE s = r
      BY <1>7, <2>1, <2>2, <2>4, <3>1 DEF Releases
    <3>2. CASE s # r
      <4>1. req'[s] = req[s]
        BY <2>2, <3>2
      <4>2. files[req[s].file] = [key |-> req[s].key, of |-> 0] /\ req[s].file \in FileIds /\ Stored(req[s].file)
        BY <2>4, <4>1, OwnFacts DEF RequestParts, OwnKeys
      <4> QED
        BY <2>3, <4>1, <4>2 DEF Stored
    <3> QED
      BY <3>1, <3>2
  <2>5. q2.doomed = {} /\ q2.oldKey = 0 /\ q2.pc # "vrow"
    BY <1>4, <1>7 DEF Shape, Ends
  <2>6. \A c \in q2.cands : c.key <= aged
    BY <1>0, <1>7 DEF RequestParts, RemovalsSpare, Ends
  <2>7. RequestParts'
    BY <1>0, <1>1, <1>4, <1>5, <2>1, <2>4, <2>5, <2>6, RequestsRest
  <2>8. VariantsUntaken'
    <3>1. ASSUME NEW i \in FileIds, files'[i].of # 0 PROVE ~TakenNext(files'[i].key)
      <4>1. CASE files'[i] = files[i]
        BY <2>2, <3>1, <4>1, KeyFacts DEF TableParts, VariantsUntaken
      <4>2. CASE files'[i] = [key |-> k, of |-> of]
        <5>1. k = q.vkey /\ q.pc = "vrow" /\ files'[i].key = k
          BY <1>7, <3>1, <4>2
        <5> QED
          BY <1>0, <2>2, <5>1 DEF RequestParts, ReadsUntaken
      <4> QED
        BY <2>3, <4>1, <4>2
    <3> QED
      BY <3>1 DEF VariantsUntaken, Taken, TakenNext
  <2> QED
    BY <1>1, <2>2, <2>3, <2>7, <2>8, TablesRest DEF TableParts
<1>8. q.pc = "vrow" => files[q.file] = [key |-> q.key, of |-> 0] /\ Stored(q.file)
  BY <1>0, <1>2, OwnFacts DEF RequestParts, OwnKeys
<1>9. ASSUME NEW id \in FileIds, q.pc = "row", files[id] = NoFile, files' = CreateFile(id, q.key, 0), q2.key # 0 => q2.file = id
      PROVE  q2.key # 0 => q2.file \in FileIds /\ files'[q2.file] = [key |-> q.key, of |-> 0]
  BY <1>2, <1>9, <1>14
<1>10. ASSUME NEW id \in FileIds, q.pc = "vrow", files[id] = NoFile, files' = CreateFile(id, q.vkey, q.file),
              q2.key # 0 => q2.file = q.file
       PROVE  q2.key # 0 => q2.file \in FileIds /\ files'[q2.file] = [key |-> q.key, of |-> 0]
  <2>1. q.file # id /\ q.file \in FileIds
    BY <1>2, <1>8, <1>10 DEF Stored
  <2>2. files'[q.file] = files[q.file]
    BY <1>2, <1>10, <1>14, <2>1
  <2> QED
    BY <1>8, <1>10, <2>1, <2>2
<1>11. CASE /\ \/ Ends(q, q2) /\ issued' = issued \cup {q.key}
               \/ /\ q2.pc \in {"vblob", "attach", "embed", "lookup"} /\ q2.cands = q.cands
                  /\ q2.key = q.key /\ UNCHANGED issued
            /\ \E id \in FileIds :
                  /\ q.pc = "row" /\ files[id] = NoFile /\ files' = CreateFile(id, q.key, 0)
                  /\ q2.key # 0 => q2.file = id
  <2>1. PICK id \in FileIds : /\ q.pc = "row" /\ files[id] = NoFile /\ files' = CreateFile(id, q.key, 0)
                              /\ q2.key # 0 => q2.file = id
    BY <1>11
  <2>2. q2.key # 0 => q2.file \in FileIds /\ files'[q2.file] = [key |-> q.key, of |-> 0]
    BY <1>9, <2>1
  <2> QED
    BY <1>2, <1>7, <1>11, <2>1, <2>2
<1>12. CASE /\ \/ Ends(q, q2) /\ issued' = issued \cup {q.key}
               \/ /\ q2.pc \in {"vblob", "attach", "embed", "lookup"} /\ q2.cands = q.cands
                  /\ q2.key = q.key /\ UNCHANGED issued
            /\ \E id \in FileIds :
                  /\ q.pc = "vrow" /\ files[id] = NoFile /\ files' = CreateFile(id, q.vkey, q.file)
                  /\ q2.key # 0 => q2.file = q.file
  <2>1. PICK id \in FileIds : /\ q.pc = "vrow" /\ files[id] = NoFile /\ files' = CreateFile(id, q.vkey, q.file)
                              /\ q2.key # 0 => q2.file = q.file
    BY <1>12
  <2>2. q2.key # 0 => q2.file \in FileIds /\ files'[q2.file] = [key |-> q.key, of |-> 0]
    BY <1>10, <2>1
  <2> QED
    BY <1>2, <1>7, <1>12, <2>1, <2>2
<1>13. CASE /\ \/ Ends(q, q2) /\ issued' = issued \cup {q.key}
               \/ /\ q2.pc \in {"vblob", "attach", "embed", "lookup"} /\ q2.cands = q.cands
                  /\ q2.key = q.key /\ UNCHANGED issued
            /\ q.pc = "vrow" /\ UNCHANGED files /\ (q2.key # 0 => q2.file = q.file)
  <2>1. q2.key # 0 => q2.file \in FileIds /\ files'[q2.file] = [key |-> q.key, of |-> 0]
    BY <1>2, <1>8, <1>13
  <2> QED
    BY <1>2, <1>7, <1>13, <2>1
<1> QED
  BY <1>4, <1>6, <1>11, <1>12, <1>13

(* A removal takes no row whose key is embedded, and none that a request    *)
(* still works on: it would have read a key that is nobody's, or an old one.*)
LEMMA DeleteEmbeds ==
  ASSUME TypeOK, Shaped, TableParts, RequestParts, ~mistaken', NEW r \in Actors, DeleteRow(r)
  PROVE  TableParts' /\ RequestParts'
<1> DEFINE q == req[r]
           v == Victim(q)
<1>0. q \in Request /\ Shape(q) /\ files \in FileTable
  BY RequestFacts, TableTypes
<1>1. UNCHANGED <<aged, attachments, statics, bodies, issued>> /\ q.pc = "delete" /\ v \in q.doomed
  BY DeleteEffect
<1>2. PICK q2 \in Request :
         /\ Shape(q2) /\ Go(r, q2)
         /\ \/ /\ ~DeleteRefused(v.id) /\ files' = [files EXCEPT ![v.id] = NoFile]
               /\ mistaken' = (mistaken \/ files[v.id].key \notin {0, v.key})
               /\ q2.pc = "unlink" /\ q2.op = q.op /\ q2.doomed = q.doomed /\ q2.cands = q.cands
            \/ Ends(q, q2) /\ UNCHANGED files
            \/ Skips(q, q2) /\ UNCHANGED files
  BY DeleteEffect
<1>3. \A k \in Keys : EmbeddedNext(k) <=> Embedded(k)
  BY <1>1, BodiesStay
<1>4. CASE (Ends(q, q2) \/ Skips(q, q2)) /\ UNCHANGED files
  BY <1>1, <1>2, <1>3, <1>4, TablesCalm DEF Calms, TableParts
<1>5. CASE /\ ~DeleteRefused(v.id) /\ files' = [files EXCEPT ![v.id] = NoFile]
           /\ mistaken' = (mistaken \/ files[v.id].key \notin {0, v.key})
           /\ q2.pc = "unlink" /\ q2.op = q.op /\ q2.doomed = q.doomed /\ q2.cands = q.cands
  <2>1. v.id \in FileIds /\ v.key \in Keys
    BY <1>0, <1>1, KeyFacts
  <2>2. files[v.id].key = 0 \/ files[v.id].key = v.key
    BY <1>5
  <2>3. ~Taken(v.key) \/ (v.key <= aged /\ ~Embedded(v.key))
    BY <1>1 DEF RequestParts, RemovalsSpare, Spared
  <2>4. q2.key = 0 /\ q2.oldKey = 0 /\ q2.pc # "vrow"
    BY <1>2, <1>5 DEF Shape, WithKey
  <2>5. Releases(r, q2)
    BY <1>1, <2>4 DEF Releases
  <2>6. /\ \A s \in Actors : req'[s].key \in {0, req[s].key}
        /\ \A k \in Keys : TakenNext(k) => Taken(k)
        /\ req'[r] = q2 /\ \A s \in Actors \ {r} : req'[s] = req[s]
    BY <1>2, <2>5, ReleaseFacts DEF RequestParts
  <2>7. \A i \in FileIds : files'[i] = files[i] \/ (i = v.id /\ files'[i] = NoFile)
    BY <1>0, <1>5 DEF FileTable
  <2>8. \A s \in Actors : req[s].key # 0 /\ req[s].file # 0 => req[s].file # v.id
    <3> SUFFICES ASSUME NEW s \in Actors, req[s].key # 0, req[s].file = v.id, req[s].file # 0 PROVE FALSE
      OBVIOUS
    <3>1. req[s].key \in Keys /\ files[v.id].key = req[s].key /\ \A k \in Keys : k <= aged => k # req[s].key
      BY OwnFacts
    <3>2. v.key = req[s].key /\ Taken(v.key)
      BY <2>2, <3>1, Numbers DEF Taken
    <3> QED
      BY <2>1, <2>3, <3>1, <3>2
  <2>9. ASSUME NEW s \in Actors, req'[s].key # 0, req'[s].file # 0
        PROVE  files'[req'[s].file] = [key |-> req'[s].key, of |-> 0]
    <3>1. req'[s] = req[s]
      BY <2>4, <2>6, <2>9
    <3>2. files[req[s].file] = [key |-> req[s].key, of |-> 0] /\ req[s].file \in FileIds /\ req[s].file # v.id
      BY <2>8, <2>9, <3>1, OwnFacts DEF RequestParts, OwnKeys
    <3> QED
      BY <2>7, <3>1, <3>2
  <2>10. ASSUME NEW d \in q2.doomed PROVE SparedNext(q2, d)
    <3>1. d.key \in Keys /\ Spared(q, d)
      BY <1>5, <2>10, KeyFacts DEF RequestParts, RemovalsSpare
    <3> QED
      BY <1>1, <1>3, <2>6, <3>1 DEF Spared, SparedNext
  <2>11. \A c \in q2.cands : c.key <= aged
    BY <1>5 DEF RequestParts, RemovalsSpare
  <2>12. RequestParts'
    BY <1>1, <1>2, <1>3, <2>4, <2>5, <2>9, <2>10, <2>11, RequestsRest
  <2>13. EmbeddedHasRow'
    <3>1. ASSUME NEW k \in Keys, Embedded(k) PROVE k \in issued /\ \E i \in FileIds : files'[i].key = k
      <4>1. PICK i \in FileIds : k \in issued /\ files[i].key = k
        BY <3>1 DEF TableParts, EmbeddedHasRow
      <4>2. CASE i # v.id
        BY <2>7, <4>1, <4>2
      <4>3. CASE i = v.id
        BY <2>2, <2>3, <3>1, <4>1, <4>3, Numbers DEF Taken
      <4> QED
        BY <4>2, <4>3
    <3> QED
      BY <1>1, <3>1 DEF EmbeddedHasRow, Embedded
  <2>14. VariantsUntaken'
    <3>1. ASSUME NEW i \in FileIds, files'[i].of # 0 PROVE ~TakenNext(files'[i].key)
      BY <2>6, <2>7, <3>1, KeyFacts DEF TableParts, VariantsUntaken, NoFile
    <3> QED
      BY <3>1 DEF VariantsUntaken, Taken, TakenNext
  <2>15. ~Named(v.id)
    BY <1>5 DEF DeleteRefused
  <2>16. StaticsUntaken'
    <3>1. ASSUME NEW n \in Names, statics[n] # 0
          PROVE  Stored(statics[n]) /\ files'[statics[n]] = files[statics[n]] /\ ~TakenNext(files[statics[n]].key)
      <4>1. Stored(statics[n]) /\ ~Taken(files[statics[n]].key) /\ statics[n] \in FileIds
        BY <3>1, KeyFacts DEF TableParts, StaticsUntaken
      <4>2. statics[n] # v.id
        BY <2>15 DEF Named, CountStaticFilesForFile
      <4> QED
        BY <2>6, <2>7, <4>1, <4>2, KeyFacts
    <3> QED
      BY <1>1, <3>1 DEF StaticsUntaken, Stored, Taken, TakenNext
  <2>17. AttachedStored'
    <3>1. ASSUME NEW t \in FileIds, attachments[t].file # 0
          PROVE  /\ Stored(attachments[t].file) /\ files'[attachments[t].file] = files[attachments[t].file]
                 /\ \A s \in Actors : req'[s].key # files[attachments[t].file].key
      <4>1. /\ Stored(attachments[t].file) /\ attachments[t].file \in FileIds
            /\ \A s \in Actors : req[s].key # files[attachments[t].file].key
        BY <3>1, KeyFacts DEF TableParts, AttachedStored
      <4>2. attachments[t].file # v.id
        BY <2>15 DEF Named, CountAttachmentsForFile
      <4>3. files[attachments[t].file].key # 0
        BY <4>1, KeyFacts, Numbers
      <4> QED
        BY <2>6, <2>7, <4>1, <4>2, <4>3
    <3> QED
      BY <1>1, <3>1 DEF AttachedStored, Stored
  <2> QED
    BY <2>12, <2>13, <2>14, <2>16, <2>17 DEF TableParts
<1> QED
  BY <1>2, <1>4, <1>5

(* An unlink leaves the rest of the family to remove.                       *)
LEMMA UnlinkEmbeds ==
  ASSUME TypeOK, Shaped, TableParts, RequestParts, NEW r \in Actors, Unlink(r)
  PROVE  TableParts' /\ RequestParts'
<1> DEFINE q == req[r]
<1>0. q \in Request /\ Shape(q)
  BY RequestFacts
<1>1. UNCHANGED <<files, aged, attachments, statics, bodies, issued>> /\ q.pc = "unlink"
  BY UnlinkEffect
<1>2. PICK q2 \in Request :
         /\ Shape(q2) /\ Go(r, q2)
         /\ \/ Ends(q, q2)
            \/ /\ q2.pc = IF q.op = "article" THEN "unlink" ELSE "delete"
               /\ q2.op = q.op /\ q2.cands = q.cands /\ q2.doomed = q.doomed \ {Victim(q)}
  BY UnlinkEffect
<1>3. \A k \in Keys : EmbeddedNext(k) <=> Embedded(k)
  BY <1>1, BodiesStay
<1>4. CASE Ends(q, q2)
  BY <1>1, <1>2, <1>3, <1>4, TablesCalm DEF Calms, TableParts
<1>5. CASE /\ q2.pc = IF q.op = "article" THEN "unlink" ELSE "delete"
           /\ q2.op = q.op /\ q2.cands = q.cands /\ q2.doomed = q.doomed \ {Victim(q)}
  <2>1. q2.key = 0 /\ q2.oldKey = 0 /\ q2.pc # "vrow"
    BY <1>2, <1>5 DEF Shape, WithKey
  <2>2. Releases(r, q2)
    BY <1>1, <2>1 DEF Releases
  <2>3. /\ \A s \in Actors : req'[s].key \in {0, req[s].key}
        /\ \A k \in Keys : TakenNext(k) => Taken(k)
        /\ req'[r] = q2 /\ \A s \in Actors \ {r} : req'[s] = req[s]
    BY <1>2, <2>2, ReleaseFacts DEF RequestParts
  <2>4. ASSUME NEW s \in Actors, req'[s].key # 0, req'[s].file # 0
        PROVE  files'[req'[s].file] = [key |-> req'[s].key, of |-> 0]
    <3>1. req'[s] = req[s]
      BY <2>1, <2>3, <2>4
    <3> QED
      BY <1>1, <2>4, <3>1 DEF RequestParts, OwnKeys
  <2>5. ASSUME NEW d \in q2.doomed PROVE SparedNext(q2, d)
    <3>1. d.key \in Keys /\ Spared(q, d)
      BY <1>5, <2>5, KeyFacts DEF RequestParts, RemovalsSpare
    <3>2. CASE q.op = "article"
      BY <1>5, <3>2 DEF SparedNext
    <3>3. CASE q.op # "article"
      BY <1>1, <1>3, <2>3, <3>1, <3>3 DEF Spared, SparedNext
    <3> QED
      BY <3>2, <3>3
  <2>6. \A c \in q2.cands : c.key <= aged
    BY <1>5 DEF RequestParts, RemovalsSpare
  <2>7. RequestParts'
    BY <1>1, <1>2, <1>3, <2>1, <2>2, <2>4, <2>5, <2>6, RequestsRest
  <2>8. \A i \in FileIds : files[i] # NoFile => files'[i] = files[i]
    BY <1>1
  <2> QED
    BY <1>1, <2>3, <2>7, <2>8, TablesRest DEF TableParts
<1> QED
  BY <1>2, <1>4, <1>5

(* What the destruction of an article takes with it nothing else names.     *)
LEMMA DestroyEmbeds ==
  ASSUME TypeOK, Shaped, TableParts, RequestParts, NEW r \in Requests, DestroyArticle(r)
  PROVE  TableParts' /\ RequestParts'
<1> DEFINE q == req[r]
<1>0. r \in Actors /\ 0 \notin FileIds /\ bodies \in [Docs -> SUBSET Keys] /\ req \in [Actors -> Request]
  BY Numbers, TableTypes, RequestFacts
<1>1. UNCHANGED <<aged, statics, issued>> /\ q = Idle
  BY DestroyEffect
<1>2. PICK a \in articles, D \in SUBSET FileIds :
         /\ bodies' = [bodies EXCEPT ![a] = {}]
         /\ attachments' = DeleteAttachmentsForRecord(a)
         /\ files' = [i \in FileIds |-> IF i \in D \/ files[i].of \in D THEN NoFile ELSE files[i]]
         /\ \A i \in D : /\ Stored(i) /\ i \in Attached(a)
                         /\ \A j \in {i} \cup ListFileVariants(i) : ~FileReferenced(j, attachments', bodies')
         /\ \/ D = {} /\ UNCHANGED req
            \/ \E q2 \in Request :
                  /\ Shape(q2) /\ Go(r, q2) /\ q2.pc = "unlink" /\ q2.op = "article" /\ q2.cands = {}
                  /\ q2.doomed = UNION {Family(i, files[i].key) : i \in D}
  BY DestroyEffect
<1>3. \E q2 \in Request : /\ Shape(q2) /\ Go(r, q2) /\ q2.cands = {} /\ q2.key = 0 /\ q2.oldKey = 0 /\ q2.pc # "vrow"
                          /\ q2.doomed = {} \/ (q2.pc = "unlink" /\ q2.op = "article")
  <2>1. CASE UNCHANGED req
    <3>1. Go(r, Idle)
      BY <1>0, <1>1, <2>1 DEF Go
    <3>2. Idle.pc = "idle" /\ Idle.cands = {} /\ Idle.key = 0 /\ Idle.oldKey = 0 /\ Idle.doomed = {}
      BY DEF Idle
    <3> QED
      BY <3>1, <3>2, IdleShape
  <2>2. CASE \E q2 \in Request : /\ Shape(q2) /\ Go(r, q2) /\ q2.pc = "unlink" /\ q2.op = "article" /\ q2.cands = {}
    <3>1. PICK q2 \in Request : Shape(q2) /\ Go(r, q2) /\ q2.pc = "unlink" /\ q2.op = "article" /\ q2.cands = {}
      BY <2>2
    <3>2. q2.key = 0 /\ q2.oldKey = 0
      BY <3>1 DEF Shape, WithKey
    <3> QED
      BY <3>1, <3>2
  <2> QED
    BY <1>2, <2>1, <2>2
<1>4. PICK q2 \in Request : /\ Shape(q2) /\ Go(r, q2) /\ q2.cands = {} /\ q2.key = 0 /\ q2.oldKey = 0 /\ q2.pc # "vrow"
                            /\ q2.doomed = {} \/ (q2.pc = "unlink" /\ q2.op = "article")
  BY <1>3
<1>5. Releases(r, q2)
  BY <1>1, <1>4 DEF Releases
<1>6. /\ \A s \in Actors : req'[s].key \in {0, req[s].key}
      /\ \A k \in Keys : TakenNext(k) => Taken(k)
      /\ req'[r] = q2 /\ \A s \in Actors \ {r} : req'[s] = req[s]
  BY <1>0, <1>4, <1>5, ReleaseFacts DEF RequestParts
<1>7. \A k : EmbeddedNext(k) => Embedded(k)
  BY <1>0, <1>2 DEF Embedded, EmbeddedNext
<1>8. \A i \in FileIds : files'[i] = files[i] \/ ((i \in D \/ files[i].of \in D) /\ files'[i] = NoFile)
  BY <1>2
<1>9. ASSUME NEW j \in FileIds, j \in D \/ files[j].of \in D
      PROVE  ~FileReferenced(j, attachments', bodies')
  <2>1. CASE j \in D
    BY <1>2, <2>1
  <2>2. CASE files[j].of \in D
    <3>1. j \in ListFileVariants(files[j].of)
      BY <1>0, <2>2, RowFacts DEF ListFileVariants
    <3> QED
      BY <1>2, <2>2, <3>1
  <2> QED
    BY <1>9, <2>1, <2>2
<1>10. \A j \in FileIds : files'[j] # files[j] =>
          /\ \A t \in FileIds : attachments'[t].file # j
          /\ \A n \in Names : statics[n] # j
          /\ ~EmbeddedNext(files[j].key)
  <2> TAKE j \in FileIds
  <2> HAVE files'[j] # files[j]
  <2>1. ~FileReferenced(j, attachments', bodies')
    BY <1>8, <1>9
  <2> QED
    BY <2>1 DEF FileReferenced, CountAttachmentsForFile, CountStaticFilesForFile, CountFileKeyContentReferences, EmbeddedNext
<1>11. EmbeddedHasRow'
  <2>1. ASSUME NEW k \in Keys, EmbeddedNext(k) PROVE k \in issued /\ \E i \in FileIds : files'[i].key = k
    <3>1. PICK i \in FileIds : k \in issued /\ files[i].key = k
      BY <1>7, <2>1 DEF TableParts, EmbeddedHasRow
    <3>2. files'[i] = files[i]
      BY <1>10, <2>1, <3>1
    <3> QED
      BY <3>1, <3>2
  <2> QED
    BY <1>1, <2>1 DEF EmbeddedHasRow, Embedded, EmbeddedNext
<1>12. VariantsUntaken'
  <2>1. ASSUME NEW i \in FileIds, files'[i].of # 0 PROVE ~TakenNext(files'[i].key)
    BY <1>6, <1>8, <2>1, KeyFacts DEF TableParts, VariantsUntaken, NoFile
  <2> QED
    BY <2>1 DEF VariantsUntaken, Taken, TakenNext
<1>13. StaticsUntaken'
  <2>1. ASSUME NEW n \in Names, statics[n] # 0
        PROVE  Stored(statics[n]) /\ files'[statics[n]] = files[statics[n]] /\ ~TakenNext(files[statics[n]].key)
    <3>1. Stored(statics[n]) /\ ~Taken(files[statics[n]].key) /\ statics[n] \in FileIds
      BY <2>1, KeyFacts DEF TableParts, StaticsUntaken
    <3>2. files'[statics[n]] = files[statics[n]]
      BY <1>10, <3>1
    <3> QED
      BY <1>6, <3>1, <3>2, KeyFacts
  <2> QED
    BY <1>1, <2>1 DEF StaticsUntaken, Stored, Taken, TakenNext
<1>14. \A t \in FileIds : attachments'[t] = attachments[t] \/ attachments'[t].file = 0
  BY <1>2, DetachFacts DEF NoAttachment
<1>15. AttachedStored'
  <2>1. ASSUME NEW t \in FileIds, attachments'[t].file # 0
        PROVE  /\ Stored(attachments'[t].file) /\ files'[attachments'[t].file] = files[attachments'[t].file]
               /\ \A s \in Actors : req'[s].key # files[attachments'[t].file].key
    <3>1. /\ attachments'[t] = attachments[t] /\ Stored(attachments[t].file) /\ attachments[t].file \in FileIds
          /\ \A s \in Actors : req[s].key # files[attachments[t].file].key
      BY <1>14, <2>1, KeyFacts DEF TableParts, AttachedStored
    <3>2. files'[attachments[t].file] = files[attachments[t].file]
      BY <1>10, <3>1
    <3>3. files[attachments[t].file].key # 0
      BY <3>1, KeyFacts, Numbers
    <3> QED
      BY <1>6, <3>1, <3>2, <3>3
  <2> QED
    BY <2>1 DEF AttachedStored, Stored
<1>16. ASSUME NEW s \in Actors, req[s].key # 0, req[s].file # 0 PROVE files'[req[s].file] = files[req[s].file]
  <2>1. /\ req[s].file \in FileIds /\ files[req[s].file].key = req[s].key /\ files[req[s].file].of = 0
    BY <1>16, OwnFacts
  <2>2. ASSUME req[s].file \in D PROVE FALSE
    <3>1. PICK t \in FileIds : attachments[t].file = req[s].file
      BY <1>2, <2>2 DEF Attached
    <3> QED
      BY <1>16, <2>1, <3>1 DEF TableParts, AttachedStored
  <2>3. files[req[s].file].of \notin D
    BY <1>0, <2>1
  <2> QED
    BY <1>8, <2>1, <2>2, <2>3
<1>17. ASSUME NEW s \in Actors, req'[s].key # 0, req'[s].file # 0
       PROVE  files'[req'[s].file] = [key |-> req'[s].key, of |-> 0]
  <2>1. req'[s] = req[s]
    BY <1>4, <1>6, <1>17
  <2> QED
    BY <1>16, <1>17, <2>1 DEF RequestParts, OwnKeys
<1>18. \A d \in q2.doomed : SparedNext(q2, d)
  BY <1>4 DEF SparedNext
<1>19. RequestParts'
  BY <1>0, <1>1, <1>4, <1>5, <1>7, <1>17, <1>18, RequestsRest
<1> QED
  BY <1>11, <1>12, <1>13, <1>15, <1>19 DEF TableParts

(* A document embeds what is served, and less than a day old.               *)
LEMMA SaveEmbeds ==
  ASSUME TypeOK, Shaped, TableParts, RequestParts, SaveDocument
  PROVE  TableParts' /\ RequestParts'
<1>1. UNCHANGED <<files, aged, attachments, statics, req, issued>>
  BY DEF SaveDocument
<1>2. \A k \in Keys : TakenNext(k) <=> Taken(k)
  BY <1>1 DEF Taken, TakenNext
<1>3. aged \in Nat /\ bodies \in [Docs -> SUBSET Keys] /\ articles \subseteq Articles /\ issued \subseteq Nat
  BY TableTypes, MediaAssumption
<1>4. PICK doc \in articles \cup {Page}, e \in issued :
         \/ Served(e) /\ e > aged /\ bodies' = [bodies EXCEPT ![doc] = @ \cup {e}]
         \/ bodies' = [bodies EXCEPT ![doc] = @ \ {e}]
  BY DEF SaveDocument
<1>5. \A k : EmbeddedNext(k) => Embedded(k) \/ (k = e /\ Served(e) /\ e > aged)
  BY <1>3, <1>4 DEF Embedded, EmbeddedNext, Docs
<1>6. EmbeddedHasRow'
  <2>1. ASSUME NEW k \in Keys, EmbeddedNext(k) PROVE k \in issued /\ \E i \in FileIds : files[i].key = k
    <3>1. CASE Embedded(k)
      BY <3>1 DEF TableParts, EmbeddedHasRow
    <3>2. CASE k = e /\ Served(e)
      BY <3>2 DEF Served, GetFileByKey
    <3> QED
      BY <1>5, <2>1, <3>1, <3>2
  <2> QED
    BY <1>1, <2>1 DEF EmbeddedHasRow, Embedded, EmbeddedNext
<1>7. VariantsUntaken' /\ StaticsUntaken' /\ AttachedStored' /\ OwnKeys' /\ ReadsUntaken'
  BY <1>1 DEF TableParts, RequestParts, VariantsUntaken, StaticsUntaken, AttachedStored, OwnKeys, ReadsUntaken, Stored, Taken
<1>8. RemovalsSpare'
  <2>1. ASSUME NEW s \in Actors, NEW d \in req[s].doomed PROVE SparedNext(req[s], d)
    <3>1. d.key \in Keys /\ Spared(req[s], d)
      BY KeyFacts DEF RequestParts, RemovalsSpare
    <3>2. d.key <= aged => ~(d.key = e /\ e > aged)
      BY <1>3
    <3> QED
      BY <1>1, <1>2, <1>5, <3>1, <3>2 DEF Spared, SparedNext
  <2>2. \A s \in Actors : \A c \in req[s].cands : c.key <= aged
    BY DEF RequestParts, RemovalsSpare
  <2> QED
    BY <1>1, <2>1, <2>2 DEF RemovalsSpare, Spared, SparedNext, Taken, TakenNext, Embedded, EmbeddedNext
<1> QED
  BY <1>6, <1>7, <1>8 DEF TableParts, RequestParts

(* No request outlives a day or a crash.                                    *)
LEMMA IdleEmbeds ==
  ASSUME TypeOK, Shaped, TableParts, ADayPasses \/ Crash
  PROVE  TableParts' /\ RequestParts'
<1>1. UNCHANGED <<files, attachments, statics, bodies, issued>> /\ \A s \in Actors : req'[s] = Idle
  <2>1. CASE ADayPasses
    BY <2>1 DEF ADayPasses
  <2>2. CASE Crash
    BY <2>2, CrashEffect DEF Steady
  <2> QED
    BY <2>1, <2>2
<1>2. Idle.key = 0 /\ Idle.pc = "idle" /\ Idle.oldKey = 0 /\ Idle.doomed = {} /\ Idle.cands = {}
  BY DEF Idle
<1>3. RequestParts'
  BY <1>1, <1>2 DEF RequestParts, OwnKeys, ReadsUntaken, RemovalsSpare
<1>4. /\ \A s \in Actors : req'[s].key \in {0, req[s].key}
      /\ \A i \in FileIds : files[i] # NoFile => files'[i] = files[i]
      /\ issued \subseteq issued'
  BY <1>1, <1>2
<1>5. ASSUME NEW k \in Keys, TakenNext(k) PROVE Taken(k)
  BY <1>1, <1>2, <1>5, Numbers DEF Taken, TakenNext
<1> QED
  BY <1>1, <1>3, <1>4, <1>5, TablesRest DEF TableParts

(* The sweep reads old rows, and removes those that no content names.       *)
LEMMA SweepEmbeds ==
  ASSUME TypeOK, Shaped, TableParts, RequestParts, StartReaper \/ ExamineCandidate
  PROVE  TableParts' /\ RequestParts'
<1> DEFINE q == req[Reaper]
<1>0. Reaper \in Actors
  BY Numbers
<1>1. UNCHANGED <<files, aged, attachments, statics, bodies, issued>>
  BY ReaperEffect, ExamineEffect DEF Steady
<1>2. \A k \in Keys : EmbeddedNext(k) <=> Embedded(k)
  BY <1>1, BodiesStay
<1>3. \A i \in FileIds : files[i] # NoFile => files'[i] = files[i]
  BY <1>1
<1>4. CASE StartReaper
  <2>1. PICK q2 \in Request :
               /\ Shape(q2) /\ Go(Reaper, q2) /\ q2.pc \in {"idle", "examine"}
               /\ \A c \in q2.cands : c.key <= aged
    BY <1>4, ReaperEffect
  <2>2. q2.key = 0 /\ q2.oldKey = 0 /\ q2.doomed = {} /\ q2.pc # "vrow"
    BY <2>1 DEF Shape, WithKey
  <2>3. Releases(Reaper, q2)
    BY <1>1, <2>2 DEF Releases
  <2>4. /\ \A s \in Actors : req'[s].key \in {0, req[s].key}
        /\ issued \subseteq issued' /\ \A k \in Keys : TakenNext(k) => Taken(k)
        /\ req'[Reaper] = q2 /\ \A s \in Actors \ {Reaper} : req'[s] = req[s]
    BY <1>0, <2>1, <2>3, ReleaseFacts DEF RequestParts
  <2>5. ASSUME NEW s \in Actors, req'[s].key # 0, req'[s].file # 0
        PROVE  files'[req'[s].file] = [key |-> req'[s].key, of |-> 0]
    <3>1. req'[s] = req[s]
      BY <2>2, <2>4, <2>5
    <3> QED
      BY <1>1, <2>5, <3>1 DEF RequestParts, OwnKeys
  <2>6. RequestParts'
    BY <1>0, <1>1, <1>2, <2>1, <2>2, <2>3, <2>5, RequestsRest
  <2> QED
    BY <1>1, <1>3, <2>4, <2>6, TablesRest DEF TableParts
<1>5. CASE ExamineCandidate
  <2>1. PICK q2 \in Request :
               /\ Shape(q2) /\ Go(Reaper, q2)
               /\ \/ Ends(q, q2)
                  \/ \E c \in q.cands :
                        /\ Removes(q, q2, c.id, c.key) /\ c.id \in FileIds /\ c.key \in Keys
                        /\ \A d \in Family(c.id, c.key) : ~CountFileKeyContentReferences(d.key, bodies)
    BY <1>5, ExamineEffect
  <2>2. \A k : CountFileKeyContentReferences(k, bodies) <=> EmbeddedNext(k)
    BY <1>1 DEF CountFileKeyContentReferences, EmbeddedNext
  <2>3. \A c \in q.cands : c.key <= aged
    BY <1>0 DEF RequestParts, RemovalsSpare
  <2>4. Calms(Reaper, q2)
    <3>1. CASE Ends(q, q2)
      BY <1>1, <3>1 DEF Calms
    <3>2. ASSUME NEW c \in q.cands, Removes(q, q2, c.id, c.key), c.id \in FileIds, c.key \in Keys,
                 \A d \in Family(c.id, c.key) : ~CountFileKeyContentReferences(d.key, bodies)
          PROVE  Calms(Reaper, q2)
      BY <1>1, <2>2, <2>3, <3>2 DEF Calms
    <3> QED
      BY <2>1, <3>1, <3>2
  <2> QED
    BY <1>0, <1>1, <1>2, <2>1, <2>4, TablesCalm DEF TableParts
<1> QED
  BY <1>4, <1>5

(* The other steps leave files, documents and requests as they are.         *)
LEMMA TransferEmbeds ==
  ASSUME TableParts, RequestParts, UNCHANGED <<files, aged, attachments, statics, bodies, req, issued>>
  PROVE  TableParts' /\ RequestParts'
<1>1. /\ \A k : Taken(k)' <=> Taken(k)
      /\ \A k : Embedded(k)' <=> Embedded(k)
  BY DEF Taken, Embedded
<1>2. EmbeddedHasRow' /\ VariantsUntaken' /\ StaticsUntaken' /\ AttachedStored'
  BY DEF TableParts, EmbeddedHasRow, VariantsUntaken, StaticsUntaken, AttachedStored, Stored, Taken, Embedded
<1>3. OwnKeys' /\ ReadsUntaken' /\ RemovalsSpare'
  BY DEF RequestParts, OwnKeys, ReadsUntaken, RemovalsSpare, Spared, Taken, Embedded
<1> QED
  BY <1>2, <1>3 DEF TableParts, RequestParts

(* Ids that keep their rows kept them before.                               *)
LEMMA KeptBefore ==
  ASSUME RowInv, [Next]_vars, ~merged', ~mistaken'
  PROVE  ~merged /\ ~mistaken /\ unrestored' \subseteq unrestored
<1>1. merged \in BOOLEAN /\ mistaken \in BOOLEAN
  BY DEF RowInv, TypeOK, FilesTypeOK
<1>2. CASE \E r \in Requests : RequestStep(r) /\ UNCHANGED bundleVars
  <2>1. PICK r \in Requests : RequestStep(r) /\ UNCHANGED bundleVars
    BY <1>2
  <2>2. CASE PurgeStoredFile(r)
    BY <1>1, <2>1, <2>2 DEF PurgeStoredFile, bundleVars
  <2>3. CASE ~PurgeStoredFile(r)
    <3>1. UNCHANGED mistaken
      BY <2>1, <2>3 DEF RequestStep, Upload, StaticUpload, ImportEntryImage, Begin, WriteBlob, InsertRow, InsertVariant,
           AttachUpload, ImportEntry, FindStatic, CreateStaticFile, GetFileForStaticFilename, UpdateStaticFile,
           StaticDestroy, DeleteStaticFile, DestroyArticle
    <3> QED
      BY <2>1, <3>1 DEF bundleVars
  <2> QED
    BY <2>2, <2>3
<1>3. CASE \E r \in Actors : (DeleteRow(r) \/ Unlink(r)) /\ UNCHANGED bundleVars
  BY <1>1, <1>3 DEF DeleteRow, Unlink, bundleVars
<1>4. CASE (SaveDocument \/ ADayPasses \/ StartReaper \/ ExamineCandidate) /\ UNCHANGED bundleVars
  <2>1. UNCHANGED <<mistaken, merged, unrestored>>
    BY <1>4 DEF SaveDocument, ADayPasses, StartReaper, ExamineCandidate, bundleVars
  <2> QED
    BY <2>1
<1>5. CASE VacuumInto \/ WalkBlobs \/ PackBlob \/ RenameBundle \/ StartImport
  <2>1. UNCHANGED <<mistaken, merged, unrestored>>
    BY <1>5 DEF VacuumInto, WalkBlobs, PackBlob, RenameBundle, StartImport, OnlyTransfer
  <2> QED
    BY <2>1
<1>6. CASE CopyTables \/ RestoreBlob
  <2>1. CASE CopyTables
    <3>1. merged' = TRUE \/ UNCHANGED <<mistaken, merged, unrestored>>
      BY <2>1 DEF CopyTables, OnlyTransfer
    <3> QED
      BY <3>1
  <2>2. CASE RestoreBlob
    <3>1. UNCHANGED <<mistaken, merged>> /\ unrestored' \subseteq unrestored
      BY <2>2 DEF RestoreBlob
    <3> QED
      BY <3>1
  <2> QED
    BY <1>6, <2>1, <2>2
<1>7. CASE CrashAll
  <2>1. UNCHANGED <<mistaken, merged, unrestored>>
    BY <1>7 DEF CrashAll, Crash, OnlyTransfer
  <2> QED
    BY <2>1
<1>8. CASE UNCHANGED vars
  BY <1>8 DEF vars, fileVars, bundleVars
<1> QED
  BY <1>2, <1>3, <1>4, <1>5, <1>6, <1>7, <1>8 DEF Next

(* Every step that changes no row under an id keeps what is embedded.       *)
LEMMA StepEmbeds ==
  ASSUME RowInv, EmbedInv, [Next]_vars
  PROVE  EmbedInv'
<1> SUFFICES ASSUME ~merged', ~mistaken' PROVE unrestored' = {} /\ TableParts' /\ RequestParts'
  BY DEF EmbedInv, IdsKeptTheirRows
<1>0. TypeOK /\ Shaped /\ Fresh
  BY DEF RowInv
<1>1. ~merged /\ ~mistaken /\ unrestored' \subseteq unrestored
  BY KeptBefore
<1>2. unrestored' = {} /\ TableParts /\ RequestParts
  BY <1>1 DEF EmbedInv, IdsKeptTheirRows
<1> SUFFICES TableParts' /\ RequestParts'
  BY <1>2
<1>3. CASE \E r \in Requests : RequestStep(r) /\ UNCHANGED bundleVars
  <2>1. PICK r \in Requests : RequestStep(r)
    BY <1>3
  <2>2. CASE \/ Upload(r) \/ StaticUpload(r) \/ ImportEntryImage(r) \/ StaticDestroy(r)
             \/ FindStatic(r) \/ GetFileForStaticFilename(r) \/ PurgeStoredFile(r)
    BY <1>0, <1>2, <2>2, QuietEmbeds
  <2>3. CASE WriteBlob(r)
    BY <1>0, <1>2, <2>3, WriteEmbeds
  <2>4. CASE InsertRow(r) \/ InsertVariant(r)
    BY <1>0, <1>2, <2>4, InsertEmbeds
  <2>5. CASE AttachUpload(r)
    BY <1>0, <1>2, <2>5, AttachEmbeds
  <2>6. CASE ImportEntry(r)
    BY <1>0, <1>2, <2>6, EntryEmbeds
  <2>7. CASE CreateStaticFile(r) \/ UpdateStaticFile(r) \/ DeleteStaticFile(r)
    BY <1>0, <1>2, <2>7, StaticEmbeds
  <2>8. CASE DestroyArticle(r)
    BY <1>0, <1>2, <2>8, DestroyEmbeds
  <2> QED
    BY <2>1, <2>2, <2>3, <2>4, <2>5, <2>6, <2>7, <2>8 DEF RequestStep
<1>4. CASE \E r \in Actors : (DeleteRow(r) \/ Unlink(r)) /\ UNCHANGED bundleVars
  <2>1. PICK r \in Actors : DeleteRow(r) \/ Unlink(r)
    BY <1>4
  <2> QED
    BY <1>0, <1>2, <2>1, DeleteEmbeds, UnlinkEmbeds
<1>5. CASE SaveDocument
  BY <1>0, <1>2, <1>5, SaveEmbeds
<1>6. CASE ADayPasses \/ Crash
  BY <1>0, <1>2, <1>6, IdleEmbeds
<1>7. CASE StartReaper \/ ExamineCandidate
  BY <1>0, <1>2, <1>7, SweepEmbeds
<1>8. CASE \/ VacuumInto \/ WalkBlobs \/ PackBlob \/ RenameBundle \/ StartImport \/ RestoreBlob \/ UNCHANGED vars
           \/ transfer # Off /\ OnlyTransfer
  <2>1. UNCHANGED <<files, aged, attachments, statics, bodies, req, issued>>
    BY <1>8 DEF VacuumInto, WalkBlobs, PackBlob, RenameBundle, StartImport, RestoreBlob, OnlyTransfer, vars, fileVars
  <2> QED
    BY <1>2, <2>1, TransferEmbeds
<1>9. CASE CopyTables
  <2>1. OnlyTransfer
    BY <1>9 DEF CopyTables
  <2>2. UNCHANGED <<files, aged, attachments, statics, bodies, req, issued>>
    BY <2>1 DEF OnlyTransfer
  <2> QED
    BY <1>2, <2>2, TransferEmbeds
<1>10. CASE CrashAll
  BY <1>6, <1>8, <1>10 DEF CrashAll
<1> QED
  BY <1>3, <1>4, <1>5, <1>6, <1>7, <1>8, <1>9, <1>10 DEF Next

(* Nothing is embedded, and no request under way, in the beginning.         *)
LEMMA InitEmbeds == Init => EmbedInv
<1> SUFFICES ASSUME Init PROVE unrestored = {} /\ TableParts /\ RequestParts
  BY DEF EmbedInv
<1>1. /\ files = [i \in FileIds |-> NoFile] /\ attachments = [t \in FileIds |-> NoAttachment]
      /\ statics = [n \in Names |-> 0] /\ bodies = [d \in Docs |-> {}]
      /\ req = [r \in Actors |-> Idle] /\ unrestored = {}
  BY DEF Init, FilesInit
<1>2. Idle.key = 0 /\ Idle.pc = "idle" /\ Idle.oldKey = 0 /\ Idle.doomed = {} /\ Idle.cands = {}
  BY DEF Idle
<1>3. TableParts
  BY <1>1 DEF TableParts, EmbeddedHasRow, Embedded, VariantsUntaken, StaticsUntaken, AttachedStored, NoFile, NoAttachment
<1>4. RequestParts
  BY <1>1, <1>2 DEF RequestParts, OwnKeys, ReadsUntaken, RemovalsSpare
<1> QED
  BY <1>1, <1>3, <1>4

(* While ids keep their rows, a URL that content embeds within a day of the *)
(* upload has its row and its blob, whatever is uploaded, attached,         *)
(* replaced, destroyed, swept, exported or crashes in between               *)
(* (cleanup.go:204, articles.go:582).                                       *)
THEOREM EmbeddedStaysServed == Spec => []EmbeddedIsServed
<1>1. Init => RowInv /\ EmbedInv
  BY InitRows, InitEmbeds
<1>2. RowInv /\ EmbedInv /\ [Next]_vars => RowInv' /\ EmbedInv'
  BY StepRows, StepEmbeds
<1>3. ASSUME RowInv, EmbedInv PROVE EmbeddedIsServed
  <2> SUFFICES ASSUME IdsKeptTheirRows, NEW d \in Docs, NEW k \in Keys, k \in bodies[d] PROVE Served(k)
    BY DEF EmbeddedIsServed
  <2>1. unrestored = {} /\ TableParts
    BY <1>3 DEF EmbedInv
  <2>2. PICK i \in FileIds : files[i].key = k
    BY <2>1 DEF TableParts, EmbeddedHasRow, Embedded
  <2>3. Stored(i)
    BY <1>3, <2>2, RowFacts, Numbers DEF RowInv
  <2>4. k \in blobs
    BY <1>3, <2>1, <2>2, <2>3 DEF RowInv, RowHasBlob
  <2> QED
    BY <2>2, <2>4 DEF Served, GetFileByKey
<1> QED
  BY <1>1, <1>2, <1>3, PTL DEF Spec

-----------------------------------------------------------------------------
(* Nothing is forgotten.                                                    *)

(* What the parts say of the next state.                                    *)
LEMMA ForgetNext ==
  /\ VariantsRooted' <=>
        \A i \in FileIds : files'[i].of # 0 => files'[files'[i].of] # NoFile /\ files'[files'[i].of].of = 0
  /\ AttachedIssued' <=>
        \A t \in FileIds : attachments'[t].file # 0 =>
            files'[attachments'[t].file].key \in issued' /\ files'[attachments'[t].file].of = 0
  /\ StaticsOriginal' <=> \A n \in Names : statics'[n] # 0 => files'[statics'[n]].of = 0
  /\ RequestsWhole' <=> \A s \in Actors : Whole(files', lost', req'[s])
  /\ RowsCovered' <=>
        \A i \in FileIds : i # 0 /\ files'[i] # NoFile =>
            \/ files'[Root(files', i)].key \in issued' \/ files'[i].key \in lost'
            \/ \E n \in Names : statics'[n] = Root(files', i)
            \/ \E s \in Actors : Covers(files', req'[s], i)
  /\ BlobsCovered' <=>
        \A k \in blobs' : \/ k \in lost' \/ (\E i \in FileIds : files'[i].key = k)
                          \/ \E s \in Actors : Works(req'[s], k)
<1>1. VariantsRooted' <=>
        \A i \in FileIds : files'[i].of # 0 => files'[files'[i].of] # NoFile /\ files'[files'[i].of].of = 0
  BY DEF VariantsRooted, Stored
<1>2. AttachedIssued' <=>
        \A t \in FileIds : attachments'[t].file # 0 =>
            files'[attachments'[t].file].key \in issued' /\ files'[attachments'[t].file].of = 0
  BY DEF AttachedIssued
<1>3. StaticsOriginal' <=> \A n \in Names : statics'[n] # 0 => files'[statics'[n]].of = 0
  BY DEF StaticsOriginal
<1>4. RequestsWhole' <=> \A s \in Actors : Whole(files', lost', req'[s])
  BY DEF RequestsWhole
<1>5. RowsCovered' <=>
        \A i \in FileIds : i # 0 /\ files'[i] # NoFile =>
            \/ files'[Root(files', i)].key \in issued' \/ files'[i].key \in lost'
            \/ \E n \in Names : statics'[n] = Root(files', i)
            \/ \E s \in Actors : Covers(files', req'[s], i)
  BY DEF RowsCovered, Stored
<1>6. BlobsCovered' <=>
        \A k \in blobs' : \/ k \in lost' \/ (\E i \in FileIds : files'[i].key = k)
                          \/ \E s \in Actors : Works(req'[s], k)
  BY DEF BlobsCovered
<1> QED
  BY <1>1, <1>2, <1>3, <1>4, <1>5, <1>6

(* The root of a stored row is stored, and is no variant.                   *)
LEMMA RootFacts ==
  ASSUME TypeOK, VariantsRooted, NEW i \in FileIds, Stored(i)
  PROVE  /\ Root(files, i) \in FileIds /\ Root(files, i) # 0 /\ Stored(Root(files, i)) /\ files[Root(files, i)].of = 0
         /\ files[Root(files, i)].key \in Keys /\ files[i].key \in Keys
         /\ Root(files, i) = i \/ files[i].of = Root(files, i)
         /\ files[i].of = 0 => Root(files, i) = i
<1>1. files[i].of \in {0} \cup FileIds
  BY RowFacts
<1>2. CASE files[i].of = 0
  <2>1. Root(files, i) = i
    BY <1>2 DEF Root
  <2> QED
    BY <1>2, <2>1, RowFacts, Numbers
<1>3. CASE files[i].of # 0
  <2>1. Root(files, i) = files[i].of
    BY <1>3 DEF Root
  <2>2. Stored(files[i].of) /\ files[files[i].of].of = 0
    BY <1>3 DEF VariantsRooted
  <2> QED
    BY <1>1, <1>3, <2>1, <2>2, RowFacts, Numbers
<1> QED
  BY <1>2, <1>3

(* A row that a request covers is the one it holds, or one it removes.      *)
LEMMA CoversFacts ==
  ASSUME TypeOK, VariantsRooted, NEW q \in Request, Shape(q), NEW i \in FileIds, Stored(i), Covers(files, q, i)
  PROVE  \/ q.file = Root(files, i) /\ q.file # 0 /\ q.pc \in WithKey \ {"row"}
         \/ q.pc = "check" /\ q.old = Root(files, i) /\ q.oldKey = files[Root(files, i)].key /\ q.file = 0
         \/ q.pc \in {"delete", "unlink"} /\ \E d \in q.doomed : d.key = files[i].key
<1>1. Root(files, i) # 0
  BY RootFacts
<1> QED
  BY <1>1 DEF Covers, Shape, WithKey

(* It holds the row's key.                                                  *)
LEMMA CoveredHeld ==
  ASSUME TypeOK, VariantsRooted, NEW q, NEW i \in FileIds, Stored(i), Covers(files, q, i)
  PROVE  files[i].key \in HeldKeys(q)
<1>1. /\ Root(files, i) # 0 /\ Stored(Root(files, i)) /\ files[i].key \in Keys
      /\ Root(files, i) = i \/ files[i].of = Root(files, i)
  BY RootFacts
<1>2. ASSUME Root(files, i) \in {q.file, q.old} PROVE files[i].key \in Held(q)
  <2>1. CASE Root(files, i) = i
    <3>1. i \in {j \in {q.file, q.old} : Stored(j)}
      BY <1>2, <2>1
    <3> QED
      BY <3>1 DEF Held
  <2>2. CASE files[i].of = Root(files, i)
    <3>1. i \in ListFileVariants(Root(files, i))
      BY <2>2 DEF ListFileVariants
    <3>2. Root(files, i) \in {q.file, q.old} \ {0}
      BY <1>1, <1>2
    <3> QED
      BY <3>1, <3>2 DEF Held
  <2> QED
    BY <1>1, <2>1, <2>2
<1>3. ASSUME NEW d \in q.doomed, d.key = files[i].key PROVE files[i].key \in Held(q)
  BY <1>3 DEF Held
<1> QED
  BY <1>1, <1>2, <1>3 DEF Covers, HeldKeys

(* So does one that is about to insert or to unlink.                        *)
LEMMA WorksHeld ==
  ASSUME NEW q \in Request, Shape(q), NEW k \in Keys, Works(q, k)
  PROVE  k \in HeldKeys(q)
<1>1. CASE k \in Unborn(q)
  BY <1>1 DEF Unborn, HeldKeys, Held
<1>2. CASE \E d \in Going(q) : d.key = k
  <2>1. \E d \in q.doomed : d.key = k
    BY <1>2, GoingFacts
  <2> QED
    BY <2>1 DEF HeldKeys, Held
<1> QED
  BY <1>1, <1>2 DEF Works

(* A request that neither stores nor unlinks works on no blob without a row.*)
LEMMA WorksWhere ==
  ASSUME NEW q, NEW k, Works(q, k)
  PROVE  \/ q.pc = "row" /\ k = q.key
         \/ q.pc = "vrow" /\ k = q.vkey
         \/ q.pc = "unlink" /\ \E d \in Going(q) : d.key = k
  BY DEF Works, Unborn, Going

(* What is let go or handed out stays so.                                   *)
LEMMA MarksGrow ==
  ASSUME NEW r \in Actors, RequestStep(r) \/ DeleteRow(r) \/ Unlink(r)
  PROVE  lost \subseteq lost' /\ issued \subseteq issued'
<1>1. CASE Upload(r) \/ StaticUpload(r) \/ ImportEntryImage(r) \/ StaticDestroy(r) \/ DestroyArticle(r)
  <2>1. UNCHANGED <<lost, issued>>
    BY <1>1 DEF Upload, StaticUpload, ImportEntryImage, Begin, StaticDestroy, DestroyArticle
  <2> QED
    BY <2>1
<1>2. CASE WriteBlob(r) \/ FindStatic(r) \/ GetFileForStaticFilename(r) \/ DeleteStaticFile(r) \/ Unlink(r)
  <2>1. UNCHANGED <<lost, issued>>
    BY <1>2 DEF WriteBlob, FindStatic, GetFileForStaticFilename, DeleteStaticFile, Unlink, NoSpend
  <2> QED
    BY <2>1
<1>3. CASE InsertRow(r) \/ InsertVariant(r)
  <2>1. UNCHANGED lost
    BY <1>3 DEF InsertRow, InsertVariant, NoSpend
  <2>2. \A i : StoreReturns(r, i) => issued \subseteq issued'
    BY DEF StoreReturns
  <2>3. issued \subseteq issued'
    BY <1>3, <2>2 DEF InsertRow, InsertVariant
  <2> QED
    BY <2>1, <2>3
<1>4. CASE AttachUpload(r) \/ ImportEntry(r)
  <2>1. lost \subseteq lost'
    BY <1>4 DEF AttachUpload, ImportEntry, NoSpend
  <2>2. issued \subseteq issued'
    BY <1>4 DEF AttachUpload, ImportEntry
  <2> QED
    BY <2>1, <2>2
<1>5. CASE CreateStaticFile(r) \/ UpdateStaticFile(r) \/ PurgeStoredFile(r) \/ DeleteRow(r)
  <2>1. UNCHANGED issued
    BY <1>5 DEF CreateStaticFile, UpdateStaticFile, PurgeStoredFile, DeleteRow
  <2>2. lost \subseteq lost'
    BY <1>5 DEF CreateStaticFile, UpdateStaticFile, PurgeStoredFile, DeleteRow, NoSpend, Fault
  <2> QED
    BY <2>1, <2>2
<1> QED
  BY <1>1, <1>2, <1>3, <1>4, <1>5 DEF RequestStep

(* Row i, in the hand of request r or named by a static_files row, has not  *)
(* been forgotten when the request goes on as q2.                           *)
Remembered(r, q2, i) ==
    \/ files[Root(files, i)].key \in issued' \/ files[i].key \in lost'
    \/ \E n \in Names : statics'[n] = Root(files, i)
    \/ Covers(files, q2, i)

(* A request read the same rows and lets more keys go.                      *)
LEMMA WholeGrows ==
  ASSUME NEW q, NEW f, NEW l, NEW m, l \subseteq m, Whole(f, l, q)
  PROVE  Whole(f, m, q)
<1>1. FamilyWhole(f, l, q) => FamilyWhole(f, m, q)
  BY DEF FamilyWhole
<1> QED
  BY <1>1 DEF Whole

(* A request that has read nothing.                                         *)
LEMMA WholeBlank ==
  ASSUME NEW q \in Request, Shape(q), q.pc \notin {"swap", "check", "delete", "unlink"},
         NEW f, NEW l, \A c \in q.cands : RootRead(f, c.id, c.key)
  PROVE  Whole(f, l, q)
<1>1. q.oldKey = 0 /\ q.doomed = {}
  BY DEF Shape
<1> QED
  BY <1>1 DEF Whole, FamilyWhole

(* A step of a request that changes no files row.                           *)
LEMMA ForgetStays ==
  ASSUME TypeOK, Shaped, ForgetParts, NEW r \in Actors, NEW q2 \in Request, Shape(q2), Go(r, q2), UNCHANGED files,
         lost \subseteq lost', issued \subseteq issued', Whole(files, lost', q2),
         \A t \in FileIds : attachments'[t].file # 0 =>
            attachments'[t] = attachments[t]
            \/ (files[attachments'[t].file].key \in issued' /\ files[attachments'[t].file].of = 0),
         \A n \in Names : statics'[n] # 0 => statics'[n] = statics[n] \/ files[statics'[n]].of = 0,
         \A i \in FileIds : Stored(i) =>
            /\ Covers(files, req[r], i) => Remembered(r, q2, i)
            /\ (\E n \in Names : statics[n] = Root(files, i)) => Remembered(r, q2, i),
         \A k \in blobs' : k \in blobs \/ Works(q2, k),
         \A k \in blobs' : Works(req[r], k) => k \in lost' \/ (\E i \in FileIds : files[i].key = k) \/ Works(q2, k)
  PROVE  ForgetParts'
<1>1. TablesWhole /\ RequestsWhole /\ RowsCovered /\ BlobsCovered
  BY DEF ForgetParts
<1>2. req'[r] = q2 /\ \A s \in Actors \ {r} : req'[s] = req[s]
  BY GoShape DEF TypeOK, FilesTypeOK, Shaped
<1>3. VariantsRooted'
  BY <1>1 DEF TablesWhole, VariantsRooted, Stored
<1>4. AttachedIssued'
  <2>1. ASSUME NEW t \in FileIds, attachments'[t].file # 0
        PROVE  files'[attachments'[t].file].key \in issued' /\ files'[attachments'[t].file].of = 0
    <3>1. CASE attachments'[t] = attachments[t]
      BY <1>1, <2>1, <3>1 DEF TablesWhole, AttachedIssued
    <3>2. CASE files[attachments'[t].file].key \in issued' /\ files[attachments'[t].file].of = 0
      BY <3>2
    <3> QED
      BY <2>1, <3>1, <3>2
  <2> QED
    BY <2>1, ForgetNext
<1>5. StaticsOriginal'
  <2>1. ASSUME NEW n \in Names, statics'[n] # 0 PROVE files'[statics'[n]].of = 0
    <3>1. files[statics'[n]].of = 0
      BY <1>1, <2>1 DEF TablesWhole, StaticsOriginal
    <3> QED
      BY <3>1
  <2> QED
    BY <2>1, ForgetNext
<1>6. RequestsWhole'
  <2>1. ASSUME NEW s \in Actors PROVE Whole(files', lost', req'[s])
    <3>1. Whole(files, lost, req[s])
      BY <1>1 DEF RequestsWhole
    <3>2. Whole(files, lost', req[s])
      BY <3>1, WholeGrows
    <3>3. Whole(files, lost', req'[s])
      BY <1>2, <3>2
    <3> QED
      BY <3>3
  <2> QED
    BY <2>1, ForgetNext
<1>7. RowsCovered'
  <2>1. ASSUME NEW i \in FileIds, files[i] # NoFile
        PROVE  \/ files[Root(files, i)].key \in issued' \/ files[i].key \in lost'
               \/ \E n \in Names : statics'[n] = Root(files, i)
               \/ \E s \in Actors : Covers(files, req'[s], i)
    <3>1. Stored(i)
      BY <2>1, Numbers DEF Stored
    <3>2. Remembered(r, q2, i) => \/ files[Root(files, i)].key \in issued' \/ files[i].key \in lost'
                                  \/ \E n \in Names : statics'[n] = Root(files, i)
                                  \/ \E s \in Actors : Covers(files, req'[s], i)
      BY <1>2 DEF Remembered
    <3>3. \A s \in Actors \ {r} : Covers(files, req[s], i) => Covers(files, req'[s], i)
      BY <1>2
    <3>4. \/ files[Root(files, i)].key \in issued \/ files[i].key \in lost
          \/ \E n \in Names : statics[n] = Root(files, i)
          \/ \E s \in Actors : Covers(files, req[s], i)
      BY <1>1, <3>1 DEF RowsCovered
    <3> QED
      BY <3>1, <3>2, <3>3, <3>4
  <2> QED
    BY <2>1, ForgetNext
<1>8. BlobsCovered'
  <2>1. ASSUME NEW k \in blobs'
        PROVE  k \in lost' \/ (\E i \in FileIds : files[i].key = k) \/ \E s \in Actors : Works(req'[s], k)
    <3>1. Works(q2, k) => \E s \in Actors : Works(req'[s], k)
      BY <1>2
    <3>2. \A s \in Actors \ {r} : Works(req[s], k) => Works(req'[s], k)
      BY <1>2
    <3>3. k \in blobs => k \in lost \/ (\E i \in FileIds : files[i].key = k) \/ \E s \in Actors : Works(req[s], k)
      BY <1>1 DEF BlobsCovered
    <3> QED
      BY <2>1, <3>1, <3>2, <3>3
  <2> QED
    BY <2>1, ForgetNext
<1> QED
  BY <1>3, <1>4, <1>5, <1>6, <1>7, <1>8 DEF ForgetParts, TablesWhole

(* A step that changes no table and no blob.                                *)
LEMMA ForgetQuiet ==
  ASSUME TypeOK, Shaped, ForgetParts, NEW r \in Actors, NEW q2 \in Request, Shape(q2), Go(r, q2),
         UNCHANGED <<files, blobs, attachments, statics>>,
         lost \subseteq lost', issued \subseteq issued', Whole(files, lost', q2),
         \A i \in FileIds : Stored(i) /\ Covers(files, req[r], i) => Remembered(r, q2, i),
         req[r].pc \notin {"row", "vrow", "unlink"}
  PROVE  ForgetParts'
<1>1. \A t \in FileIds : attachments'[t].file # 0 => attachments'[t] = attachments[t]
  OBVIOUS
<1>2. \A n \in Names : statics'[n] # 0 => statics'[n] = statics[n]
  OBVIOUS
<1>3. ASSUME NEW i \in FileIds, \E n \in Names : statics[n] = Root(files, i) PROVE Remembered(r, q2, i)
  <2>1. \E n \in Names : statics'[n] = Root(files, i)
    BY <1>3
  <2> QED
    BY <2>1 DEF Remembered
<1>4. \A k : ~Works(req[r], k)
  BY WorksWhere
<1>5. \A k \in blobs' : k \in blobs
  OBVIOUS
<1> QED
  BY <1>1, <1>2, <1>3, <1>4, <1>5, ForgetStays

(* What the proofs about a step start from.                                 *)
Settled == RowInv /\ unrestored = {} /\ TableParts /\ RequestParts /\ ForgetParts

(* And what they need of a request.                                         *)
LEMMA SettledFacts ==
  ASSUME Settled, NEW r \in Actors
  PROVE  /\ TypeOK /\ Shaped /\ OneHome /\ Fresh /\ UnlinkedHasNoRow /\ unrestored = {} /\ TableParts /\ RequestParts /\ ForgetParts
         /\ VariantsRooted /\ AttachedIssued /\ StaticsOriginal
         /\ req[r] \in Request /\ Shape(req[r]) /\ Whole(files, lost, req[r])
         /\ \A c \in req[r].cands : RootRead(files, c.id, c.key)
<1>1. TypeOK /\ Shaped
  BY DEF Settled, RowInv
<1>2. req[r] \in Request /\ Shape(req[r])
  BY <1>1, RequestFacts
<1>3. TablesWhole /\ Whole(files, lost, req[r])
  BY DEF Settled, ForgetParts, RequestsWhole
<1>4. \A c \in req[r].cands : RootRead(files, c.id, c.key)
  BY <1>3 DEF Whole
<1> QED
  BY <1>1, <1>2, <1>3, <1>4 DEF Settled, RowInv, TablesWhole

(* A removal that has read a root has read its whole family.                *)
LEMMA RemovesWhole ==
  ASSUME TypeOK, NEW q, \A c \in q.cands : RootRead(files, c.id, c.key),
         NEW q2 \in Request, Shape(q2), NEW i \in FileIds, NEW k \in Keys, Removes(q, q2, i, k), RootRead(files, i, k), NEW l
  PROVE  Whole(files, l, q2)
<1>1. q2.pc = "delete" /\ q2.doomed = Family(i, k) /\ q2.cands \subseteq q.cands /\ q2.oldKey = 0
  BY DEF Removes, Shape
<1>2. \A d \in q2.doomed : files[d.id].key = d.key => files[d.id].of = d.of
  BY <1>1, FamilyFacts DEF RootRead
<1>3. ASSUME NEW d \in q2.doomed, d.of = 0, NEW v \in FileIds, files[v].of = d.id
      PROVE  \E e \in q2.doomed : e.of # 0 /\ e.key = files[v].key
  <2>1. d.id = i
    BY <1>1, <1>3, FamilyFacts, Numbers
  <2>2. Stored(v) /\ files[v].of = i
    BY <1>3, <2>1, RowFacts, Numbers
  <2>3. Ref(v, files[v].key, i) \in q2.doomed
    BY <1>1, <2>2 DEF Family, ListFileVariants
  <2>4. Ref(v, files[v].key, i).of # 0 /\ Ref(v, files[v].key, i).key = files[v].key
    BY Numbers DEF Ref
  <2> QED
    BY <2>3, <2>4
<1> QED
  BY <1>1, <1>2, <1>3 DEF Whole, FamilyWhole

(* And holds every row of it.                                               *)
LEMMA RemovesCovers ==
  ASSUME TypeOK, VariantsRooted, NEW q, NEW q2, NEW i \in FileIds, NEW k \in Keys, Removes(q, q2, i, k), files[i].key = k,
         NEW j \in FileIds, Stored(j), Root(files, j) = i
  PROVE  Covers(files, q2, j)
<1>1. j = i \/ files[j].of = i
  BY RootFacts
<1>2. CASE j = i
  <2>1. Ref(i, k, 0) \in q2.doomed /\ Ref(i, k, 0).key = files[j].key
    BY <1>2 DEF Removes, Family, Ref
  <2> QED
    BY <2>1 DEF Covers
<1>3. CASE files[j].of = i
  <2>1. Ref(j, files[j].key, i) \in q2.doomed /\ Ref(j, files[j].key, i).key = files[j].key
    BY <1>3 DEF Removes, Family, ListFileVariants, Ref
  <2> QED
    BY <2>1 DEF Covers
<1> QED
  BY <1>1, <1>2, <1>3

(* A static upload that purges its own file has it in hand.                 *)
LEMMA OwnPurgeHeld ==
  ASSUME Settled, NEW r \in Actors, NEW q2 \in Request, Shape(q2), PurgesOwn(req[r], q2),
         req[r].pc \in {"lookup", "create", "swap"}, NEW l
  PROVE  /\ Whole(files, l, q2)
         /\ \A i \in FileIds : Stored(i) /\ Covers(files, req[r], i) => Covers(files, q2, i)
<1> DEFINE q == req[r]
<1>1. /\ TypeOK /\ Shaped /\ VariantsRooted /\ RequestParts /\ q \in Request /\ Shape(q) /\ Whole(files, lost, q)
      /\ \A c \in q.cands : RootRead(files, c.id, c.key)
  BY SettledFacts
<1>2. q.key # 0 /\ q.file # 0
  BY <1>1 DEF Shape, WithKey
<1>3. files[q.file].key = q.key /\ files[q.file].of = 0
  BY <1>1, <1>2, OwnFacts
<1>4. q2.pc = "check" /\ q2.old = q.file /\ q2.oldKey = q.key /\ q2.cands = q.cands
  BY DEF PurgesOwn
<1>5. q2.doomed = {}
  BY <1>4 DEF Shape
<1>6. Whole(files, l, q2)
  BY <1>1, <1>3, <1>4, <1>5 DEF Whole, FamilyWhole, RootRead
<1>7. ASSUME NEW i \in FileIds, Stored(i), Covers(files, q, i) PROVE Covers(files, q2, i)
  <2>1. q.file = Root(files, i)
    BY <1>1, <1>7, CoversFacts DEF Shape
  <2> QED
    BY <1>3, <1>4, <2>1 DEF Covers
<1> QED
  BY <1>6, <1>7

(* Upload, StaticUpload, ImportEntryImage and StaticDestroy begin with      *)
(* nothing in hand.                                                         *)
LEMMA StartForgets ==
  ASSUME Settled, NEW r \in Requests, Upload(r) \/ StaticUpload(r) \/ ImportEntryImage(r) \/ StaticDestroy(r)
  PROVE  ForgetParts'
<1>0. r \in Actors
  BY Numbers
<1>1. TypeOK /\ Shaped /\ VariantsRooted /\ ForgetParts /\ req[r] \in Request /\ Shape(req[r])
  BY <1>0, SettledFacts
<1>2. Steady /\ \E q2 \in Request : Shape(q2) /\ Go(r, q2) /\ Starts(req[r], q2)
  BY <1>1, StartEffect
<1>3. PICK q2 \in Request : Shape(q2) /\ Go(r, q2) /\ Starts(req[r], q2)
  BY <1>2
<1>4. UNCHANGED <<files, blobs, attachments, statics>>
  BY <1>2 DEF Steady
<1>5. lost \subseteq lost' /\ issued \subseteq issued'
  BY <1>0, MarksGrow DEF RequestStep
<1>6. Whole(files, lost', q2)
  BY <1>3, WholeBlank DEF Starts
<1>7. req[r].pc = "idle"
  BY <1>3 DEF Starts, Idle
<1>8. \A i \in FileIds : Stored(i) => ~Covers(files, req[r], i)
  BY <1>1, <1>7, CoversFacts DEF WithKey
<1> QED
  BY <1>0, <1>1, <1>3, <1>4, <1>5, <1>6, <1>7, <1>8, ForgetQuiet

(* FindStatic keeps the stored file in hand, or purges it.                  *)
LEMMA FindForgets ==
  ASSUME Settled, NEW r \in Requests, FindStatic(r)
  PROVE  ForgetParts'
<1> DEFINE q == req[r]
<1>0. r \in Actors
  BY Numbers
<1>1. /\ TypeOK /\ Shaped /\ VariantsRooted /\ ForgetParts /\ q \in Request /\ Shape(q) /\ Whole(files, lost, q)
      /\ \A c \in q.cands : RootRead(files, c.id, c.key)
  BY <1>0, SettledFacts
<1>2. q.pc = "lookup" /\ Steady
  BY <1>1, FindEffect DEF FindStatic
<1>3. PICK q2 \in Request : Shape(q2) /\ Go(r, q2) /\ (Continues(q, q2) \/ PurgesOwn(q, q2))
  BY <1>1, FindEffect
<1>4. UNCHANGED <<files, blobs, attachments, statics>>
  BY <1>2 DEF Steady
<1>5. lost \subseteq lost' /\ issued \subseteq issued'
  BY <1>0, MarksGrow DEF RequestStep
<1>6. Whole(files, lost', q2) /\ \A i \in FileIds : Stored(i) /\ Covers(files, q, i) => Covers(files, q2, i)
  <2>1. CASE Continues(q, q2)
    <3>1. q2.oldKey = 0 /\ q2.doomed = {} /\ q2.file = q.file /\ q2.cands = q.cands
      BY <1>3, <2>1 DEF Continues, Shape
    <3>2. Whole(files, lost', q2)
      BY <1>1, <3>1 DEF Whole, FamilyWhole
    <3>3. ASSUME NEW i \in FileIds, Stored(i), Covers(files, q, i) PROVE Covers(files, q2, i)
      <4>1. q.file = Root(files, i)
        BY <1>1, <1>2, <3>3, CoversFacts
      <4> QED
        BY <3>1, <4>1 DEF Covers
    <3> QED
      BY <3>2, <3>3
  <2>2. CASE PurgesOwn(q, q2)
    BY <1>0, <1>2, <1>3, <2>2, OwnPurgeHeld
  <2> QED
    BY <1>3, <2>1, <2>2
<1>7. \A i \in FileIds : Stored(i) /\ Covers(files, q, i) => Remembered(r, q2, i)
  BY <1>6 DEF Remembered
<1> QED
  BY <1>0, <1>1, <1>2, <1>3, <1>4, <1>5, <1>6, <1>7, ForgetQuiet

(* GetFileForStaticFilename reads a root.                                   *)
LEMMA ResolveForgets ==
  ASSUME Settled, NEW r \in Requests, GetFileForStaticFilename(r)
  PROVE  ForgetParts'
<1> DEFINE q == req[r]
<1>0. r \in Actors
  BY Numbers
<1>1. /\ TypeOK /\ Shaped /\ VariantsRooted /\ StaticsOriginal /\ ForgetParts /\ q \in Request /\ Shape(q)
      /\ Whole(files, lost, q) /\ \A c \in q.cands : RootRead(files, c.id, c.key)
  BY <1>0, SettledFacts
<1>2. q.pc = "old" /\ Steady
  BY <1>1, ResolveEffect DEF GetFileForStaticFilename
<1>3. PICK q2 \in Request : Shape(q2) /\ Go(r, q2) /\ Resolves(q, q2)
  BY <1>1, ResolveEffect
<1>4. UNCHANGED <<files, blobs, attachments, statics>>
  BY <1>2 DEF Steady
<1>5. lost \subseteq lost' /\ issued \subseteq issued'
  BY <1>0, MarksGrow DEF RequestStep
<1>6. q2.pc = "swap" /\ q2.doomed = {} /\ q2.file = q.file /\ q2.cands = q.cands
  BY <1>3 DEF Resolves, Shape
<1>7. q2.oldKey # 0 => files[q2.old].of = 0
  BY <1>1, <1>3 DEF Resolves, StaticsOriginal
<1>8. Whole(files, lost', q2)
  BY <1>1, <1>6, <1>7 DEF Whole, FamilyWhole, RootRead
<1>9. ASSUME NEW i \in FileIds, Stored(i), Covers(files, q, i) PROVE Remembered(r, q2, i)
  <2>1. q.file = Root(files, i)
    BY <1>1, <1>2, <1>9, CoversFacts
  <2>2. Covers(files, q2, i)
    BY <1>6, <2>1 DEF Covers
  <2> QED
    BY <2>2 DEF Remembered
<1> QED
  BY <1>0, <1>1, <1>2, <1>3, <1>4, <1>5, <1>8, <1>9, ForgetQuiet

(* DeleteStaticFile takes the file in hand that the row named.              *)
LEMMA DeleteStaticForgets ==
  ASSUME Settled, NEW r \in Requests, DeleteStaticFile(r)
  PROVE  ForgetParts'
<1> DEFINE q == req[r]
<1>0. r \in Actors
  BY Numbers
<1>1. /\ TypeOK /\ Shaped /\ VariantsRooted /\ StaticsOriginal /\ ForgetParts /\ q \in Request /\ Shape(q)
      /\ Whole(files, lost, q) /\ \A c \in q.cands : RootRead(files, c.id, c.key)
  BY <1>0, SettledFacts
<1>2. q.pc = "fetch"
  BY DEF DeleteStaticFile
<1>3. UNCHANGED <<files, blobs, attachments>>
  BY <1>1, DeleteStaticEffect
<1>4. PICK q2 \in Request :
         /\ Shape(q2) /\ Go(r, q2)
         /\ \/ Ends(q, q2) /\ UNCHANGED statics
            \/ PurgesNamed(q, q2) /\ statics' = [statics EXCEPT ![q.arg] = 0] /\ q2.old # 0
  BY <1>1, DeleteStaticEffect
<1>5. lost \subseteq lost' /\ issued \subseteq issued'
  BY <1>0, MarksGrow DEF RequestStep
<1>6. \A i \in FileIds : Stored(i) => ~Covers(files, q, i)
  BY <1>1, <1>2, CoversFacts DEF WithKey
<1>7. CASE Ends(q, q2) /\ UNCHANGED statics
  <2>1. Whole(files, lost', q2)
    BY <1>1, <1>4, <1>7, WholeBlank DEF Ends
  <2> QED
    BY <1>0, <1>1, <1>2, <1>3, <1>4, <1>5, <1>6, <1>7, <2>1, ForgetQuiet
<1>8. CASE PurgesNamed(q, q2) /\ statics' = [statics EXCEPT ![q.arg] = 0] /\ q2.old # 0
  <2>1. /\ q2.pc = "check" /\ q2.doomed = {} /\ q2.cands = q.cands /\ q2.old = statics[q.arg] /\ q.arg \in Names
        /\ q2.oldKey = files[q2.old].key
    BY <1>4, <1>8 DEF PurgesNamed, Shape
  <2>2. files[q2.old].of = 0
    BY <1>1, <1>8, <2>1 DEF StaticsOriginal
  <2>3. Whole(files, lost', q2)
    BY <1>1, <2>1, <2>2 DEF Whole, FamilyWhole, RootRead
  <2>4. statics \in StaticTable
    BY <1>1, TableTypes
  <2>5. \A n \in Names : n # q.arg => statics'[n] = statics[n]
    BY <1>8, <2>4 DEF StaticTable
  <2>6. \A n \in Names : statics'[n] # 0 => statics'[n] = statics[n]
    BY <1>8, <2>4 DEF StaticTable
  <2>7. ASSUME NEW i \in FileIds, NEW n \in Names, statics[n] = Root(files, i) PROVE Remembered(r, q2, i)
    <3>1. CASE n = q.arg
      <4>1. Covers(files, q2, i)
        BY <2>1, <2>7, <3>1 DEF Covers
      <4> QED
        BY <4>1 DEF Remembered
    <3>2. CASE n # q.arg
      BY <2>5, <2>7, <3>2 DEF Remembered
    <3> QED
      BY <3>1, <3>2
  <2>8. \A k : ~Works(q, k)
    BY <1>2, WorksWhere
  <2>9. \A t \in FileIds : attachments'[t].file # 0 => attachments'[t] = attachments[t]
    BY <1>3
  <2>10. \A k \in blobs' : k \in blobs
    BY <1>3
  <2> QED
    BY <1>0, <1>1, <1>3, <1>4, <1>5, <1>6, <2>3, <2>6, <2>7, <2>8, <2>9, <2>10, ForgetStays
<1> QED
  BY <1>4, <1>7, <1>8

(* PurgeStoredFile leaves a file that something names, or a failure lets go,*)
(* and takes the family of any other.                                       *)
LEMMA PurgeForgets ==
  ASSUME Settled, ~mistaken', NEW r \in Requests, PurgeStoredFile(r)
  PROVE  ForgetParts'
<1> DEFINE q == req[r]
<1>0. r \in Actors
  BY Numbers
<1>1. /\ TypeOK /\ Shaped /\ VariantsRooted /\ StaticsOriginal /\ AttachedIssued /\ ForgetParts /\ q \in Request /\ Shape(q)
      /\ Whole(files, lost, q) /\ \A c \in q.cands : RootRead(files, c.id, c.key)
  BY <1>0, SettledFacts
<1>2. q.pc = "check"
  BY DEF PurgeStoredFile
<1>3. UNCHANGED <<files, blobs, attachments, statics>>
  BY <1>1, PurgeEffect
<1>4. PICK q2 \in Request :
         /\ Shape(q2) /\ Go(r, q2)
         /\ \/ /\ Ends(q, q2)
               /\ \/ StillReferenced(q.old) \/ HeldKeys(q) \subseteq lost'
                  \/ q.oldKey = 0 \/ files[q.old].key = 0
            \/ \E k \in Keys :
                  /\ Removes(q, q2, q.old, k) /\ q.old \in FileIds
                  /\ mistaken' = (mistaken \/ k # q.oldKey)
  BY <1>1, PurgeEffect
<1>5. lost \subseteq lost' /\ issued \subseteq issued'
  BY <1>0, MarksGrow DEF RequestStep
<1>6. \A i \in FileIds : Stored(i) /\ Covers(files, q, i) =>
         q.old = Root(files, i) /\ q.oldKey = files[q.old].key /\ files[q.old].key \in Keys /\ files[q.old].of = 0
  BY <1>1, <1>2, CoversFacts, RootFacts DEF WithKey
<1>7. CASE /\ Ends(q, q2)
           /\ StillReferenced(q.old) \/ HeldKeys(q) \subseteq lost' \/ q.oldKey = 0 \/ files[q.old].key = 0
  <2>1. Whole(files, lost', q2)
    BY <1>1, <1>4, <1>7, WholeBlank DEF Ends
  <2>2. ASSUME NEW i \in FileIds, Stored(i), Covers(files, q, i) PROVE Remembered(r, q2, i)
    <3>1. q.old = Root(files, i) /\ q.oldKey = files[q.old].key /\ files[q.old].key \in Keys
      BY <1>6, <2>2
    <3>2. q.oldKey # 0 /\ files[q.old].key # 0
      BY <3>1, Numbers
    <3>3. CASE StillReferenced(q.old)
      <4>1. PICK j \in {q.old} \cup ListFileVariants(q.old) : Named(j)
        BY <3>3 DEF StillReferenced
      <4>2. ASSUME files[j].of = 0 PROVE j = q.old
        BY <3>1, <4>1, <4>2, RootFacts, <1>1, <2>2 DEF ListFileVariants
      <4>3. CASE CountAttachmentsForFile(j, attachments)
        <5>1. PICK t \in FileIds : attachments[t].file = j
          BY <4>3 DEF CountAttachmentsForFile
        <5>2. j # 0
          BY <1>1, <2>2, <3>1, <4>1, RootFacts, Numbers DEF ListFileVariants
        <5>3. files[j].key \in issued /\ files[j].of = 0
          BY <1>1, <5>1, <5>2 DEF AttachedIssued
        <5> QED
          BY <1>5, <3>1, <4>2, <5>3 DEF Remembered
      <4>4. CASE CountStaticFilesForFile(j)
        <5>1. PICK n \in Names : statics[n] = j
          BY <4>4 DEF CountStaticFilesForFile
        <5>2. j # 0
          BY <1>1, <2>2, <3>1, <4>1, RootFacts, Numbers DEF ListFileVariants
        <5>3. files[j].of = 0
          BY <1>1, <5>1, <5>2 DEF StaticsOriginal
        <5> QED
          BY <1>3, <3>1, <4>2, <5>1, <5>3 DEF Remembered
      <4> QED
        BY <4>1, <4>3, <4>4 DEF Named
    <3>4. CASE HeldKeys(q) \subseteq lost'
      BY <1>1, <2>2, <3>4, CoveredHeld DEF Remembered
    <3> QED
      BY <1>7, <3>2, <3>3, <3>4
  <2> QED
    BY <1>0, <1>1, <1>2, <1>3, <1>4, <1>5, <2>1, <2>2, ForgetQuiet
<1>8. ASSUME NEW k \in Keys, Removes(q, q2, q.old, k), q.old \in FileIds, mistaken' = (mistaken \/ k # q.oldKey)
      PROVE  ForgetParts'
  <2>1. k = q.oldKey /\ q.oldKey # 0
    BY <1>8, Numbers
  <2>2. RootRead(files, q.old, k)
    BY <1>1, <2>1 DEF Whole
  <2>3. Whole(files, lost', q2)
    BY <1>1, <1>4, <1>8, <2>2, RemovesWhole
  <2>4. ASSUME NEW i \in FileIds, Stored(i), Covers(files, q, i) PROVE Remembered(r, q2, i)
    <3>1. q.old = Root(files, i) /\ k = files[q.old].key
      BY <1>6, <2>1, <2>4
    <3>2. Covers(files, q2, i)
      BY <1>1, <1>8, <2>4, <3>1, RemovesCovers
    <3> QED
      BY <3>2 DEF Remembered
  <2> QED
    BY <1>0, <1>1, <1>2, <1>3, <1>4, <1>5, <2>3, <2>4, ForgetQuiet
<1> QED
  BY <1>4, <1>7, <1>8

(* WriteBlob has the new blob in hand.                                      *)
LEMMA WriteForgets ==
  ASSUME Settled, NEW r \in Requests, WriteBlob(r)
  PROVE  ForgetParts'
<1> DEFINE q == req[r]
<1>0. r \in Actors
  BY Numbers
<1>1. /\ TypeOK /\ Shaped /\ VariantsRooted /\ ForgetParts /\ q \in Request /\ Shape(q)
      /\ Whole(files, lost, q) /\ \A c \in q.cands : RootRead(files, c.id, c.key)
  BY <1>0, SettledFacts
<1>2. UNCHANGED <<files, attachments, statics>>
  BY <1>1, WriteEffect
<1>3. PICK q2 \in Request :
         /\ Shape(q2) /\ Go(r, q2)
         /\ \/ /\ used' \in Keys /\ blobs' = blobs \cup {used'} /\ q2.cands = q.cands
               /\ \/ q2.pc = "row" /\ q2.key = used' /\ q.pc = "blob"
                  \/ q2.pc = "vrow" /\ q2.key = q.key /\ q2.file = q.file /\ q2.vkey = used' /\ q.pc = "vblob"
            \/ Ends(q, q2) /\ UNCHANGED <<used, blobs>> /\ q.pc = "blob"
  BY <1>1, WriteEffect
<1>4. lost \subseteq lost' /\ issued \subseteq issued'
  BY <1>0, MarksGrow DEF RequestStep
<1>5. Whole(files, lost', q2)
  BY <1>1, <1>3, WholeBlank DEF Ends
<1>6. ASSUME NEW i \in FileIds, Stored(i), Covers(files, q, i) PROVE Remembered(r, q2, i)
  <2>1. q.file = Root(files, i) /\ q.pc # "blob"
    BY <1>1, <1>3, <1>6, CoversFacts DEF WithKey
  <2>2. Covers(files, q2, i)
    BY <1>3, <2>1 DEF Covers
  <2> QED
    BY <2>2 DEF Remembered
<1>7. ASSUME NEW i \in FileIds, \E n \in Names : statics[n] = Root(files, i) PROVE Remembered(r, q2, i)
  BY <1>2, <1>7 DEF Remembered
<1>8. \A k : ~Works(q, k)
  BY <1>3, WorksWhere
<1>9. \A k \in blobs' : k \in blobs \/ Works(q2, k)
  BY <1>3 DEF Works, Unborn
<1>10. \A t \in FileIds : attachments'[t].file # 0 => attachments'[t] = attachments[t]
  BY <1>2
<1>11. \A n \in Names : statics'[n] # 0 => statics'[n] = statics[n]
  BY <1>2
<1> QED
  BY <1>0, <1>1, <1>2, <1>3, <1>4, <1>5, <1>6, <1>7, <1>8, <1>9, <1>10, <1>11, ForgetStays

(* A blob that does not get its row is removed.                             *)
LEMMA DroppedForgets ==
  ASSUME Settled, NEW r \in Requests, UNCHANGED <<files, attachments, statics>>, lost \subseteq lost', issued \subseteq issued',
         NEW q2 \in Request, Shape(q2), Go(r, q2),
         \/ req[r].pc = "row" /\ blobs' = blobs \ {req[r].key} /\ Ends(req[r], q2)
         \/ /\ req[r].pc = "vrow" /\ blobs' = blobs \ {req[r].vkey}
            /\ \/ Ends(req[r], q2) /\ issued' = issued \cup {req[r].key}
               \/ q2.pc \in {"attach", "embed", "lookup"} /\ q2.cands = req[r].cands /\ q2.file = req[r].file
  PROVE  ForgetParts'
<1> DEFINE q == req[r]
<1>0. r \in Actors
  BY Numbers
<1>1. /\ TypeOK /\ Shaped /\ VariantsRooted /\ RequestParts /\ ForgetParts /\ q \in Request /\ Shape(q)
      /\ Whole(files, lost, q) /\ \A c \in q.cands : RootRead(files, c.id, c.key)
  BY <1>0, SettledFacts
<1>2. Whole(files, lost', q2)
  BY <1>1, WholeBlank DEF Ends
<1>3. ASSUME NEW i \in FileIds, Stored(i), Covers(files, q, i) PROVE Remembered(r, q2, i)
  <2>1. q.file = Root(files, i) /\ q.file # 0 /\ q.pc = "vrow"
    BY <1>1, <1>3, CoversFacts
  <2>2. q.key # 0
    BY <1>1, <2>1 DEF Shape, WithKey
  <2>3. files[q.file].key = q.key
    BY <1>0, <1>1, <2>1, <2>2, OwnFacts
  <2> QED
    BY <2>1, <2>3 DEF Remembered, Covers
<1>4. ASSUME NEW i \in FileIds, \E n \in Names : statics[n] = Root(files, i) PROVE Remembered(r, q2, i)
  BY <1>4 DEF Remembered
<1>5. \A k \in blobs' : ~Works(q, k)
  BY WorksWhere
<1>6. \A k \in blobs' : k \in blobs
  OBVIOUS
<1>7. \A t \in FileIds : attachments'[t].file # 0 => attachments'[t] = attachments[t]
  OBVIOUS
<1>8. \A n \in Names : statics'[n] # 0 => statics'[n] = statics[n]
  OBVIOUS
<1> QED
  BY <1>0, <1>1, <1>2, <1>3, <1>4, <1>5, <1>6, <1>7, <1>8, ForgetStays

(* AttachUpload hands the URL out with the attachment, or takes the family  *)
(* of the stored file.                                                      *)
LEMMA AttachForgets ==
  ASSUME Settled, NEW r \in Requests, AttachUpload(r)
  PROVE  ForgetParts'
<1> DEFINE q == req[r]
<1>0. r \in Actors
  BY Numbers
<1>1. /\ TypeOK /\ Shaped /\ VariantsRooted /\ RequestParts /\ ForgetParts /\ q \in Request /\ Shape(q)
      /\ Whole(files, lost, q) /\ \A c \in q.cands : RootRead(files, c.id, c.key)
  BY <1>0, SettledFacts
<1>2. UNCHANGED <<files, blobs, statics>> /\ q.pc = "attach"
  BY <1>1, AttachEffect
<1>3. PICK q2 \in Request :
         /\ Shape(q2) /\ Go(r, q2)
         /\ \/ Ends(q, q2) /\ CreateAttachment(q.file, q.arg) /\ issued' = issued \cup {q.key}
            \/ Removes(q, q2, q.file, q.key) /\ q.file \in FileIds /\ q.key \in Keys /\ UNCHANGED <<attachments, issued>>
  BY <1>1, AttachEffect
<1>4. lost \subseteq lost' /\ issued \subseteq issued'
  BY <1>0, MarksGrow DEF RequestStep
<1>5. q.key # 0 /\ q.file # 0 /\ q.file \in FileIds /\ q.arg \in Articles
  BY <1>1, <1>2 DEF Shape, WithKey, Request
<1>6. files[q.file].key = q.key /\ files[q.file].of = 0
  BY <1>0, <1>1, <1>5, OwnFacts
<1>7. \A i \in FileIds : Stored(i) /\ Covers(files, q, i) => q.file = Root(files, i)
  BY <1>1, <1>2, CoversFacts
<1>8. CASE Ends(q, q2) /\ CreateAttachment(q.file, q.arg) /\ issued' = issued \cup {q.key}
  <2>1. Whole(files, lost', q2)
    BY <1>1, <1>3, <1>8, WholeBlank DEF Ends
  <2>2. \A t \in FileIds : attachments'[t] = attachments[t] \/ attachments'[t].file = q.file
    BY <1>1, <1>5, <1>8, AttachmentFacts
  <2>3. \A t \in FileIds : attachments'[t].file # 0 =>
            attachments'[t] = attachments[t]
            \/ (files[attachments'[t].file].key \in issued' /\ files[attachments'[t].file].of = 0)
    BY <1>6, <1>8, <2>2
  <2>4. \A n \in Names : statics'[n] # 0 => statics'[n] = statics[n]
    BY <1>2
  <2>5. ASSUME NEW i \in FileIds, Stored(i), Covers(files, q, i) PROVE Remembered(r, q2, i)
    BY <1>6, <1>7, <1>8, <2>5 DEF Remembered
  <2>6. ASSUME NEW i \in FileIds, \E n \in Names : statics[n] = Root(files, i) PROVE Remembered(r, q2, i)
    BY <1>2, <2>6 DEF Remembered
  <2>7. \A k : ~Works(q, k)
    BY <1>2, WorksWhere
  <2>8. \A k \in blobs' : k \in blobs
    BY <1>2
  <2> QED
    BY <1>0, <1>1, <1>2, <1>3, <1>4, <2>1, <2>3, <2>4, <2>5, <2>6, <2>7, <2>8, ForgetStays
<1>9. CASE Removes(q, q2, q.file, q.key) /\ q.file \in FileIds /\ q.key \in Keys /\ UNCHANGED <<attachments, issued>>
  <2>1. RootRead(files, q.file, q.key)
    BY <1>6 DEF RootRead
  <2>2. Whole(files, lost', q2)
    BY <1>1, <1>3, <1>9, <2>1, RemovesWhole
  <2>3. ASSUME NEW i \in FileIds, Stored(i), Covers(files, q, i) PROVE Remembered(r, q2, i)
    <3>1. Covers(files, q2, i)
      BY <1>1, <1>6, <1>7, <1>9, <2>3, RemovesCovers
    <3> QED
      BY <3>1 DEF Remembered
  <2>4. UNCHANGED <<files, blobs, attachments, statics>>
    BY <1>2, <1>9
  <2> QED
    BY <1>0, <1>1, <1>2, <1>3, <1>4, <2>2, <2>3, <2>4, ForgetQuiet
<1> QED
  BY <1>3, <1>8, <1>9

(* ImportEntry hands the URL out, or lets the image and its variant go.     *)
LEMMA EntryForgets ==
  ASSUME Settled, NEW r \in Requests, ImportEntry(r)
  PROVE  ForgetParts'
<1> DEFINE q == req[r]
<1>0. r \in Actors
  BY Numbers
<1>1. /\ TypeOK /\ Shaped /\ VariantsRooted /\ RequestParts /\ ForgetParts /\ q \in Request /\ Shape(q)
      /\ Whole(files, lost, q) /\ \A c \in q.cands : RootRead(files, c.id, c.key)
  BY <1>0, SettledFacts
<1>2. UNCHANGED <<files, blobs, attachments, statics>> /\ q.pc = "embed"
  BY <1>1, EntryEffect
<1>3. PICK q2 \in Request : Shape(q2) /\ Go(r, q2) /\ Ends(q, q2)
  BY <1>1, EntryEffect
<1>4. q.key \in issued' \/ HeldKeys(q) \subseteq lost'
  BY <1>1, EntryEffect
<1>5. lost \subseteq lost' /\ issued \subseteq issued'
  BY <1>0, MarksGrow DEF RequestStep
<1>6. q.key # 0 /\ q.file # 0
  BY <1>1, <1>2 DEF Shape, WithKey
<1>7. files[q.file].key = q.key
  BY <1>0, <1>1, <1>6, OwnFacts
<1>8. Whole(files, lost', q2)
  BY <1>1, <1>3, WholeBlank DEF Ends
<1>9. ASSUME NEW i \in FileIds, Stored(i), Covers(files, q, i) PROVE Remembered(r, q2, i)
  <2>1. q.file = Root(files, i)
    BY <1>1, <1>2, <1>9, CoversFacts
  <2>2. files[i].key \in HeldKeys(q)
    BY <1>1, <1>9, CoveredHeld
  <2> QED
    BY <1>4, <1>7, <2>1, <2>2 DEF Remembered
<1> QED
  BY <1>0, <1>1, <1>2, <1>3, <1>5, <1>8, <1>9, ForgetQuiet

(* A static_files row that takes the stored file, and leaves one that is    *)
(* let go or in hand.                                                       *)
LEMMA NamingForgets ==
  ASSUME Settled, NEW r \in Actors, NEW q2 \in Request, Shape(q2), Go(r, q2), req[r].pc \in {"create", "swap"},
         UNCHANGED <<files, blobs, attachments>>, lost \subseteq lost', issued \subseteq issued', Whole(files, lost', q2),
         statics' = [statics EXCEPT ![req[r].arg] = req[r].file],
         \A i \in FileIds : Stored(i) /\ statics[req[r].arg] = Root(files, i) => Remembered(r, q2, i)
  PROVE  ForgetParts'
<1> DEFINE q == req[r]
<1>1. TypeOK /\ Shaped /\ VariantsRooted /\ RequestParts /\ ForgetParts /\ q \in Request /\ Shape(q)
  BY SettledFacts
<1>2. files[q.file].of = 0 /\ q.arg \in Names /\ statics \in StaticTable
  BY <1>1, OwnFacts, TableTypes DEF Shape, WithKey
<1>3. statics'[q.arg] = q.file /\ \A n \in Names : n # q.arg => statics'[n] = statics[n]
  BY <1>2 DEF StaticTable
<1>4. \A n \in Names : statics'[n] # 0 => statics'[n] = statics[n] \/ files[statics'[n]].of = 0
  BY <1>2, <1>3
<1>5. ASSUME NEW i \in FileIds, Stored(i), Covers(files, q, i) PROVE Remembered(r, q2, i)
  <2>1. q.file = Root(files, i)
    BY <1>1, <1>5, CoversFacts
  <2> QED
    BY <1>2, <1>3, <2>1 DEF Remembered
<1>6. ASSUME NEW i \in FileIds, Stored(i), NEW n \in Names, statics[n] = Root(files, i) PROVE Remembered(r, q2, i)
  <2>1. CASE n = q.arg
    BY <1>6, <2>1
  <2>2. CASE n # q.arg
    BY <1>3, <1>6, <2>2 DEF Remembered
  <2> QED
    BY <2>1, <2>2
<1>7. \A k : ~Works(q, k)
  BY WorksWhere
<1>8. \A t \in FileIds : attachments'[t].file # 0 => attachments'[t] = attachments[t]
  OBVIOUS
<1>9. \A k \in blobs' : k \in blobs
  OBVIOUS
<1> QED
  BY <1>1, <1>4, <1>5, <1>6, <1>7, <1>8, <1>9, ForgetStays

(* CreateStaticFile names the stored file, or purges it.                    *)
LEMMA CreateForgets ==
  ASSUME Settled, NEW r \in Requests, CreateStaticFile(r)
  PROVE  ForgetParts'
<1> DEFINE q == req[r]
<1>0. r \in Actors
  BY Numbers
<1>1. /\ TypeOK /\ Shaped /\ VariantsRooted /\ ForgetParts /\ q \in Request /\ Shape(q)
      /\ \A c \in q.cands : RootRead(files, c.id, c.key)
  BY <1>0, SettledFacts
<1>2. UNCHANGED <<files, blobs, attachments>> /\ q.pc = "create"
  BY <1>1, CreateEffect
<1>3. PICK q2 \in Request :
         /\ Shape(q2) /\ Go(r, q2)
         /\ \/ Ends(q, q2) /\ statics[q.arg] = 0 /\ statics' = [statics EXCEPT ![q.arg] = q.file]
            \/ PurgesOwn(q, q2) /\ UNCHANGED statics
  BY <1>1, CreateEffect
<1>4. lost \subseteq lost' /\ issued \subseteq issued'
  BY <1>0, MarksGrow DEF RequestStep
<1>5. CASE Ends(q, q2) /\ statics[q.arg] = 0 /\ statics' = [statics EXCEPT ![q.arg] = q.file]
  <2>1. Whole(files, lost', q2)
    BY <1>1, <1>3, <1>5, WholeBlank DEF Ends
  <2>2. \A i \in FileIds : Stored(i) => statics[q.arg] # Root(files, i)
    BY <1>1, <1>5, RootFacts
  <2> QED
    BY <1>0, <1>2, <1>3, <1>4, <1>5, <2>1, <2>2, NamingForgets
<1>6. CASE PurgesOwn(q, q2) /\ UNCHANGED statics
  <2>1. /\ Whole(files, lost', q2)
        /\ \A i \in FileIds : Stored(i) /\ Covers(files, q, i) => Remembered(r, q2, i)
    BY <1>0, <1>2, <1>3, <1>6, OwnPurgeHeld DEF Remembered
  <2>2. UNCHANGED <<files, blobs, attachments, statics>>
    BY <1>2, <1>6
  <2> QED
    BY <1>0, <1>1, <1>2, <1>3, <1>4, <2>1, <2>2, ForgetQuiet
<1> QED
  BY <1>3, <1>5, <1>6

(* UpdateStaticFile goes on with the file it replaced, or lets it go: the   *)
(* row it read has that id, or had it for another file.                     *)
LEMMA UpdateForgets ==
  ASSUME Settled, NEW r \in Requests, UpdateStaticFile(r)
  PROVE  ForgetParts'
<1> DEFINE q == req[r]
<1>0. r \in Actors
  BY Numbers
<1>1. /\ TypeOK /\ Shaped /\ OneHome /\ VariantsRooted /\ StaticsOriginal /\ ForgetParts /\ q \in Request /\ Shape(q)
      /\ Whole(files, lost, q) /\ \A c \in q.cands : RootRead(files, c.id, c.key)
  BY <1>0, SettledFacts
<1>2. UNCHANGED <<files, blobs, attachments>> /\ q.pc = "swap"
  BY <1>1, SwapEffect
<1>3. PICK q2 \in Request :
         /\ Shape(q2) /\ Go(r, q2)
         /\ \/ /\ (Ends(q, q2) /\ q.old = 0) \/ PurgesOld(q, q2)
               /\ Stored(q.file) /\ statics[q.arg] = q.seen
               /\ lost' = IF files[q.seen].key = q.oldKey THEN lost ELSE lost \cup FamilyKeys(q.seen)
               /\ statics' = [statics EXCEPT ![q.arg] = q.file]
            \/ PurgesOwn(q, q2) /\ UNCHANGED statics
  BY <1>1, SwapEffect
<1>4. lost \subseteq lost' /\ issued \subseteq issued'
  BY <1>0, MarksGrow DEF RequestStep
<1>5. CASE /\ (Ends(q, q2) /\ q.old = 0) \/ PurgesOld(q, q2)
           /\ statics[q.arg] = q.seen
           /\ lost' = IF files[q.seen].key = q.oldKey THEN lost ELSE lost \cup FamilyKeys(q.seen)
           /\ statics' = [statics EXCEPT ![q.arg] = q.file]
  <2>1. Whole(files, lost', q2)
    <3>1. CASE Ends(q, q2)
      BY <1>1, <1>3, <3>1, WholeBlank DEF Ends
    <3>2. CASE PurgesOld(q, q2)
      <4>1. q2.pc = "check" /\ q2.old = q.old /\ q2.oldKey = q.oldKey /\ q2.cands = q.cands /\ q2.doomed = {}
        BY <1>3, <3>2 DEF PurgesOld, Shape
      <4> QED
        BY <1>1, <4>1 DEF Whole, FamilyWhole
    <3> QED
      BY <1>5, <3>1, <3>2
  <2>2. ASSUME NEW i \in FileIds, Stored(i), statics[q.arg] = Root(files, i) PROVE Remembered(r, q2, i)
    <3>1. /\ q.seen = Root(files, i) /\ q.seen # 0 /\ q.seen \in FileIds /\ files[q.seen].key \in Keys
          /\ q.arg \in Names /\ (i = q.seen \/ files[i].of = q.seen)
      BY <1>1, <1>2, <1>5, <2>2, RootFacts DEF Shape
    <3>2. files[i].key \in FamilyKeys(q.seen)
      BY <1>1, <2>2, <3>1, RootFacts DEF FamilyKeys, ListFileVariants
    <3>3. CASE files[q.seen].key # q.oldKey
      <4>1. files[i].key \in lost'
        BY <1>5, <3>2, <3>3
      <4> QED
        BY <4>1 DEF Remembered
    <3>4. CASE files[q.seen].key = q.oldKey
      <4>1. q.oldKey # 0 /\ q.oldKey \in Keys /\ q.old # 0 /\ q.old \in FileIds
        BY <1>1, <3>1, <3>4, Numbers DEF Shape, Request
      <4>2. Known(q.old, q.oldKey) /\ Known(q.seen, q.oldKey)
        BY <1>0, <3>4 DEF Known, Keeps
      <4>3. q.old = q.seen
        BY <1>1, <3>1, <4>1, <4>2 DEF OneHome
      <4>4. Covers(files, q2, i)
        BY <1>5, <3>1, <3>4, <4>1, <4>3 DEF Covers, PurgesOld
      <4> QED
        BY <4>4 DEF Remembered
    <3> QED
      BY <3>3, <3>4
  <2> QED
    BY <1>0, <1>2, <1>3, <1>4, <1>5, <2>1, <2>2, NamingForgets
<1>6. CASE PurgesOwn(q, q2) /\ UNCHANGED statics
  <2>1. /\ Whole(files, lost', q2)
        /\ \A i \in FileIds : Stored(i) /\ Covers(files, q, i) => Remembered(r, q2, i)
    BY <1>0, <1>2, <1>3, <1>6, OwnPurgeHeld DEF Remembered
  <2>2. UNCHANGED <<files, blobs, attachments, statics>>
    BY <1>2, <1>6
  <2> QED
    BY <1>0, <1>1, <1>2, <1>3, <1>4, <2>1, <2>2, ForgetQuiet
<1> QED
  BY <1>3, <1>5, <1>6

(* A row that the foreign key keeps is named, or a root with variants.      *)
LEMMA RefusedFacts ==
  ASSUME Settled, NEW i \in FileIds, Stored(i), DeleteRefused(i)
  PROVE  /\ files[i].of = 0
         /\ \/ files[i].key \in issued
            \/ \E n \in Names : statics[n] = i
            \/ \E w \in FileIds : files[w].of = i
<1>1. Reaper \in Actors /\ i # 0
  BY Numbers DEF Stored
<1>2. VariantsRooted /\ AttachedIssued /\ StaticsOriginal
  BY <1>1, SettledFacts
<1>3. CASE CountAttachmentsForFile(i, attachments)
  BY <1>1, <1>2, <1>3 DEF CountAttachmentsForFile, AttachedIssued
<1>4. CASE CountStaticFilesForFile(i)
  BY <1>1, <1>2, <1>4 DEF CountStaticFilesForFile, StaticsOriginal
<1>5. CASE ListFileVariants(i) # {}
  <2>1. PICK w \in FileIds : files[w].of = i
    BY <1>5 DEF ListFileVariants
  <2> QED
    BY <1>1, <1>2, <2>1 DEF VariantsRooted
<1> QED
  BY <1>3, <1>4, <1>5 DEF DeleteRefused, Named

(* A removal takes the variants first.                                      *)
LEMMA VictimOrder ==
  ASSUME NEW q, NEW e \in q.doomed, e.of # 0
  PROVE  Victim(q).of # 0
  BY DEF Victim

(* A victim that DeleteRow leaves is named, has a variant that was let go,  *)
(* or is let go itself.                                                     *)
LEMMA LeftForgets ==
  ASSUME Settled, NEW r \in Actors, NEW q2 \in Request, Shape(q2), Go(r, q2), req[r].pc = "delete",
         UNCHANGED <<files, blobs, attachments, statics>>, lost \subseteq lost', issued \subseteq issued',
         Ends(req[r], q2) \/ Skips(req[r], q2), Leaves(req[r], q2)
  PROVE  ForgetParts'
<1> DEFINE q == req[r]
           v == Victim(q)
<1>1. /\ TypeOK /\ Shaped /\ OneHome /\ VariantsRooted /\ ForgetParts /\ q \in Request /\ Shape(q)
      /\ Whole(files, lost, q) /\ \A c \in q.cands : RootRead(files, c.id, c.key)
  BY SettledFacts
<1>2. q.doomed # {} /\ q.op # "article" /\ q2.oldKey = 0 /\ q2.pc \in {"idle", "examine", "delete"} /\ q2.cands \subseteq q.cands
  BY <1>1 DEF Shape, Ends, Skips
<1>3. v \in q.doomed /\ v.id \in FileIds /\ v.key \in Keys
  BY <1>1, <1>2, VictimFacts, KeyFacts
<1>4. q2.doomed = q.doomed \ {v} /\ (DeleteRefused(v.id) \/ HeldKeys(q) \subseteq lost')
  BY DEF Leaves
<1>5. FamilyWhole(files, lost, q) /\ \A d \in q.doomed : files[d.id].key = d.key => files[d.id].of = d.of
  BY <1>1, <1>2 DEF Whole
<1>6. ASSUME NEW d \in q.doomed, NEW i \in FileIds, files[i].key = d.key PROVE d.id = i /\ Stored(i)
  <2>1. Known(d.id, d.key) /\ Known(i, d.key) /\ d.id \in FileIds /\ d.key \in Keys
    BY <1>1, <1>6, KeyFacts DEF Known, Keeps
  <2>2. d.id = i
    BY <1>1, <2>1 DEF OneHome
  <2> QED
    BY <1>1, <1>6, <2>1, <2>2, RowFacts, Numbers
<1>7. ASSUME NEW i \in FileIds, files[i].key = v.key, files[i].of # 0 PROVE HeldKeys(q) \subseteq lost'
  <2>1. i = v.id /\ Stored(i)
    BY <1>3, <1>6, <1>7
  <2> QED
    BY <1>4, <1>7, <2>1, RefusedFacts
<1>8. FamilyWhole(files, lost', q2)
  <2> SUFFICES ASSUME NEW d \in q2.doomed, d.of = 0, files[d.id].key = d.key, d.key \notin lost', NEW w \in FileIds,
                      files[w].of = d.id
               PROVE  \E e \in q2.doomed : e.of # 0 /\ e.key = files[w].key
    BY DEF FamilyWhole
  <2>1. d \in q.doomed /\ d.key \notin lost /\ d.key \in HeldKeys(q)
    BY <1>1, <1>4, KeyFacts DEF HeldKeys, Held
  <2>2. PICK e \in q.doomed : e.of # 0 /\ e.key = files[w].key
    BY <1>5, <2>1 DEF FamilyWhole
  <2>3. files[w].of # 0
    BY <1>1, <2>1, KeyFacts, Numbers
  <2>4. e # v
    BY <1>7, <2>1, <2>2, <2>3
  <2> QED
    BY <1>4, <2>2, <2>4
<1>9. Whole(files, lost', q2)
  <2>1. \A d \in q2.doomed : files[d.id].key = d.key => files[d.id].of = d.of
    BY <1>4, <1>5
  <2> QED
    BY <1>1, <1>2, <1>8, <2>1 DEF Whole
<1>10. ASSUME NEW i \in FileIds, Stored(i), Covers(files, q, i) PROVE Remembered(r, q2, i)
  <2>1. PICK d \in q.doomed : d.key = files[i].key
    BY <1>1, <1>10, CoversFacts DEF WithKey
  <2>2. CASE d # v
    BY <1>4, <2>1, <2>2 DEF Remembered, Covers
  <2>3. CASE d = v /\ HeldKeys(q) \subseteq lost'
    BY <1>1, <1>10, <2>3, CoveredHeld DEF Remembered
  <2>4. CASE d = v /\ DeleteRefused(v.id)
    <3>1. i = v.id /\ files[i].key = v.key
      BY <1>6, <2>1, <2>4
    <3>2. files[i].of = 0 /\ Root(files, i) = i
      BY <1>1, <1>10, <2>4, <3>1, RefusedFacts, RootFacts
    <3>3. CASE \E w \in FileIds : files[w].of = i
      <4>1. v.of = 0
        BY <1>3, <1>5, <3>1, <3>2
      <4>2. ~ \E e \in q.doomed : e.of # 0
        BY <4>1, VictimOrder
      <4>3. v.key \in lost
        BY <1>3, <1>5, <3>1, <3>3, <4>1, <4>2 DEF FamilyWhole
      <4> QED
        BY <3>1, <4>3 DEF Remembered
    <3>4. CASE files[i].key \in issued \/ \E n \in Names : statics[n] = i
      BY <3>2, <3>4 DEF Remembered
    <3> QED
      BY <1>10, <2>4, <3>1, <3>3, <3>4, RefusedFacts
  <2> QED
    BY <1>4, <2>2, <2>3, <2>4
<1>11. q.pc \notin {"row", "vrow", "unlink"}
  OBVIOUS
<1> QED
  BY <1>1, <1>9, <1>10, <1>11, ForgetQuiet

(* Unlink takes the blob of a key that no row has.                          *)
LEMMA UnlinkForgets ==
  ASSUME Settled, NEW r \in Actors, Unlink(r)
  PROVE  ForgetParts'
<1> DEFINE q == req[r]
           v == Victim(q)
<1>1. /\ TypeOK /\ Shaped /\ UnlinkedHasNoRow /\ unrestored = {} /\ VariantsRooted /\ ForgetParts /\ q \in Request /\ Shape(q)
      /\ Whole(files, lost, q) /\ \A c \in q.cands : RootRead(files, c.id, c.key)
  BY SettledFacts
<1>2. UNCHANGED <<files, attachments, statics>> /\ q.pc = "unlink" /\ v \in q.doomed /\ blobs' = blobs \ {v.key}
  BY <1>1, UnlinkEffect
<1>3. PICK q2 \in Request :
         /\ Shape(q2) /\ Go(r, q2)
         /\ \/ Ends(q, q2) /\ q.doomed = {v}
            \/ /\ q2.pc = IF q.op = "article" THEN "unlink" ELSE "delete"
               /\ q2.op = q.op /\ q2.cands = q.cands /\ q2.doomed = q.doomed \ {v}
  BY <1>1, UnlinkEffect
<1>4. lost \subseteq lost' /\ issued \subseteq issued'
  BY MarksGrow
<1>5. v \in Going(q)
  BY <1>2 DEF Going
<1>6. \A i \in FileIds : files[i].key # v.key
  BY <1>1, <1>5 DEF UnlinkedHasNoRow
<1>7. q2.cands \subseteq q.cands /\ q2.oldKey = 0 /\ q2.doomed = q.doomed \ {v}
  BY <1>3 DEF Ends, Shape
<1>8. q2.op # "article" => FamilyWhole(files, lost', q2)
  <2> SUFFICES ASSUME q2.op # "article", NEW d \in q2.doomed, d.of = 0, files[d.id].key = d.key, d.key \notin lost',
                      NEW w \in FileIds, files[w].of = d.id
               PROVE  \E e \in q2.doomed : e.of # 0 /\ e.key = files[w].key
    BY DEF FamilyWhole
  <2>1. d \in q.doomed /\ d.key \notin lost /\ q.op # "article"
    BY <1>3, <1>4, <1>7 DEF Ends, Shape
  <2>2. PICK e \in q.doomed : e.of # 0 /\ e.key = files[w].key
    BY <1>1, <2>1 DEF Whole, FamilyWhole
  <2>3. e # v
    BY <1>6, <2>2
  <2> QED
    BY <1>7, <2>2, <2>3
<1>9. Whole(files, lost', q2)
  <2>1. q2.pc \in {"idle", "examine", "delete", "unlink"}
    BY <1>3 DEF Ends
  <2> QED
    BY <1>1, <1>7, <1>8, <2>1 DEF Whole
<1>10. ASSUME NEW i \in FileIds, Stored(i), Covers(files, q, i) PROVE Remembered(r, q2, i)
  <2>1. PICK d \in q.doomed : d.key = files[i].key
    BY <1>1, <1>2, <1>10, CoversFacts DEF WithKey
  <2> QED
    BY <1>6, <1>7, <2>1 DEF Remembered, Covers
<1>11. ASSUME NEW i \in FileIds, \E n \in Names : statics[n] = Root(files, i) PROVE Remembered(r, q2, i)
  BY <1>2, <1>11 DEF Remembered
<1>12. ASSUME NEW k \in blobs', Works(q, k) PROVE Works(q2, k)
  <2>1. PICK d \in Going(q) : d.key = k
    BY <1>2, <1>12, WorksWhere
  <2>2. d # v
    BY <1>2, <1>12, <2>1
  <2>3. q.op = "article" /\ d \in q2.doomed
    BY <1>2, <1>7, <2>1, <2>2 DEF Going
  <2>4. q2.pc = "unlink" /\ q2.op = "article"
    BY <1>3, <2>3, <1>7 DEF Ends, Shape
  <2> QED
    BY <2>1, <2>3, <2>4 DEF Works, Going
<1>13. \A t \in FileIds : attachments'[t].file # 0 => attachments'[t] = attachments[t]
  BY <1>2
<1>14. \A n \in Names : statics'[n] # 0 => statics'[n] = statics[n]
  BY <1>2
<1>15. \A k \in blobs' : k \in blobs
  BY <1>2
<1> QED
  BY <1>1, <1>2, <1>3, <1>4, <1>9, <1>10, <1>11, <1>12, <1>13, <1>14, <1>15, ForgetStays

(* Rows that go leave what requests have read of the others.                *)
LEMMA WholeShrinks ==
  ASSUME TypeOK, \A i \in FileIds : files'[i] \in {files[i], NoFile}, NEW q \in Request, Shape(q),
         NEW l, NEW m, l \subseteq m, Whole(files, l, q)
  PROVE  Whole(files', m, q)
<1>1. /\ \A d \in q.doomed \cup q.cands : d.id \in FileIds /\ d.key \in Keys /\ d.key # 0
      /\ q.file # 0 => q.file \in FileIds
      /\ q.oldKey # 0 => q.old \in FileIds /\ q.oldKey \in Keys
  BY Numbers DEF Request, FileRef, Shape
<1>2. NoFile.key = 0 /\ NoFile.of = 0
  BY DEF NoFile
<1>3. \A x \in FileIds, k \in Keys : RootRead(files, x, k) => RootRead(files', x, k)
  BY <1>2 DEF RootRead
<1>4. q.oldKey # 0 => RootRead(files', q.old, q.oldKey)
  BY <1>1, <1>3 DEF Whole
<1>5. \A c \in q.cands : RootRead(files', c.id, c.key)
  BY <1>1, <1>3 DEF Whole
<1>6. \A d \in q.doomed : files'[d.id].key = d.key => files'[d.id] = files[d.id]
  BY <1>1, <1>2
<1>7. \A d \in q.doomed : files'[d.id].key = d.key => files'[d.id].of = d.of
  BY <1>6 DEF Whole
<1>8. FamilyWhole(files, l, q) => FamilyWhole(files', m, q)
  <2> SUFFICES ASSUME FamilyWhole(files, l, q), NEW d \in q.doomed, d.of = 0, files'[d.id].key = d.key, d.key \notin m,
                      NEW w \in FileIds, files'[w].of = d.id
               PROVE  \E e \in q.doomed : e.of # 0 /\ e.key = files'[w].key
    BY DEF FamilyWhole
  <2>1. files[d.id].key = d.key /\ d.id # 0 /\ d.key \notin l
    BY <1>1, <1>6, Numbers
  <2>2. files'[w] = files[w]
    BY <1>2, <2>1
  <2> QED
    BY <2>1, <2>2 DEF FamilyWhole
<1> QED
  BY <1>4, <1>5, <1>7, <1>8 DEF Whole

(* Rows that nothing names go with their variants, and the request unlinks  *)
(* their blobs.                                                             *)
LEMMA GoneForgets ==
  ASSUME Settled, NEW r \in Actors, NEW q2 \in Request, Shape(q2), Go(r, q2), Whole(files', lost', q2),
         req[r].pc \notin {"row", "vrow", "unlink"}, UNCHANGED <<blobs, statics>>,
         lost \subseteq lost', issued \subseteq issued',
         \A i \in FileIds : files'[i] \in {files[i], NoFile},
         \A t \in FileIds : attachments'[t] \in {attachments[t], NoAttachment},
         \A i \in FileIds : Stored(i) /\ files'[i] = NoFile =>
            /\ \A w \in FileIds : files'[w].of # i
            /\ \A t \in FileIds : attachments'[t].file # i
            /\ \A n \in Names : statics[n] # i
            /\ Works(q2, files[i].key),
         \A i \in FileIds : Stored(i) /\ Covers(files, req[r], i) => \E d \in q2.doomed : d.key = files[i].key
  PROVE  ForgetParts'
<1>1. /\ TypeOK /\ Shaped /\ TableParts /\ VariantsRooted /\ AttachedIssued /\ StaticsOriginal /\ ForgetParts
      /\ RequestsWhole /\ RowsCovered /\ BlobsCovered
  BY SettledFacts DEF ForgetParts
<1>2. req'[r] = q2 /\ \A s \in Actors \ {r} : req'[s] = req[s]
  BY <1>1, GoShape DEF TypeOK, FilesTypeOK, Shaped
<1>3. NoFile.key = 0 /\ NoFile.of = 0 /\ NoAttachment.file = 0
  BY DEF NoFile, NoAttachment
<1>4. ASSUME NEW i \in FileIds, files'[i] # NoFile
      PROVE  /\ files'[i] = files[i] /\ Stored(i) /\ Root(files', i) = Root(files, i)
             /\ Root(files, i) \in FileIds /\ files'[Root(files, i)] = files[Root(files, i)]
  <2>1. files'[i] = files[i]
    BY <1>4
  <2>2. Stored(i)
    BY <1>4, <2>1, Numbers DEF Stored
  <2>3. /\ Root(files, i) \in FileIds /\ Stored(Root(files, i))
        /\ Root(files, i) = i \/ files[i].of = Root(files, i)
    BY <1>1, <2>2, RootFacts
  <2>4. files'[Root(files, i)] = files[Root(files, i)]
    BY <2>1, <2>3
  <2> QED
    BY <2>1, <2>2, <2>3, <2>4 DEF Root
<1>5. VariantsRooted'
  <2>1. ASSUME NEW i \in FileIds, files'[i].of # 0
        PROVE  files'[files'[i].of] # NoFile /\ files'[files'[i].of].of = 0
    <3>1. files'[i] = files[i]
      BY <1>3, <2>1
    <3>2. files[i].of \in FileIds /\ Stored(files[i].of) /\ files[files[i].of].of = 0
      BY <1>1, <2>1, <3>1, RowFacts DEF VariantsRooted
    <3>3. files'[files[i].of] = files[files[i].of]
      BY <3>1, <3>2
    <3> QED
      BY <3>1, <3>2, <3>3 DEF Stored
  <2> QED
    BY <2>1, ForgetNext
<1>6. AttachedIssued'
  <2>1. ASSUME NEW t \in FileIds, attachments'[t].file # 0
        PROVE  files'[attachments'[t].file].key \in issued' /\ files'[attachments'[t].file].of = 0
    <3>1. attachments'[t] = attachments[t]
      BY <1>3, <2>1
    <3>2. /\ attachments[t].file \in FileIds /\ Stored(attachments[t].file)
          /\ files[attachments[t].file].key \in issued /\ files[attachments[t].file].of = 0
      BY <1>1, <2>1, <3>1, KeyFacts DEF AttachedIssued, TableParts, AttachedStored
    <3>3. files'[attachments[t].file] = files[attachments[t].file]
      BY <3>1, <3>2
    <3> QED
      BY <3>1, <3>2, <3>3
  <2> QED
    BY <2>1, ForgetNext
<1>7. StaticsOriginal'
  <2>1. ASSUME NEW n \in Names, statics[n] # 0 PROVE files'[statics[n]].of = 0
    <3>1. statics[n] \in FileIds /\ files[statics[n]].of = 0
      BY <1>1, <2>1, KeyFacts DEF StaticsOriginal
    <3> QED
      BY <1>3, <3>1
  <2> QED
    BY <2>1, ForgetNext
<1>8. RequestsWhole'
  <2>1. ASSUME NEW s \in Actors PROVE Whole(files', lost', req'[s])
    <3>1. CASE s = r
      BY <1>2, <3>1
    <3>2. CASE s # r
      <4>1. Whole(files, lost, req[s]) /\ req[s] \in Request /\ Shape(req[s])
        BY SettledFacts
      <4>2. Whole(files', lost', req[s])
        BY <1>1, <4>1, WholeShrinks
      <4> QED
        BY <1>2, <3>2, <4>2
    <3> QED
      BY <3>1, <3>2
  <2> QED
    BY <2>1, ForgetNext
<1>9. RowsCovered'
  <2>1. ASSUME NEW i \in FileIds, files'[i] # NoFile
        PROVE  \/ files'[Root(files', i)].key \in issued' \/ files'[i].key \in lost'
               \/ \E n \in Names : statics'[n] = Root(files', i)
               \/ \E s \in Actors : Covers(files', req'[s], i)
    <3>1. /\ files'[i] = files[i] /\ Stored(i) /\ Root(files', i) = Root(files, i)
          /\ files'[Root(files, i)] = files[Root(files, i)]
      BY <1>4, <2>1
    <3>2. CASE files[Root(files, i)].key \in issued \/ files[i].key \in lost \/ \E n \in Names : statics[n] = Root(files, i)
      BY <3>1, <3>2
    <3>3. ASSUME NEW s \in Actors, Covers(files, req[s], i) PROVE Covers(files', req'[s], i)
      <4>1. CASE s = r
        BY <1>2, <3>1, <3>3, <4>1 DEF Covers
      <4>2. CASE s # r
        BY <1>2, <3>1, <3>3, <4>2 DEF Covers
      <4> QED
        BY <4>1, <4>2
    <3> QED
      BY <1>1, <3>1, <3>2, <3>3 DEF RowsCovered
  <2> QED
    BY <2>1, ForgetNext
<1>10. BlobsCovered'
  <2>1. ASSUME NEW k \in blobs
        PROVE  k \in lost' \/ (\E i \in FileIds : files'[i].key = k) \/ \E s \in Actors : Works(req'[s], k)
    <3>1. CASE k \in lost
      BY <3>1
    <3>2. ASSUME NEW i \in FileIds, files[i].key = k
          PROVE  (\E j \in FileIds : files'[j].key = k) \/ \E s \in Actors : Works(req'[s], k)
      <4>1. k # 0
        BY <1>1, <2>1, TableTypes, Numbers
      <4>2. Stored(i)
        BY <1>1, <3>2, <4>1, RowFacts
      <4>3. CASE files'[i] = files[i]
        BY <3>2, <4>3
      <4>4. CASE files'[i] = NoFile
        BY <1>2, <3>2, <4>2, <4>4
      <4> QED
        BY <4>3, <4>4
    <3>3. ASSUME NEW s \in Actors, Works(req[s], k) PROVE Works(req'[s], k)
      BY <1>2, <3>3, WorksWhere
    <3> QED
      BY <1>1, <2>1, <3>1, <3>2, <3>3 DEF BlobsCovered
  <2> QED
    BY <2>1, ForgetNext
<1> QED
  BY <1>5, <1>6, <1>7, <1>8, <1>9, <1>10 DEF ForgetParts, TablesWhole

(* DeleteRow takes the row it read, which nothing names, and its blob next. *)
LEMMA DeleteForgets ==
  ASSUME Settled, ~mistaken', NEW r \in Actors, DeleteRow(r)
  PROVE  ForgetParts'
<1> DEFINE q == req[r]
           v == Victim(q)
<1>1. /\ TypeOK /\ Shaped /\ VariantsRooted /\ q \in Request /\ Shape(q) /\ Whole(files, lost, q)
  BY SettledFacts
<1>2. UNCHANGED <<blobs, attachments, statics, issued>> /\ q.pc = "delete" /\ v \in q.doomed
  BY <1>1, DeleteEffect
<1>3. PICK q2 \in Request :
         /\ Shape(q2) /\ Go(r, q2)
         /\ \/ /\ ~DeleteRefused(v.id) /\ files' = [files EXCEPT ![v.id] = NoFile]
               /\ mistaken' = (mistaken \/ files[v.id].key \notin {0, v.key})
               /\ q2.pc = "unlink" /\ q2.op = q.op /\ q2.doomed = q.doomed /\ q2.cands = q.cands
            \/ Ends(q, q2) /\ UNCHANGED <<files, mistaken>> /\ Leaves(q, q2)
            \/ Skips(q, q2) /\ UNCHANGED <<files, mistaken>> /\ Leaves(q, q2)
  BY <1>1, DeleteEffect
<1>4. lost \subseteq lost' /\ issued \subseteq issued'
  BY MarksGrow
<1>5. CASE (Ends(q, q2) \/ Skips(q, q2)) /\ UNCHANGED files /\ Leaves(q, q2)
  <2>1. UNCHANGED <<files, blobs, attachments, statics>>
    BY <1>2, <1>5
  <2> QED
    BY <1>2, <1>3, <1>4, <1>5, <2>1, LeftForgets
<1>6. CASE /\ ~DeleteRefused(v.id) /\ files' = [files EXCEPT ![v.id] = NoFile]
           /\ mistaken' = (mistaken \/ files[v.id].key \notin {0, v.key})
           /\ q2.pc = "unlink" /\ q2.op = q.op /\ q2.doomed = q.doomed /\ q2.cands = q.cands
  <2>1. v.id \in FileIds /\ v.key \in Keys /\ files \in FileTable
    BY <1>1, <1>2, KeyFacts, TableTypes
  <2>2. \A i \in FileIds : files'[i] = IF i = v.id THEN NoFile ELSE files[i]
    BY <1>6, <2>1 DEF FileTable
  <2>3. files[v.id].key = 0 \/ files[v.id].key = v.key
    BY <1>6
  <2>4. q.op # "article" /\ q2.oldKey = 0
    BY <1>1, <1>2, <1>3, <1>6 DEF Shape
  <2>14. Victim(q2) = v
    <3>1. q2.doomed = q.doomed
      BY <1>6
    <3> QED
      BY <3>1 DEF Victim
  <2>5. Whole(files, lost, q2)
    BY <1>1, <1>6, <2>4 DEF Whole, FamilyWhole
  <2>6. \A i \in FileIds : files'[i] \in {files[i], NoFile}
    BY <2>2
  <2>7. Whole(files', lost', q2)
    BY <1>1, <1>3, <1>4, <2>5, <2>6, WholeShrinks
  <2>8. \A t \in FileIds : attachments'[t] \in {attachments[t], NoAttachment}
    BY <1>2
  <2>9. Works(q2, v.key)
    BY <1>6, <2>4, <2>14 DEF Works, Going
  <2>10. ASSUME NEW i \in FileIds, Stored(i), files'[i] = NoFile
         PROVE  /\ \A w \in FileIds : files'[w].of # i
                /\ \A t \in FileIds : attachments'[t].file # i
                /\ \A n \in Names : statics[n] # i
                /\ Works(q2, files[i].key)
    <3>1. i = v.id
      BY <2>2, <2>10 DEF Stored
    <3>2. files[i].key # 0
      BY <1>1, <2>10, RowFacts
    <3>3. ~Named(i) /\ ListFileVariants(i) = {}
      BY <1>6, <3>1 DEF DeleteRefused
    <3>4. ASSUME NEW w \in FileIds PROVE files'[w].of # i
      <4>1. files[w].of # i
        BY <1>1, <3>3, RowFacts, Numbers DEF ListFileVariants
      <4> QED
        BY <2>2, <4>1, Numbers DEF NoFile
    <3>5. (\A t \in FileIds : attachments[t].file # i) /\ \A n \in Names : statics[n] # i
      BY <3>3 DEF Named, CountAttachmentsForFile, CountStaticFilesForFile
    <3> QED
      BY <1>2, <2>3, <2>9, <3>1, <3>2, <3>4, <3>5
  <2>11. ASSUME NEW i \in FileIds, Stored(i), Covers(files, q, i) PROVE \E d \in q2.doomed : d.key = files[i].key
    BY <1>1, <1>2, <1>6, <2>11, CoversFacts DEF WithKey
  <2>12. UNCHANGED <<blobs, statics>>
    BY <1>2
  <2>13. q.pc \notin {"row", "vrow", "unlink"}
    BY <1>2
  <2> QED
    BY <1>3, <1>4, <2>6, <2>7, <2>8, <2>10, <2>11, <2>12, <2>13, GoneForgets
<1> QED
  BY <1>3, <1>5, <1>6

(* DestroyArticle takes files that nothing else names, and unlinks the      *)
(* blobs of all the rows that went.                                         *)
LEMMA DestroyForgets ==
  ASSUME Settled, NEW r \in Requests, DestroyArticle(r)
  PROVE  ForgetParts'
<1>0. r \in Actors
  BY Numbers
<1>1. TypeOK /\ Shaped /\ VariantsRooted /\ StaticsOriginal /\ AttachedIssued /\ TableParts /\ req[r] \in Request /\ Shape(req[r])
  BY <1>0, SettledFacts
<1>2. UNCHANGED <<blobs, statics, issued, lost>> /\ req[r] = Idle
  BY DEF DestroyArticle
<1>3. PICK a \in articles, D \in SUBSET FileIds :
         /\ attachments' = DeleteAttachmentsForRecord(a)
         /\ files' = [i \in FileIds |-> IF i \in D \/ files[i].of \in D THEN NoFile ELSE files[i]]
         /\ \A i \in D : /\ Stored(i) /\ i \in Attached(a)
                         /\ \A j \in {i} \cup ListFileVariants(i) : ~FileReferenced(j, attachments', bodies')
         /\ \/ D = {} /\ UNCHANGED req
            \/ \E q2 \in Request :
                  /\ Shape(q2) /\ Go(r, q2) /\ q2.pc = "unlink" /\ q2.op = "article" /\ q2.cands = {}
                  /\ q2.doomed = UNION {Family(i, files[i].key) : i \in D}
  BY <1>1, DestroyEffect
<1>4. \A i \in FileIds : files'[i] = IF i \in D \/ files[i].of \in D THEN NoFile ELSE files[i]
  BY <1>3
<1>5. \A i \in FileIds : files'[i] \in {files[i], NoFile}
  BY <1>4
<1>6. \A t \in FileIds : attachments'[t] \in {attachments[t], NoAttachment}
  BY <1>1, <1>3, DetachFacts
<1>7. ASSUME NEW i \in FileIds, Stored(i), files'[i] = NoFile
      PROVE  /\ \A w \in FileIds : files'[w].of # i
             /\ \A t \in FileIds : attachments'[t].file # i
             /\ \A n \in Names : statics[n] # i
  <2>1. PICK j \in D : i = j \/ (files[i].of = j /\ i \in ListFileVariants(j))
    BY <1>4, <1>7 DEF Stored, ListFileVariants
  <2>2. ~FileReferenced(i, attachments', bodies')
    BY <1>3, <2>1
  <2>3. (\A t \in FileIds : attachments'[t].file # i) /\ \A n \in Names : statics[n] # i
    BY <2>2 DEF FileReferenced, CountAttachmentsForFile, CountStaticFilesForFile
  <2>4. ASSUME NEW w \in FileIds, files'[w].of = i PROVE FALSE
    <3>1. files'[w] = files[w] /\ files[w].of = i
      BY <1>4, <2>4, Numbers DEF NoFile
    <3>2. files[i].of = 0
      BY <1>1, <3>1, Numbers DEF VariantsRooted
    <3>3. i \in D
      BY <2>1, <3>2, Numbers
    <3> QED
      BY <1>4, <2>4, <3>1, <3>3, Numbers DEF NoFile
  <2> QED
    BY <2>3, <2>4
<1>8. \A i \in FileIds : Stored(i) => ~Covers(files, req[r], i)
  BY <1>1, <1>2, CoversFacts DEF WithKey, Idle
<1>9. req[r].pc \notin {"row", "vrow", "unlink"}
  BY <1>2 DEF Idle
<1>10. lost \subseteq lost' /\ issued \subseteq issued'
  BY <1>2
<1>11. UNCHANGED <<blobs, statics>>
  BY <1>2
<1>12. CASE D = {} /\ UNCHANGED req
  <2>1. Go(r, req[r])
    BY <1>0, <1>1, <1>12 DEF Go, TypeOK, FilesTypeOK
  <2>2. \A i \in FileIds : Stored(i) => files'[i] # NoFile
    BY <1>4, <1>12 DEF Stored
  <2>3. Whole(files', lost', req[r])
    <3>1. req[r].cands = {}
      BY <1>2 DEF Idle
    <3>2. req[r].pc = "idle"
      BY <1>2 DEF Idle
    <3> QED
      BY <1>1, <3>1, <3>2, WholeBlank
  <2> QED
    BY <1>0, <1>1, <1>5, <1>6, <1>8, <1>9, <1>10, <1>11, <2>1, <2>2, <2>3, GoneForgets
<1>13. ASSUME NEW q2 \in Request, Shape(q2), Go(r, q2), q2.pc = "unlink", q2.op = "article", q2.cands = {},
              q2.doomed = UNION {Family(i, files[i].key) : i \in D}
       PROVE  ForgetParts'
  <2>1. ASSUME NEW d \in q2.doomed PROVE files'[d.id].key # d.key
    <3>1. PICK i \in D : d \in Family(i, files[i].key)
      BY <1>13
    <3>2. d.id = i \/ files[d.id].of = i
      BY <3>1 DEF Family, ListFileVariants, Ref
    <3>3. d.id \in FileIds /\ d.key \in Keys
      BY <1>13 DEF Request, FileRef
    <3>4. files'[d.id] = NoFile
      BY <1>4, <3>2, <3>3
    <3> QED
      BY <3>3, <3>4, Numbers DEF NoFile
  <2>2. q2.oldKey = 0
    BY <1>13 DEF Shape
  <2>3. Whole(files', lost', q2)
    BY <1>13, <2>1, <2>2 DEF Whole
  <2>4. ASSUME NEW i \in FileIds, Stored(i), files'[i] = NoFile PROVE Works(q2, files[i].key)
    <3>1. PICK j \in D : i = j \/ files[i].of = j
      BY <1>4, <2>4 DEF Stored
    <3>2. \E d \in Family(j, files[j].key) : d.key = files[i].key
      <4>1. CASE i = j
        <5>1. Ref(j, files[j].key, 0) \in Family(j, files[j].key) /\ Ref(j, files[j].key, 0).key = files[j].key
          BY DEF Family, Ref
        <5> QED
          BY <4>1, <5>1
      <4>2. CASE files[i].of = j
        <5>1. Ref(i, files[i].key, j) \in Family(j, files[j].key) /\ Ref(i, files[i].key, j).key = files[i].key
          BY <2>4, <4>2 DEF Family, ListFileVariants, Ref
        <5> QED
          BY <5>1
      <4> QED
        BY <3>1, <4>1, <4>2
    <3>3. \E d \in q2.doomed : d.key = files[i].key
      BY <1>13, <3>2
    <3> QED
      BY <1>13, <3>3 DEF Works, Going
  <2> QED
    BY <1>0, <1>1, <1>5, <1>6, <1>7, <1>8, <1>9, <1>10, <1>11, <1>13, <2>3, <2>4, GoneForgets
<1> QED
  BY <1>3, <1>12, <1>13

(* A new row: its key was unborn, and its original, when it has one, is the *)
(* file its request has stored.                                             *)
Born(r, id) ==
    /\ files[id] = NoFile /\ \A i \in FileIds \ {id} : files'[i] = files[i]
    /\ files'[id].key \in Unborn(req[r])
    /\ files'[id].of # 0 => req[r].pc = "vrow" /\ files'[id].of = req[r].file

(* Nobody has read the row before.                                          *)
LEMMA BornFacts ==
  ASSUME Settled, NEW r \in Actors, NEW id \in FileIds, Born(r, id)
  PROVE  /\ files'[id].key \in Keys /\ \A i \in FileIds \ {id} : files'[i] = files[i]
         /\ ~Stored(id) /\ \A i \in FileIds : files[i].of # id
         /\ \A s \in Actors, i \in FileIds : ~Keeps(req[s], i, files'[id].key)
<1>1. TypeOK /\ Shaped /\ Fresh /\ VariantsRooted
  BY SettledFacts
<1>2. files'[id].key \in blobs /\ \A i \in FileIds : ~Known(i, files'[id].key)
  BY <1>1 DEF Fresh, Born
<1>3. files'[id].key \in Keys
  BY <1>1, <1>2, TableTypes, MediaAssumption DEF Keys
<1>4. ~Stored(id) /\ \A i \in FileIds \ {id} : files'[i] = files[i]
  BY DEF Born, Stored
<1>5. \A i \in FileIds : files[i].of # id
  BY <1>1, <1>4, Numbers DEF VariantsRooted
<1>6. \A s \in Actors, i \in FileIds : ~Keeps(req[s], i, files'[id].key)
  BY <1>2 DEF Known
<1> QED
  BY <1>3, <1>4, <1>5, <1>6

(* The original of a new variant is in the hand of its request alone.       *)
LEMMA BornOriginal ==
  ASSUME Settled, NEW r \in Actors, NEW id \in FileIds, Born(r, id), files'[id].of # 0
  PROVE  /\ files'[id].of \in FileIds /\ files'[id].of = req[r].file /\ req[r].key \in Keys
         /\ files[req[r].file].key = req[r].key /\ files[req[r].file].of = 0 /\ Stored(req[r].file)
         /\ \A s \in Actors : req[s].key = req[r].key => s = r
<1>1. TypeOK /\ Shaped /\ RequestParts /\ req[r] \in Request /\ Shape(req[r])
  BY SettledFacts
<1>2. files'[id].of = req[r].file /\ req[r].key # 0
  BY <1>1 DEF Born, Shape, WithKey
<1> QED
  BY <1>1, <1>2, OwnFacts

(* What requests have read stays a root or a variant.                       *)
LEMMA BornReads ==
  ASSUME Settled, NEW r \in Actors, NEW id \in FileIds, Born(r, id), NEW s \in Actors
  PROVE  /\ req[s].oldKey # 0 => RootRead(files', req[s].old, req[s].oldKey)
         /\ \A c \in req[s].cands : RootRead(files', c.id, c.key)
         /\ \A d \in req[s].doomed : d.id # 0 /\ (files'[d.id].key = d.key => d.id # id /\ files'[d.id] = files[d.id])
<1> DEFINE q == req[s]
<1>1. TypeOK /\ Shaped /\ q \in Request /\ Shape(q) /\ Whole(files, lost, q)
  BY SettledFacts
<1>2. /\ \A i \in FileIds \ {id} : files'[i] = files[i]
      /\ \A i \in FileIds : ~Keeps(q, i, files'[id].key)
  BY BornFacts
<1>3. ASSUME q.oldKey # 0 PROVE RootRead(files', q.old, q.oldKey)
  <2>1. q.old \in FileIds /\ RootRead(files, q.old, q.oldKey)
    BY <1>1, <1>3 DEF Shape, Request, Whole
  <2>2. q.old = id => q.oldKey # files'[id].key
    BY <1>2, <2>1 DEF Keeps
  <2> QED
    BY <1>2, <2>1, <2>2 DEF RootRead
<1>4. ASSUME NEW c \in q.cands PROVE RootRead(files', c.id, c.key)
  <2>1. c.id \in FileIds /\ RootRead(files, c.id, c.key)
    BY <1>1, KeyFacts DEF Whole
  <2>2. c.id = id => c.key # files'[id].key
    BY <1>2, <2>1 DEF Keeps
  <2> QED
    BY <1>2, <2>1, <2>2 DEF RootRead
<1>5. ASSUME NEW d \in q.doomed PROVE d.id # 0 /\ (files'[d.id].key = d.key => d.id # id /\ files'[d.id] = files[d.id])
  <2>1. d.id \in FileIds /\ d.id # 0
    BY <1>1, KeyFacts, Numbers
  <2>2. d.id = id => d.key # files'[id].key
    BY <1>2, <2>1 DEF Keeps
  <2> QED
    BY <1>2, <2>1, <2>2
<1> QED
  BY <1>3, <1>4, <1>5

(* No removal under way misses the new variant: it would hold the key of a  *)
(* file that is still being stored.                                         *)
LEMMA BornWhole ==
  ASSUME Settled, NEW r \in Actors, NEW id \in FileIds, Born(r, id), NEW s \in Actors, s # r
  PROVE  Whole(files', lost, req[s])
<1> DEFINE q == req[s]
<1>1. TypeOK /\ Shaped /\ RequestParts /\ q \in Request /\ Shape(q) /\ Whole(files, lost, q)
  BY SettledFacts
<1>2. (\A i \in FileIds \ {id} : files'[i] = files[i]) /\ ~Stored(id) /\ id # 0
  BY BornFacts, Numbers
<1>3. files'[id].of # 0 =>
         /\ req[r].key \in Keys /\ files[files'[id].of].key = req[r].key
         /\ \A t \in Actors : req[t].key = req[r].key => t = r
  BY BornOriginal
<1>4. \A d \in q.doomed : files'[d.id].key = d.key => files'[d.id].of = d.of
  BY <1>1, BornReads DEF Whole
<1>5. ASSUME q.op # "article" PROVE FamilyWhole(files', lost, q)
  <2> SUFFICES ASSUME NEW d \in q.doomed, d.of = 0, files'[d.id].key = d.key, d.key \notin lost,
                      NEW w \in FileIds, files'[w].of = d.id
               PROVE  \E e \in q.doomed : e.of # 0 /\ e.key = files'[w].key
    BY DEF FamilyWhole
  <2>1. d.id # 0 /\ files[d.id].key = d.key /\ d.key \in Keys
    BY <1>1, BornReads, KeyFacts
  <2>2. CASE w = id
    <3>1. d.key = req[r].key /\ req[r].key # 0
      BY <1>3, <2>1, <2>2, Numbers
    <3>2. ~(d.key <= aged) /\ Taken(d.key)
      BY <1>1, <2>1, <3>1, OwnFacts DEF Taken
    <3>3. q.pc # "unlink" \/ q.op # "article"
      BY <1>5
    <3> QED
      BY <1>1, <3>2, <3>3 DEF RequestParts, RemovalsSpare, Spared
  <2>3. CASE w # id
    <3>1. files'[w] = files[w]
      BY <1>2, <2>3
    <3> QED
      BY <1>1, <1>5, <2>1, <3>1 DEF Whole, FamilyWhole
  <2> QED
    BY <2>2, <2>3
<1>6. (q.oldKey # 0 => RootRead(files', q.old, q.oldKey)) /\ \A c \in q.cands : RootRead(files', c.id, c.key)
  BY BornReads
<1> QED
  BY <1>4, <1>5, <1>6 DEF Whole

(* A new row that its request goes on with, or whose URL is handed out.     *)
LEMMA BornForgets ==
  ASSUME Settled, NEW r \in Actors, NEW q2 \in Request, Shape(q2), Go(r, q2), NEW id \in FileIds, Born(r, id),
         UNCHANGED <<blobs, attachments, statics>>, lost \subseteq lost', issued \subseteq issued',
         req[r].pc \in {"row", "vrow"}, Whole(files', lost', q2),
         files'[Root(files', id)].key \in issued' \/ Covers(files', q2, id),
         \A i \in FileIds \ {id} : Stored(i) /\ req[r].file = Root(files, i) /\ req[r].file # 0 =>
            files'[Root(files', i)].key \in issued' \/ Covers(files', q2, i)
  PROVE  ForgetParts'
<1>1. /\ TypeOK /\ Shaped /\ TableParts /\ VariantsRooted /\ AttachedIssued /\ StaticsOriginal /\ ForgetParts
      /\ RequestsWhole /\ RowsCovered /\ BlobsCovered /\ req[r] \in Request /\ Shape(req[r])
  BY SettledFacts DEF ForgetParts
<1>2. req'[r] = q2 /\ \A s \in Actors \ {r} : req'[s] = req[s]
  BY <1>1, GoShape DEF TypeOK, FilesTypeOK, Shaped
<1>3. /\ files'[id].key \in Keys /\ \A i \in FileIds \ {id} : files'[i] = files[i]
      /\ ~Stored(id) /\ \A i \in FileIds : files[i].of # id
  BY BornFacts
<1>4. ASSUME NEW i \in FileIds, Stored(i)
      PROVE  /\ i # id /\ files'[i] = files[i] /\ Root(files', i) = Root(files, i)
             /\ Root(files, i) \in FileIds /\ files'[Root(files, i)] = files[Root(files, i)]
  <2>1. i # id /\ files'[i] = files[i]
    BY <1>3, <1>4
  <2>2. Root(files, i) \in FileIds /\ Stored(Root(files, i))
    BY <1>1, <1>4, RootFacts
  <2>3. files'[Root(files, i)] = files[Root(files, i)]
    BY <1>3, <2>2
  <2> QED
    BY <2>1, <2>2, <2>3 DEF Root
<1>5. files'[id].of # 0 =>
         /\ files'[id].of \in FileIds /\ Stored(files'[id].of) /\ files[files'[id].of].of = 0
         /\ files[files'[id].of].key = req[r].key
  BY BornOriginal
<1>6. VariantsRooted'
  <2>1. ASSUME NEW i \in FileIds, files'[i].of # 0
        PROVE  files'[files'[i].of] # NoFile /\ files'[files'[i].of].of = 0
    <3>1. files'[i].of \in FileIds /\ Stored(files'[i].of) /\ files[files'[i].of].of = 0
      <4>1. CASE i = id
        BY <1>5, <2>1, <4>1
      <4>2. CASE i # id
        <5>1. files'[i] = files[i]
          BY <1>3, <4>2
        <5> QED
          BY <1>1, <2>1, <5>1, RowFacts DEF VariantsRooted
      <4> QED
        BY <4>1, <4>2
    <3>2. files'[files'[i].of] = files[files'[i].of]
      BY <1>4, <3>1
    <3> QED
      BY <3>1, <3>2 DEF Stored
  <2> QED
    BY <2>1, ForgetNext
<1>7. AttachedIssued'
  <2>1. ASSUME NEW t \in FileIds, attachments'[t].file # 0
        PROVE  files'[attachments'[t].file].key \in issued' /\ files'[attachments'[t].file].of = 0
    <3>1. /\ attachments[t].file \in FileIds /\ Stored(attachments[t].file)
          /\ files[attachments[t].file].key \in issued /\ files[attachments[t].file].of = 0
      BY <1>1, <2>1, KeyFacts DEF AttachedIssued, TableParts, AttachedStored
    <3>2. files'[attachments[t].file] = files[attachments[t].file]
      BY <1>4, <3>1
    <3> QED
      BY <3>1, <3>2
  <2> QED
    BY <2>1, ForgetNext
<1>8. StaticsOriginal'
  <2>1. ASSUME NEW n \in Names, statics[n] # 0 PROVE files'[statics[n]].of = 0
    <3>1. statics[n] \in FileIds /\ files[statics[n]].of = 0 /\ Stored(statics[n])
      BY <1>1, <2>1, KeyFacts DEF StaticsOriginal, TableParts, StaticsUntaken
    <3>2. files'[statics[n]] = files[statics[n]]
      BY <1>4, <3>1
    <3> QED
      BY <3>1, <3>2
  <2> QED
    BY <2>1, ForgetNext
<1>9. RequestsWhole'
  <2>1. ASSUME NEW s \in Actors PROVE Whole(files', lost', req'[s])
    <3>1. CASE s = r
      BY <1>2, <3>1
    <3>2. CASE s # r
      <4>1. Whole(files', lost, req[s])
        BY <3>2, BornWhole
      <4> QED
        BY <1>2, <3>2, <4>1, WholeGrows
    <3> QED
      BY <3>1, <3>2
  <2> QED
    BY <2>1, ForgetNext
<1>10. RowsCovered'
  <2>1. ASSUME NEW i \in FileIds, files'[i] # NoFile
        PROVE  \/ files'[Root(files', i)].key \in issued' \/ files'[i].key \in lost'
               \/ \E n \in Names : statics'[n] = Root(files', i)
               \/ \E s \in Actors : Covers(files', req'[s], i)
    <3>1. CASE i = id
      BY <1>2, <3>1
    <3>2. CASE i # id
      <4>1. Stored(i)
        BY <1>3, <2>1, <3>2, Numbers DEF Stored
      <4>2. /\ files'[i] = files[i] /\ Root(files', i) = Root(files, i)
            /\ files'[Root(files, i)] = files[Root(files, i)]
        BY <1>4, <4>1
      <4>3. CASE files[Root(files, i)].key \in issued \/ files[i].key \in lost \/ \E n \in Names : statics[n] = Root(files, i)
        BY <4>2, <4>3
      <4>4. ASSUME NEW s \in Actors, Covers(files, req[s], i), s # r PROVE Covers(files', req'[s], i)
        BY <1>2, <4>2, <4>4 DEF Covers
      <4>5. CASE Covers(files, req[r], i)
        <5>1. req[r].file = Root(files, i) /\ req[r].file # 0
          BY <1>1, <4>1, <4>5, CoversFacts
        <5> QED
          BY <1>2, <3>2, <4>1, <5>1
      <4> QED
        BY <1>1, <4>1, <4>3, <4>4, <4>5 DEF RowsCovered
    <3> QED
      BY <3>1, <3>2
  <2> QED
    BY <2>1, ForgetNext
<1>11. BlobsCovered'
  <2>1. ASSUME NEW k \in blobs
        PROVE  k \in lost' \/ (\E i \in FileIds : files'[i].key = k) \/ \E s \in Actors : Works(req'[s], k)
    <3>1. ASSUME NEW i \in FileIds, files[i].key = k PROVE files'[i].key = k
      <4>1. k # 0
        BY <1>1, <2>1, TableTypes, Numbers
      <4>2. Stored(i)
        BY <1>1, <3>1, <4>1, RowFacts
      <4> QED
        BY <1>4, <3>1, <4>2
    <3>2. Works(req[r], k) => k = files'[id].key
      BY WorksWhere DEF Born, Unborn
    <3> QED
      BY <1>1, <1>2, <2>1, <3>1, <3>2 DEF BlobsCovered
  <2> QED
    BY <2>1, ForgetNext
<1> QED
  BY <1>6, <1>7, <1>8, <1>9, <1>10, <1>11 DEF ForgetParts, TablesWhole

(* CreateFile inserts one row.                                              *)
LEMMA CreatedRow ==
  ASSUME TypeOK, NEW id \in FileIds, NEW k, NEW of, files' = CreateFile(id, k, of)
  PROVE  /\ files'[id].key = k /\ files'[id].of = of
         /\ \A i \in FileIds \ {id} : files'[i] = files[i]
<1>1. files' = [files EXCEPT ![id] = [key |-> k, of |-> of]] /\ DOMAIN files = FileIds
  BY TableTypes DEF CreateFile, FileTable
<1>2. files'[id] = [key |-> k, of |-> of] /\ \A i \in FileIds \ {id} : files'[i] = files[i]
  BY <1>1
<1> QED
  BY <1>2

(* InsertRow inserts the row of a stored file and goes on with it, or       *)
(* answers its URL.                                                         *)
LEMMA InsertForgets ==
  ASSUME Settled, NEW r \in Requests, InsertRow(r)
  PROVE  ForgetParts'
<1> DEFINE q == req[r]
<1>0. r \in Actors
  BY Numbers
<1>1. /\ TypeOK /\ Shaped /\ VariantsRooted /\ RequestParts /\ ForgetParts /\ q \in Request /\ Shape(q)
      /\ Whole(files, lost, q) /\ \A c \in q.cands : RootRead(files, c.id, c.key)
  BY <1>0, SettledFacts
<1>2. UNCHANGED <<attachments, statics>> /\ q.pc = "row"
  BY <1>1, InsertEffect
<1>3. PICK q2 \in Request :
         /\ Shape(q2) /\ Go(r, q2)
         /\ \/ /\ UNCHANGED blobs
               /\ \E id \in FileIds :
                     /\ files[id] = NoFile /\ files' = CreateFile(id, q.key, 0)
                     /\ \/ Ends(q, q2) /\ issued' = issued \cup {q.key}
                        \/ /\ q2.pc \in {"vblob", "attach", "embed", "lookup"} /\ q2.cands = q.cands
                           /\ q2.key = q.key /\ q2.file = id /\ UNCHANGED issued
            \/ Ends(q, q2) /\ blobs' = blobs \ {q.key} /\ UNCHANGED <<files, issued>>
  BY <1>1, InsertEffect
<1>4. lost \subseteq lost' /\ issued \subseteq issued'
  BY <1>0, MarksGrow DEF RequestStep
<1>5. ASSUME UNCHANGED blobs, NEW id \in FileIds, files[id] = NoFile, files' = CreateFile(id, q.key, 0),
             \/ Ends(q, q2) /\ issued' = issued \cup {q.key}
             \/ /\ q2.pc \in {"vblob", "attach", "embed", "lookup"} /\ q2.cands = q.cands
                /\ q2.key = q.key /\ q2.file = id /\ UNCHANGED issued
      PROVE  ForgetParts'
  <2>1. files'[id].key = q.key /\ files'[id].of = 0 /\ \A i \in FileIds \ {id} : files'[i] = files[i]
    BY <1>1, <1>5, CreatedRow
  <2>2. Born(r, id)
    BY <1>2, <1>5, <2>1 DEF Born, Unborn
  <2>3. q2.oldKey = 0 /\ q2.doomed = {} /\ q2.cands \subseteq q.cands
    BY <1>1, <1>3, <1>5 DEF Shape, Ends
  <2>4. \A c \in q.cands : RootRead(files', c.id, c.key)
    BY <1>0, <2>2, BornReads
  <2>5. Whole(files', lost', q2)
    BY <2>3, <2>4 DEF Whole, FamilyWhole
  <2>6. Root(files', id) = id
    BY <2>1 DEF Root
  <2>7. files'[Root(files', id)].key \in issued' \/ Covers(files', q2, id)
    BY <1>5, <2>1, <2>6 DEF Covers
  <2>8. q.file = 0
    BY <1>1, <1>2 DEF Shape
  <2>9. UNCHANGED <<blobs, attachments, statics>>
    BY <1>2, <1>5
  <2> QED
    BY <1>0, <1>2, <1>3, <1>4, <2>2, <2>5, <2>7, <2>8, <2>9, BornForgets
<1>6. CASE Ends(q, q2) /\ blobs' = blobs \ {q.key} /\ UNCHANGED <<files, issued>>
  <2>1. UNCHANGED <<files, attachments, statics>>
    BY <1>2, <1>6
  <2> QED
    BY <1>2, <1>3, <1>4, <1>6, <2>1, DroppedForgets
<1> QED
  BY <1>3, <1>5, <1>6

(* InsertVariant inserts the variant of the stored file.                    *)
LEMMA VariantForgets ==
  ASSUME Settled, NEW r \in Requests, InsertVariant(r)
  PROVE  ForgetParts'
<1> DEFINE q == req[r]
<1>0. r \in Actors
  BY Numbers
<1>1. /\ TypeOK /\ Shaped /\ VariantsRooted /\ RequestParts /\ ForgetParts /\ q \in Request /\ Shape(q)
      /\ Whole(files, lost, q) /\ \A c \in q.cands : RootRead(files, c.id, c.key)
  BY <1>0, SettledFacts
<1>2. UNCHANGED <<attachments, statics>> /\ q.pc = "vrow"
  BY <1>1, VariantEffect
<1>3. PICK q2 \in Request :
         /\ Shape(q2) /\ Go(r, q2)
         /\ \/ Ends(q, q2) /\ issued' = issued \cup {q.key}
            \/ /\ q2.pc \in {"attach", "embed", "lookup"} /\ q2.cands = q.cands
               /\ q2.key = q.key /\ q2.file = q.file /\ UNCHANGED issued
  BY <1>1, VariantEffect
<1>4. lost \subseteq lost' /\ issued \subseteq issued'
  BY <1>0, MarksGrow DEF RequestStep
<1>5. q.key # 0 /\ q.file # 0
  BY <1>1, <1>2 DEF Shape, WithKey
<1>6. q.file \in FileIds /\ files[q.file].key = q.key /\ files[q.file].of = 0 /\ Stored(q.file)
  BY <1>0, <1>1, <1>5, OwnFacts
<1>7. ASSUME UNCHANGED blobs, NEW id \in FileIds, files[id] = NoFile, files' = CreateFile(id, q.vkey, q.file)
      PROVE  ForgetParts'
  <2>1. files'[id].key = q.vkey /\ files'[id].of = q.file /\ \A i \in FileIds \ {id} : files'[i] = files[i]
    BY <1>1, <1>7, CreatedRow
  <2>2. Born(r, id)
    BY <1>2, <1>7, <2>1 DEF Born, Unborn
  <2>3. q2.oldKey = 0 /\ q2.doomed = {} /\ q2.cands \subseteq q.cands
    BY <1>1, <1>3 DEF Shape, Ends
  <2>4. \A c \in q.cands : RootRead(files', c.id, c.key)
    BY <1>0, <2>2, BornReads
  <2>5. Whole(files', lost', q2)
    BY <2>3, <2>4 DEF Whole, FamilyWhole
  <2>6. files'[q.file] = files[q.file]
    BY <1>6, <1>7, <2>1 DEF Stored
  <2>7. Root(files', id) = q.file
    BY <1>5, <2>1 DEF Root
  <2>8. \A i \in FileIds : Root(files', i) = q.file => files'[Root(files', i)].key \in issued' \/ Covers(files', q2, i)
    BY <1>3, <1>6, <2>6 DEF Covers
  <2>9. ASSUME NEW i \in FileIds \ {id}, q.file = Root(files, i)
        PROVE  files'[Root(files', i)].key \in issued' \/ Covers(files', q2, i)
    <3>1. Root(files', i) = q.file
      BY <2>1, <2>9 DEF Root
    <3> QED
      BY <2>8, <3>1
  <2>10. UNCHANGED <<blobs, attachments, statics>>
    BY <1>2, <1>7
  <2> QED
    BY <1>0, <1>2, <1>3, <1>4, <2>2, <2>5, <2>7, <2>8, <2>9, <2>10, BornForgets
<1>8. CASE blobs' = blobs \ {q.vkey} /\ UNCHANGED files
  <2>1. UNCHANGED <<files, attachments, statics>>
    BY <1>2, <1>8
  <2> QED
    BY <1>2, <1>3, <1>4, <1>8, <2>1, DroppedForgets
<1> QED
  BY <1>1, <1>7, <1>8, VariantEffect

(* Steps that touch no file, blob or request.                               *)
LEMMA RestForgets ==
  ASSUME ForgetParts, UNCHANGED <<files, blobs, attachments, statics, req, issued, lost>>
  PROVE  ForgetParts'
<1>1. VariantsRooted' /\ AttachedIssued' /\ StaticsOriginal'
  BY DEF ForgetParts, TablesWhole, VariantsRooted, AttachedIssued, StaticsOriginal, Stored
<1>2. RequestsWhole'
  BY DEF ForgetParts, RequestsWhole
<1>3. RowsCovered'
  BY DEF ForgetParts, RowsCovered, Stored
<1>4. BlobsCovered'
  BY DEF ForgetParts, BlobsCovered
<1> QED
  BY <1>1, <1>2, <1>3, <1>4 DEF ForgetParts, TablesWhole

(* A crash lets go of all that was in hand.                                 *)
LEMMA CrashForgets ==
  ASSUME Settled, Crash
  PROVE  ForgetParts'
<1>1. /\ TypeOK /\ Shaped /\ VariantsRooted /\ AttachedIssued /\ StaticsOriginal /\ ForgetParts
  BY Numbers, SettledFacts
<1>2. UNCHANGED <<files, blobs, attachments, statics, issued>>
  BY DEF Crash
<1>3. \A s \in Actors : req'[s] = Idle
  BY CrashEffect
<1>4. lost' = lost \cup UNION {HeldKeys(req[s]) : s \in Actors}
  BY CrashEffect
<1>5. VariantsRooted' /\ AttachedIssued' /\ StaticsOriginal'
  BY <1>1, <1>2 DEF VariantsRooted, AttachedIssued, StaticsOriginal, Stored
<1>6. RequestsWhole'
  <2>1. Idle \in Request /\ Shape(Idle) /\ Idle.pc = "idle" /\ Idle.cands = {}
    BY IdleShape DEF Idle
  <2>2. Whole(files', lost', Idle)
    BY <2>1, WholeBlank
  <2> QED
    BY <1>3, <2>2, ForgetNext
<1>7. RowsCovered'
  <2>1. ASSUME NEW i \in FileIds, files[i] # NoFile
        PROVE  \/ files[Root(files, i)].key \in issued' \/ files[i].key \in lost'
               \/ \E n \in Names : statics'[n] = Root(files, i)
    <3>1. Stored(i)
      BY <2>1, Numbers DEF Stored
    <3>2. ASSUME NEW s \in Actors, Covers(files, req[s], i) PROVE files[i].key \in lost'
      <4>1. files[i].key \in HeldKeys(req[s])
        BY <1>1, <3>1, <3>2, CoveredHeld
      <4> QED
        BY <1>4, <4>1
    <3>3. \/ files[Root(files, i)].key \in issued \/ files[i].key \in lost
          \/ \E n \in Names : statics[n] = Root(files, i)
          \/ \E s \in Actors : Covers(files, req[s], i)
      BY <1>1, <3>1 DEF ForgetParts, RowsCovered
    <3> QED
      BY <1>2, <1>4, <3>2, <3>3
  <2> QED
    BY <1>2, <2>1, ForgetNext
<1>8. BlobsCovered'
  <2>1. ASSUME NEW k \in blobs PROVE k \in lost' \/ \E i \in FileIds : files[i].key = k
    <3>1. k \in Keys
      BY <1>1, <2>1, TableTypes, MediaAssumption DEF Keys
    <3>2. ASSUME NEW s \in Actors, Works(req[s], k) PROVE k \in lost'
      <4>1. req[s] \in Request /\ Shape(req[s])
        BY SettledFacts
      <4>2. k \in HeldKeys(req[s])
        BY <3>1, <3>2, <4>1, WorksHeld
      <4> QED
        BY <1>4, <4>2
    <3> QED
      BY <1>1, <1>4, <2>1, <3>2 DEF ForgetParts, BlobsCovered
  <2> QED
    BY <1>2, <2>1, ForgetNext
<1> QED
  BY <1>5, <1>6, <1>7, <1>8 DEF ForgetParts, TablesWhole

(* The sweep holds nothing before it removes a family.                      *)
LEMMA SweepForgets ==
  ASSUME Settled, StartReaper \/ ExamineCandidate
  PROVE  ForgetParts'
<1> DEFINE q == req[Reaper]
<1>0. Reaper \in Actors
  BY Numbers
<1>1. /\ TypeOK /\ Shaped /\ VariantsRooted /\ ForgetParts /\ q \in Request /\ Shape(q)
      /\ \A c \in q.cands : RootRead(files, c.id, c.key)
  BY <1>0, SettledFacts
<1>2. UNCHANGED <<files, blobs, attachments, statics>> /\ lost \subseteq lost' /\ issued \subseteq issued'
  BY DEF StartReaper, ExamineCandidate, NoSpend
<1>3. q.pc \in {"idle", "examine"}
  <2>1. Idle.pc = "idle"
    BY DEF Idle
  <2> QED
    BY <2>1 DEF StartReaper, ExamineCandidate
<1>4. \A i \in FileIds : Stored(i) => ~Covers(files, q, i)
  BY <1>1, <1>3, CoversFacts DEF WithKey
<1>5. \E q2 \in Request : Shape(q2) /\ Go(Reaper, q2) /\ Whole(files, lost', q2)
  <2>1. CASE StartReaper
    <3>1. PICK q2 \in Request :
             /\ Shape(q2) /\ Go(Reaper, q2) /\ q2.pc \in {"idle", "examine"}
             /\ \A c \in q2.cands : c.id \in FileIds /\ files[c.id].key = c.key /\ files[c.id].of = 0 /\ c.key <= aged
      BY <1>1, <2>1, ReaperEffect
    <3>2. \A c \in q2.cands : RootRead(files, c.id, c.key)
      BY <3>1 DEF RootRead
    <3>3. Whole(files, lost', q2)
      BY <3>1, <3>2, WholeBlank
    <3> QED
      BY <3>1, <3>3
  <2>2. CASE ExamineCandidate
    <3>1. PICK q2 \in Request :
             /\ Shape(q2) /\ Go(Reaper, q2)
             /\ \/ Ends(q, q2)
                \/ \E c \in q.cands :
                      /\ Removes(q, q2, c.id, c.key) /\ c.id \in FileIds /\ c.key \in Keys
                      /\ \A d \in Family(c.id, c.key) : ~CountFileKeyContentReferences(d.key, bodies)
      BY <1>1, <2>2, ExamineEffect
    <3>2. CASE Ends(q, q2)
      <4>1. Whole(files, lost', q2)
        BY <1>1, <3>1, <3>2, WholeBlank DEF Ends
      <4> QED
        BY <3>1, <4>1
    <3>3. ASSUME NEW c \in q.cands, Removes(q, q2, c.id, c.key), c.id \in FileIds, c.key \in Keys PROVE Whole(files, lost', q2)
      BY <1>1, <3>1, <3>3, RemovesWhole
    <3> QED
      BY <3>1, <3>2, <3>3
  <2> QED
    BY <2>1, <2>2
<1>6. PICK q2 \in Request : Shape(q2) /\ Go(Reaper, q2) /\ Whole(files, lost', q2)
  BY <1>5
<1> QED
  BY <1>0, <1>1, <1>2, <1>3, <1>4, <1>6, ForgetQuiet

(* Blobs are restored only after rows were merged.                          *)
LEMMA MergedFirst ==
  ASSUME TypeOK, transfer.pc = "blobs" => merged, [Next]_vars
  PROVE  transfer'.pc = "blobs" => merged'
<1>1. \A pc : [Off EXCEPT !.pc = pc].pc = pc
  BY DEF Off
<1>2. \A pc : Stop(pc) => transfer'.pc = pc
  BY <1>1 DEF Stop
<1>3. CASE VacuumInto \/ WalkBlobs \/ PackBlob
  <2>1. CASE VacuumInto
    BY <2>1 DEF VacuumInto
  <2>2. CASE WalkBlobs \/ PackBlob
    <3>1. transfer'.pc \in {"pack", "off"}
      <4>1. CASE WalkBlobs
        BY <4>1 DEF WalkBlobs, TypeOK
      <4>2. CASE PackBlob
        BY <1>2, <4>2 DEF PackBlob, TypeOK
      <4> QED
        BY <2>2, <4>1, <4>2
    <3> QED
      BY <3>1
  <2> QED
    BY <1>3, <2>1, <2>2
<1>4. CASE RenameBundle \/ StartImport \/ CrashAll
  BY <1>2, <1>4 DEF RenameBundle, StartImport, CrashAll
<1>5. CASE CopyTables
  <2>1. CASE Stop("off")
    BY <1>2, <2>1
  <2>2. CASE merged' = TRUE
    BY <2>2
  <2> QED
    BY <1>5, <2>1, <2>2 DEF CopyTables
<1>6. CASE RestoreBlob
  BY <1>6 DEF RestoreBlob
<1>7. CASE UNCHANGED <<transfer, merged>>
  BY <1>7
<1> QED
  BY <1>3, <1>4, <1>5, <1>6, <1>7 DEF Next, bundleVars, vars

(* Every step that changes no row under an id remembers what is stored.     *)
LEMMA StepForgets ==
  ASSUME RowInv, EmbedInv, ForgetInv, [Next]_vars
  PROVE  ForgetInv'
<1>1. transfer'.pc = "blobs" => merged'
  BY MergedFirst DEF RowInv, ForgetInv
<1> SUFFICES ASSUME ~merged', ~mistaken' PROVE ForgetParts'
  BY <1>1 DEF ForgetInv, IdsKeptTheirRows
<1>2. ~merged /\ ~mistaken
  BY KeptBefore
<1>3. Settled /\ ForgetParts /\ transfer.pc # "blobs"
  BY <1>2 DEF Settled, EmbedInv, ForgetInv, IdsKeptTheirRows
<1>4. CASE \E r \in Requests : RequestStep(r) /\ UNCHANGED bundleVars
  <2>1. PICK r \in Requests : RequestStep(r)
    BY <1>4
  <2>2. CASE Upload(r) \/ StaticUpload(r) \/ ImportEntryImage(r) \/ StaticDestroy(r)
    BY <1>3, <2>2, StartForgets
  <2>3. CASE WriteBlob(r)
    BY <1>3, <2>3, WriteForgets
  <2>4. CASE InsertRow(r)
    BY <1>3, <2>4, InsertForgets
  <2>5. CASE InsertVariant(r)
    BY <1>3, <2>5, VariantForgets
  <2>6. CASE AttachUpload(r)
    BY <1>3, <2>6, AttachForgets
  <2>7. CASE ImportEntry(r)
    BY <1>3, <2>7, EntryForgets
  <2>8. CASE FindStatic(r)
    BY <1>3, <2>8, FindForgets
  <2>9. CASE CreateStaticFile(r)
    BY <1>3, <2>9, CreateForgets
  <2>10. CASE GetFileForStaticFilename(r)
    BY <1>3, <2>10, ResolveForgets
  <2>11. CASE UpdateStaticFile(r)
    BY <1>3, <2>11, UpdateForgets
  <2>12. CASE DeleteStaticFile(r)
    BY <1>3, <2>12, DeleteStaticForgets
  <2>13. CASE PurgeStoredFile(r)
    BY <1>3, <2>13, PurgeForgets
  <2>14. CASE DestroyArticle(r)
    BY <1>3, <2>14, DestroyForgets
  <2> QED
    BY <2>1, <2>2, <2>3, <2>4, <2>5, <2>6, <2>7, <2>8, <2>9, <2>10, <2>11, <2>12, <2>13, <2>14 DEF RequestStep
<1>5. CASE \E r \in Actors : (DeleteRow(r) \/ Unlink(r)) /\ UNCHANGED bundleVars
  <2>1. PICK r \in Actors : DeleteRow(r) \/ Unlink(r)
    BY <1>5
  <2> QED
    BY <1>3, <2>1, DeleteForgets, UnlinkForgets
<1>6. CASE SaveDocument \/ ADayPasses
  <2>1. UNCHANGED <<files, blobs, attachments, statics, req, issued, lost>>
    BY <1>6 DEF SaveDocument, ADayPasses
  <2> QED
    BY <1>3, <2>1, RestForgets
<1>7. CASE StartReaper \/ ExamineCandidate
  BY <1>3, <1>7, SweepForgets
<1>8. CASE \/ VacuumInto \/ WalkBlobs \/ PackBlob \/ RenameBundle \/ StartImport \/ UNCHANGED vars
           \/ OnlyTransfer
  <2>1. UNCHANGED <<files, blobs, attachments, statics, req, issued, lost>>
    BY <1>8 DEF VacuumInto, WalkBlobs, PackBlob, RenameBundle, StartImport, OnlyTransfer, vars, fileVars
  <2> QED
    BY <1>3, <2>1, RestForgets
<1>9. CASE CopyTables
  BY <1>8, <1>9 DEF CopyTables
<1>10. ~RestoreBlob
  BY <1>3 DEF RestoreBlob
<1>11. CASE CrashAll
  BY <1>3, <1>8, <1>11, CrashForgets DEF CrashAll
<1> QED
  BY <1>4, <1>5, <1>6, <1>7, <1>8, <1>9, <1>10, <1>11 DEF Next

(* There is nothing to forget in the beginning.                             *)
LEMMA InitForgets == Init => ForgetInv
<1> SUFFICES ASSUME Init PROVE transfer.pc # "blobs" /\ ForgetParts
  BY DEF ForgetInv
<1>1. /\ files = [i \in FileIds |-> NoFile] /\ attachments = [t \in FileIds |-> NoAttachment]
      /\ statics = [n \in Names |-> 0] /\ blobs = {}
      /\ req = [r \in Actors |-> Idle] /\ transfer = Off
  BY DEF Init, FilesInit
<1>2. Idle \in Request /\ Shape(Idle) /\ Idle.pc = "idle" /\ Idle.cands = {}
  BY IdleShape DEF Idle
<1>3. TablesWhole
  BY <1>1 DEF TablesWhole, VariantsRooted, AttachedIssued, StaticsOriginal, NoFile, NoAttachment
<1>4. RequestsWhole
  <2>1. Whole(files, lost, Idle)
    BY <1>2, WholeBlank
  <2> QED
    BY <1>1, <2>1 DEF RequestsWhole
<1>5. RowsCovered /\ BlobsCovered
  BY <1>1 DEF RowsCovered, BlobsCovered, Stored
<1>6. transfer.pc # "blobs"
  BY <1>1 DEF Off
<1> QED
  BY <1>3, <1>4, <1>5, <1>6 DEF ForgetParts

(* What is covered is owned, let go, or in somebody's hand.                 *)
LEMMA CoveredRemembered ==
  ASSUME TypeOK, Shaped, ForgetParts, NEW k \in blobs
  PROVE  Owned(k) \/ k \in lost \/ \E r \in Actors : k \in HeldKeys(req[r])
<1>0. VariantsRooted
  BY DEF ForgetParts, TablesWhole
<1>1. k \in Keys /\ k # 0
  BY TableTypes, MediaAssumption, Numbers DEF Keys
<1>2. CASE k \in lost
  BY <1>2
<1>3. ASSUME NEW r \in Actors, Works(req[r], k) PROVE k \in HeldKeys(req[r])
  BY <1>1, <1>3, RequestFacts, WorksHeld
<1>4. CASE \E i \in FileIds : files[i].key = k
  <2> DEFINE i == CHOOSE j \in FileIds : files[j].key = k
  <2>1. i \in FileIds /\ files[i].key = k /\ RowAndOriginal(k) = {i, files[i].of} \ {0}
    BY <1>4 DEF RowAndOriginal
  <2> HIDE DEF i
  <2>2. Stored(i)
    BY <1>1, <2>1, RowFacts
  <2>3. /\ Root(files, i) \in FileIds /\ Root(files, i) # 0
        /\ Root(files, i) = i \/ files[i].of = Root(files, i)
    BY <1>0, <2>1, <2>2, RootFacts
  <2>4. Root(files, i) \in RowAndOriginal(k) /\ GetFileByKey(k) # {}
    BY <2>1, <2>3 DEF GetFileByKey
  <2>5. CASE files[Root(files, i)].key \in issued
    BY <2>4, <2>5 DEF Owned
  <2>6. CASE \E n \in Names : statics[n] = Root(files, i)
    <3>1. StillReferenced(Root(files, i))
      BY <2>6 DEF StillReferenced, Named, CountStaticFilesForFile
    <3> QED
      BY <2>4, <3>1 DEF Owned
  <2>7. ASSUME NEW r \in Actors, Covers(files, req[r], i) PROVE k \in HeldKeys(req[r])
    BY <1>0, <2>1, <2>2, <2>7, CoveredHeld
  <2> QED
    BY <1>2, <2>1, <2>2, <2>5, <2>6, <2>7 DEF ForgetParts, RowsCovered
<1> QED
  BY <1>2, <1>3, <1>4 DEF ForgetParts, BlobsCovered

(* While ids keep their rows, no blob is forgotten: it has a row that a     *)
(* static_files row names or whose original's URL was handed out, a request *)
(* still works on it, or a failure let it go, whatever is uploaded,         *)
(* replaced, destroyed, swept, exported or crashes in between               *)
(* (static_files_admin.go:91, 217).                                         *)
THEOREM NothingIsForgotten == Spec => []NothingForgotten
<1>1. Init => RowInv /\ EmbedInv /\ ForgetInv
  BY InitRows, InitEmbeds, InitForgets
<1>2. RowInv /\ EmbedInv /\ ForgetInv /\ [Next]_vars => RowInv' /\ EmbedInv' /\ ForgetInv'
  BY StepRows, StepEmbeds, StepForgets
<1>3. ASSUME RowInv, ForgetInv PROVE NothingForgotten
  <2> SUFFICES ASSUME IdsKeptTheirRows, NEW k \in blobs
               PROVE  Owned(k) \/ k \in lost \/ \E r \in Actors : k \in HeldKeys(req[r])
    BY DEF NothingForgotten
  <2>1. TypeOK /\ Shaped /\ ForgetParts
    BY <1>3 DEF RowInv, ForgetInv
  <2> QED
    BY <2>1, CoveredRemembered
<1> QED
  BY <1>1, <1>2, <1>3, PTL DEF Spec
=============================================================================
