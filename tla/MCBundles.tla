----------------------------- MODULE MCBundles -----------------------------
(* Small instances of Bundles for TLC. *)
EXTENDS Bundles, TLC

None == [articles |-> {1}, images |-> {"upload", "attach"}, uploads |-> 0, statics |-> 0, entries |-> 0,
         destroys |-> 0, saves |-> 0, days |-> 0, starts |-> 0, faults |-> 0, crashes |-> 0, exports |-> 0, imports |-> 0]

(* Uploads beside a sweep; overwrites and destroys of one static file; an   *)
(* article and its files; feed images; a backup under changes and restored. *)
Scenes ==
    {[None EXCEPT !.uploads = 2, !.saves = 2, !.days = 1, !.starts = 1, !.destroys = 1],
     [None EXCEPT !.uploads = 1, !.saves = 1, !.days = 1, !.starts = 1, !.destroys = 1, !.faults = 1, !.crashes = 1],
     [None EXCEPT !.uploads = 1, !.statics = 1, !.saves = 1, !.days = 1, !.starts = 1, !.destroys = 1],
     [None EXCEPT !.statics = 3, !.destroys = 1],
     [None EXCEPT !.statics = 2, !.destroys = 1, !.faults = 1, !.crashes = 1, !.images = {"static"}],
     [None EXCEPT !.statics = 2, !.destroys = 2, !.images = {"static"}],
     [None EXCEPT !.statics = 1, !.days = 1, !.starts = 1, !.destroys = 1, !.faults = 1, !.images = {"static"}],
     [None EXCEPT !.entries = 2, !.saves = 1, !.days = 1, !.starts = 1, !.destroys = 1, !.articles = {}, !.images = {"rss"}],
     [None EXCEPT !.uploads = 1, !.statics = 1, !.destroys = 1, !.exports = 1, !.imports = 1, !.faults = 1],
     [None EXCEPT !.uploads = 1, !.statics = 1, !.destroys = 1, !.exports = 1, !.imports = 1, !.crashes = 1]}

Interchangeable == Permutations(Requests)
=============================================================================
