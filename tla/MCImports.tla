----------------------------- MODULE MCImports -----------------------------
(* Small instances of Imports for TLC. *)
EXTENDS Imports

Doc(slug, given) == [slug |-> slug, given |-> given, type |-> "article"]

Page(slug) == [slug |-> slug, given |-> TRUE, type |-> "page"]

(* A bundle, one whose declared sizes wrap a word, a copied bundle, a       *)
(* database, two articles, one with a made-up slug, and a page; an archive  *)
(* of something else and a database of another program.                     *)
Samples ==
    [b \in {"whole", "forged", "copied", "sqlite", "posts", "other", "foreign"} |->
        CASE b \in {"whole", "copied"} -> [kind |-> "bundle", sizes |-> <<3, 5>>, docs |-> <<>>]
          [] b = "forged" -> [kind |-> "bundle", sizes |-> <<6, 12>>, docs |-> <<>>]
          [] b = "sqlite" -> [kind |-> "database", sizes |-> <<>>, docs |-> <<>>]
          [] b = "posts" -> [kind |-> "markdown", sizes |-> <<>>, docs |-> <<Doc("hello", TRUE), Doc("nihao", FALSE), Page("hello")>>]
          [] b = "other" -> [kind |-> "other", sizes |-> <<>>, docs |-> <<>>]
          [] b = "foreign" -> [kind |-> "foreign", sizes |-> <<>>, docs |-> <<>>]]

Names == DOMAIN Samples

Blog == <<Doc("hello", TRUE), Doc("first", TRUE), Doc("second", TRUE)>>

JobKinds ==
    {PathJob(b, form) : b \in Names, form \in {"import", "queued"}} \cup {RSSJob(links) : links \in SUBSET Entries}

Nothing == [uploads |-> {}, copied |-> {}, submits |-> 0, places |-> 0, feeds |-> 0, entries |-> 0,
            starts |-> 0, weeks |-> 0, crons |-> 0, mishaps |-> 0]

(* Uploads beside a sweep; a copied bundle submitted twice and again;       *)
(* documents; feed entries; an upload that waits past the weekly removal.   *)
Scenes ==
    {[Nothing EXCEPT !.uploads = {"whole"}, !.starts = 2, !.mishaps = 2],
     [Nothing EXCEPT !.uploads = {"whole", "sqlite"}, !.starts = 1, !.mishaps = 1],
     [Nothing EXCEPT !.uploads = {"forged", "other", "foreign"}],
     [Nothing EXCEPT !.copied = {"copied"}, !.submits = 3, !.places = 2, !.starts = 1, !.mishaps = 2],
     [Nothing EXCEPT !.uploads = {"whole"}, !.submits = 1, !.mishaps = 2],
     [Nothing EXCEPT !.uploads = {"posts"}, !.starts = 1, !.mishaps = 2],
     [Nothing EXCEPT !.uploads = {"posts"}, !.feeds = 1, !.entries = 2, !.mishaps = 1],
     [Nothing EXCEPT !.feeds = 2, !.entries = 2, !.mishaps = 1],
     [Nothing EXCEPT !.uploads = {"whole", "posts"}, !.weeks = 1, !.crons = 1, !.mishaps = 1]}

(* Bound: so many failures and crashes; time passes after a crash.          *)
Mishaps ==
    /\ faults + crashes <= budget.mishaps
    /\ clock > 1 => crashes > 0

Interchangeable == Permutations(Requests)
=============================================================================
