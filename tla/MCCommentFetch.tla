--------------------------- MODULE MCCommentFetch ---------------------------
(* Small instances of CommentFetch for TLC. *)
EXTENDS CommentFetch

(* A comment and a reply to it on mastodon, bluesky and twitter, and one    *)
(* comment on another article's mastodon post.                              *)
Platform == {<<"mastodon", 1>>, <<"mastodon", 2>>, <<"mastodon", 3>>,
             <<"bluesky", 1>>, <<"bluesky", 2>>, <<"twitter", 1>>, <<"twitter", 2>>}
Threads ==
    [e \in Platform |->
        [article |-> CASE e = <<"mastodon", 3>> -> 2 [] e[1] = "bluesky" -> 3 [] e[1] = "twitter" -> 4 [] OTHER -> 1,
         parent |-> IF e[2] = 2 THEN <<e[1], 1>> ELSE Root]]

Question == [on |-> 1, parent |-> 0, status |-> "approved", ext |-> Local, email |-> "ann", text |-> 0]
Answer == [on |-> 1, parent |-> 1, status |-> "pending", ext |-> Local, email |-> "bob", text |-> 0]

(* Three decisions on one reply; two beside a mishap; visitors beside an admin;  *)
(* two fetches beside an admin; two fetches beside a mishap; one fetch over *)
(* two articles; the other platforms.                                                           *)
Scenes ==
    {[on |-> {1}, seed |-> <<Question, Answer>>, submits |-> 0, moderations |-> 3, destroys |-> 0, fetches |-> 0, mishaps |-> 0, ticks |-> 0],
     [on |-> {1}, seed |-> <<Question, Answer>>, submits |-> 0, moderations |-> 2, destroys |-> 0, fetches |-> 0, mishaps |-> 1, ticks |-> 1],
     [on |-> {1}, seed |-> <<Question>>, submits |-> 2, moderations |-> 1, destroys |-> 1, fetches |-> 0, mishaps |-> 0, ticks |-> 0],
     [on |-> {1}, seed |-> <<>>, submits |-> 0, moderations |-> 1, destroys |-> 1, fetches |-> 2, mishaps |-> 0, ticks |-> 0],
     [on |-> {1}, seed |-> <<>>, submits |-> 0, moderations |-> 0, destroys |-> 0, fetches |-> 2, mishaps |-> 1, ticks |-> 1],
     [on |-> {1, 2}, seed |-> <<>>, submits |-> 0, moderations |-> 0, destroys |-> 1, fetches |-> 1, mishaps |-> 1, ticks |-> 1],
     [on |-> {3, 4}, seed |-> <<>>, submits |-> 0, moderations |-> 0, destroys |-> 1, fetches |-> 2, mishaps |-> 0, ticks |-> 0]}

(* Bound: so many failures, shutdowns and crashes, and time
   passes only after a crash or a stored fetch time. *)
Mishaps ==
    /\ faults + crashes <= budget.mishaps
    /\ clock <= 1 + budget.ticks /\ (clock > 1 => crashes > 0 \/ stamp # [p \in CronPlatforms |-> 0])

Interchangeable == Permutations(Requests)
=============================================================================
