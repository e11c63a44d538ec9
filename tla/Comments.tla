------------------------------ MODULE Comments ------------------------------
(***************************************************************************)
(* The comments table, the visitors and admins who write it, and the tree  *)
(* the public page shows.  A request reads a row and later writes by id,   *)
(* one statement per step and outside a transaction; deleting a comment    *)
(* deletes its replies (ON DELETE CASCADE).  CommentFetch composes this    *)
(* module with the job that imports comments from the social platforms and *)
(* with the mails about replies.                                           *)
(***************************************************************************)
EXTENDS HandlerRuns, FiniteSets, SequencesExt

CONSTANTS
    Articles,     \* article ids
    Addresses,    \* author_email values
    Externals,    \* comments on the platforms: <<platform, external_id>>
    Thread,       \* Externals -> [article, parent]: the post's article, the comment answered
    Requests,     \* requests that may be under way at once
    MaxComments,  \* bound: comment ids are 1..MaxComments
    Budgets,      \* bound: what a behaviour starts from and how much it may ask
    DestroyRaces  \* TRUE: the id of a destroyed row may be given out again under a step that holds it

VARIABLES
    articles,   \* articles and pages: gone, or whether they take comments
    comments,   \* the comments table
    req,        \* the requests under way
    budget,     \* what may still be asked
    decided,    \* ghost: the last decision an admin took on a row
    announced,  \* ghost: replies whose notification was queued
    abandoned   \* ghost: replies whose approval ended in an error page or a lost enqueue

comVars == <<articles, comments, req, budget, decided, announced, abandoned>>

CommentIds == 1..MaxComments
NoAddress == "none"
Local == <<"local", 0>>  \* platform IS NULL
Root == <<"post", 0>>    \* the post itself, no comment
Decisions == {"pending", "approved", "rejected"}

NoComment == [on |-> 0, parent |-> 0, status |-> "none", ext |-> Local, email |-> NoAddress, text |-> 0]

Comment == [on : Articles, parent : {0} \cup CommentIds, status : Decisions,
            ext : Externals \cup {Local}, email : Addresses \cup {NoAddress}, text : 0..1]

(* text: the content columns of an external comment, as last seen.          *)

ASSUME CommentsAssumption ==
    /\ MaxComments \in Nat \ {0} /\ Articles \subseteq Nat \ {0}
    /\ NoAddress \notin Addresses /\ {Local, Root} \cap Externals = {}
    /\ Thread \in [Externals -> [article : Articles, parent : Externals \cup {Root}]]
    /\ \A e \in Externals : Thread[e].parent # e  \* a comment does not answer itself
    /\ \A b \in Budgets : b.seed \in Seq(Comment) /\ b.on \subseteq Articles
    /\ DestroyRaces \in BOOLEAN

(* A behaviour starts from local comments; a reply follows the comment it   *)
(* answers and has not been approved yet.                                   *)
ASSUME SeedAssumption ==
    \A b \in Budgets : \A n \in 1..Len(b.seed) :
        /\ b.seed[n].ext = Local
        /\ b.seed[n].parent # 0 => b.seed[n].parent < n /\ b.seed[n].status # "approved"

Request == [pc : {"idle", "insert", "moderate", "reply", "notify"}, id : {0} \cup CommentIds,
            row : Comment \cup {NoComment}, before : Decisions]

Idle == [pc |-> "idle", id |-> 0, row |-> NoComment, before |-> "pending"]

ComInit ==
    /\ budget \in Budgets
    /\ articles = [a \in Articles |-> IF a \in budget.on THEN "open" ELSE "gone"]
    /\ comments = [i \in CommentIds |-> IF i <= Len(budget.seed) THEN budget.seed[i] ELSE NoComment]
    /\ req = [r \in Requests |-> Idle]
    /\ decided = [i \in CommentIds |-> "none"]
    /\ announced = {} /\ abandoned = {}

ComTypeOK ==
    /\ articles \in [Articles -> {"gone", "open", "closed"}]
    /\ comments \in [CommentIds -> Comment \cup {NoComment}]
    /\ req \in [Requests -> Request]
    /\ decided \in [CommentIds -> Decisions \cup {"none"}]

-----------------------------------------------------------------------------
(* Statements of queries/comments.sql.                                      *)

Present(i) == i # 0 /\ comments[i] # NoComment

IsLocal(c) == c.ext = Local

GetCommentableArticleByID(a) == articles[a] # "gone"

(* publish or shared, with comment = 1.                                     *)
AcceptsComments(a) == articles[a] = "open"

GetExternalComment(a, e) == {i \in CommentIds : Present(i) /\ comments[i].on = a /\ comments[i].ext = e}

ListCommentsForCommentable(a) == {i \in CommentIds : Present(i) /\ comments[i].on = a}

(* The id of a deleted last row is given out again (no AUTOINCREMENT).      *)
LastId(table) == Max({0} \cup {j \in CommentIds : table[j] # NoComment})

IsNextCommentId(i) == i = LastId(comments) + 1

(* parent_id REFERENCES comments(id): the row must still be there.          *)
CreateComment(i, c) == [comments EXCEPT ![i] = c]

UpdateCommentStatus(i, st) == [comments EXCEPT ![i].status = st]

WithReplies(S) == \A j \in CommentIds : comments[j].parent \in S => j \in S

(* ON DELETE CASCADE: the least set with i that has the replies of its      *)
(* members.                                                                 *)
Subtree(i) == {j \in CommentIds : \A S \in SUBSET CommentIds : i \in S /\ WithReplies(S) => j \in S}

Without(ids) == [j \in CommentIds |-> IF j \in ids THEN NoComment ELSE comments[j]]

DeleteComment(i) == Without(Subtree(i))

-----------------------------------------------------------------------------
(* The tree on the public page.                                             *)

(* Faulty: replies are not filtered. *)
MutShownBelow(c, type) == IF type = "local" THEN TRUE ELSE c.ext[1] = type

(* build: what a node of the given display type lets through below itself.  *)
ShownBelow(c, type) == IF type = "local" THEN c.status = "approved" ELSE c.ext[1] = type

RootType(c) == IF IsLocal(c) THEN "local" ELSE c.ext[1]

IsRoot(i) == Present(i) /\ comments[i].parent = 0 /\ (IsLocal(comments[i]) => comments[i].status = "approved")

(* As many rounds as there are comments reach every descendant.             *)
Grow(start, Step(_)) == FoldLeft(LAMBDA S, n : S \cup Step(S), start, [n \in CommentIds |-> n])

(* BuildTree, as the pairs <<root, comment>> it displays for one article;   *)
(* seen stops at a comment the same root already shows.                     *)
BuildTree(a) ==
    LET here == ListCommentsForCommentable(a) IN
    Grow({<<i, i>> : i \in {j \in here : IsRoot(j)}},
         LAMBDA S : {t \in CommentIds \X here :
                        /\ <<t[1], comments[t[2]].parent>> \in S
                        /\ ShownBelow(comments[t[2]], RootType(comments[t[1]]))})

(* VisibleCount, as the set it counts. *)
Visible(a) == {i \in ListCommentsForCommentable(a) : IsLocal(comments[i]) => comments[i].status = "approved"}

-----------------------------------------------------------------------------
(* Requests.                                                                *)

Spend(what) == budget[what] > 0 /\ budget' = [budget EXCEPT ![what] = @ - 1]

Keep(r, next) == req' = [req EXCEPT ![r] = next]

Ask(r, what) == Serving /\ req[r] = Idle /\ Spend(what)

(* ValidateNew: the parent, when one is named, exists and is on the same    *)
(* article.  Its status and platform are not asked.                         *)
ValidParent(a, p) == p = 0 \/ (Present(p) /\ comments[p].on = a)

(* resolveCommentable: a target that is missing or closed is not found.     *)
ResolveCommentable == {a \in Articles : GetCommentableArticleByID(a) /\ AcceptsComments(a)}

(* createComment up to the insert: the target takes comments, the captcha   *)
(* is solved, the form is valid; the comment will be pending.               *)
SubmitComment(r) ==
    /\ Ask(r, "submits")
    /\ \E a \in ResolveCommentable, p \in {0} \cup CommentIds, e \in Addresses \cup {NoAddress} :
        /\ ValidParent(a, p)
        /\ Keep(r, [Idle EXCEPT !.pc = "insert",
                     !.row = [NoComment EXCEPT !.on = a, !.parent = p, !.status = "pending", !.email = e]])
    /\ UNCHANGED <<runVars, articles, comments, decided, announced, abandoned>>

Insert(r, next) ==
    \E i \in CommentIds :
        /\ IsNextCommentId(i)
        /\ req[r].row.parent = 0 \/ Present(req[r].row.parent)
        /\ comments' = CreateComment(i, req[r].row)
        /\ decided' = [decided EXCEPT ![i] = "none"]
        /\ announced' = announced \ {i} /\ abandoned' = abandoned \ {i}
        /\ Keep(r, IF next = "idle" THEN Idle ELSE [req[r] EXCEPT !.pc = next, !.id = i])

InsertComment(r) ==
    /\ req[r].pc = "insert" /\ Insert(r, "idle")
    /\ UNCHANGED <<runVars, articles, budget>>

(* The parent went away after it was read: the insert breaks the foreign key. *)
InsertRefused(r) ==
    /\ req[r].pc \in {"insert", "reply"} /\ req[r].row.parent # 0 /\ ~Present(req[r].row.parent)
    /\ Keep(r, Idle)
    /\ UNCHANGED <<runVars, articles, comments, budget, decided, announced, abandoned>>

(* moderateComment and each id of batchModerateComments: read the row ...   *)
ReadForModeration(r) ==
    /\ Ask(r, "moderations")
    /\ \E i \in CommentIds, st \in {"approved", "rejected"} :
        /\ Present(i)
        /\ Keep(r, [pc |-> "moderate", id |-> i, before |-> comments[i].status,
                    row |-> [comments[i] EXCEPT !.status = st]])
    /\ UNCHANGED <<runVars, articles, comments, decided, announced, abandoned>>

(* ... and write the status by id; a row that is gone is an error page.     *)
Moderate(r) ==
    /\ req[r].pc = "moderate"
    /\ LET i == req[r].id  st == req[r].row.status IN
       IF Present(i)
       THEN /\ comments' = UpdateCommentStatus(i, st)
            /\ decided' = [decided EXCEPT ![i] = st]
            /\ Keep(r, IF st = "approved"
                       THEN [req[r] EXCEPT !.pc = "notify", !.row = comments'[i]] ELSE Idle)
       ELSE Keep(r, Idle) /\ UNCHANGED <<comments, decided>>
    /\ UNCHANGED <<runVars, articles, budget, announced, abandoned>>

CommentableExists(c) == GetCommentableArticleByID(c.on)

(* adminReplyComment: an approved answer to a local comment that is not     *)
(* rejected, on an article that exists, without an address.                 *)
ReadForReply(r) ==
    /\ Ask(r, "moderations")
    /\ \E i \in CommentIds :
        /\ Present(i) /\ IsLocal(comments[i])
        /\ comments[i].status # "rejected" /\ CommentableExists(comments[i])
        /\ Keep(r, [Idle EXCEPT !.pc = "reply",
                     !.row = [NoComment EXCEPT !.on = comments[i].on, !.parent = i, !.status = "approved"]])
    /\ UNCHANGED <<runVars, articles, comments, decided, announced, abandoned>>

InsertReply(r) ==
    /\ req[r].pc = "reply" /\ Insert(r, "notify")
    /\ UNCHANGED <<runVars, articles, budget>>

(* eligibleReply, and the same conditions in EnqueueReplyNotification: of   *)
(* the reply as it was read and the parent as it is now.                    *)
EligibleReply(c) ==
    /\ c.status = "approved" /\ IsLocal(c) /\ Present(c.parent)
    /\ LET parent == comments[c.parent] IN
        /\ IsLocal(parent) /\ parent.email # NoAddress
        /\ c.email # parent.email

NotifyJob(i) == [job |-> "reply", id |-> i]

(* Faulty: only a pending row counts as a transition. *)
MutTransition(r) == req[r].before = "pending"

(* notifyReplyApproved: the row was not approved when it was read.          *)
Transition(r) == req[r].before # "approved"

NotifyReplyApproved(r) ==
    /\ req[r].pc = "notify"
    /\ LET i == req[r].id IN
       IF Transition(r) /\ EligibleReply(req[r].row)
       THEN /\ \E j \in JobIds : IsNextRowId(jobs, j) /\ jobs' = EnqueueJobRun(jobs, j, NotifyJob(i), clock, clock)
            /\ announced' = announced \cup {i}
       ELSE UNCHANGED <<jobs, announced>>
    /\ Keep(r, Idle)
    /\ UNCHANGED <<clock, runner, faults, crashes, articles, comments, budget, decided, abandoned>>

(* batchDestroyComments, one id.  Unless DestroyRaces, an id is freed for   *)
(* the next insert only while no step under way holds one (held).           *)
DestroyComment(held) ==
    /\ Serving /\ Spend("destroys")
    /\ \E i \in CommentIds :
        /\ Present(i)
        /\ comments' = DeleteComment(i)
    /\ DestroyRaces \/ ~held \/ LastId(comments') = LastId(comments)
    /\ UNCHANGED <<runVars, articles, req, decided, announced, abandoned>>

(* articles.Destroy: the article with its comments, in one transaction.     *)
DestroyArticle(held) ==
    /\ Serving /\ Spend("destroys")
    /\ \E a \in {b \in Articles : GetCommentableArticleByID(b)} :
        /\ articles' = [articles EXCEPT ![a] = "gone"]
        /\ comments' = Without(UNION {Subtree(i) : i \in {j \in CommentIds : comments[j].on = a}})
    /\ DestroyRaces \/ ~held \/ LastId(comments') = LastId(comments)
    /\ UNCHANGED <<runVars, req, decided, announced, abandoned>>

(* A save of the article turns its comments off or on.                      *)
ToggleComments ==
    /\ Serving /\ Spend("destroys")
    /\ \E a \in {b \in Articles : GetCommentableArticleByID(b)} :
        articles' = [articles EXCEPT ![a] = IF AcceptsComments(a) THEN "closed" ELSE "open"]
    /\ UNCHANGED <<runVars, comments, req, decided, announced, abandoned>>

(* A failing statement: an error page, or a lost enqueue that is logged.    *)
RequestFails(r) ==
    /\ req[r] # Idle /\ faults < MaxFaults
    /\ faults' = faults + 1
    /\ Keep(r, Idle)
    /\ abandoned' = IF req[r].pc = "notify" THEN abandoned \cup {req[r].id} ELSE abandoned
    /\ UNCHANGED <<clock, jobs, runner, crashes, articles, comments, budget, decided, announced>>
=============================================================================
