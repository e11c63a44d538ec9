------------------------- MODULE CommentFetchProofs -------------------------
(***************************************************************************)
(* Proofs about Comments and CommentFetch: an import keeps the moderators' *)
(* decisions and makes one row per comment, a finished batch is threaded,  *)
(* an approved reply is announced, its mail repeats only for a run that    *)
(* was cut off, and a stored fetch time is that of a queued fetch.         *)
(***************************************************************************)
EXTENDS CommentFetch, HandlerRunsProofs, WellFoundedInduction

(* What a request under way keeps between its statements. *)
Fits(q) ==
    /\ q \in Request
    /\ q.pc # "idle" => q.row \in Comment
    /\ q.pc \in {"moderate", "notify"} => q.id \in CommentIds
    /\ q.pc \in {"insert", "reply"} => q.row.ext = Local
    /\ q.pc = "insert" => q.row.status = "pending"
    /\ q.pc \in {"reply", "notify"} => q.row.status = "approved"
    /\ q.pc = "reply" => q.before = "pending"

Types == TypeOK /\ RunInv /\ \A r \in Requests : Fits(req[r])

Busy == {"find", "save", "link"}

(* The batch in hand belongs to one article's thread, and the first pass   *)
(* comes to each of its comments once.                                     *)
OneBatch ==
    /\ fetch.stage \in Busy =>
        /\ fetch.article \in Articles
        /\ \A e \in fetch.todo : Thread[e].article = fetch.article
        /\ \A k \in fetch.known : Thread[k.ext].article = fetch.article /\ k.ext \notin fetch.todo
        /\ \A k, n \in fetch.known : k.ext = n.ext => k = n
    /\ fetch.stage = "save" =>
        /\ fetch.ext \in Externals /\ Thread[fetch.ext].article = fetch.article
        /\ fetch.ext \notin fetch.todo /\ \A k \in fetch.known : k.ext # fetch.ext

(* An imported row is on the article whose post it answers, there is one   *)
(* per comment, and a lookup that found none is still right when the row   *)
(* is written: nothing else imports.                                       *)
OneRowEach ==
    /\ \A i \in CommentIds : Present(i) /\ ~IsLocal(comments[i]) =>
        /\ comments[i].on = Thread[comments[i].ext].article
        /\ \A j \in CommentIds : Present(j) /\ comments[i].ext = comments[j].ext => i = j
    /\ fetch.stage = "save" /\ fetch.id = 0 =>
        \A i \in CommentIds : Present(i) => comments[i].ext # fetch.ext

DecisionStands ==
    \A i \in CommentIds : Present(i) /\ decided[i] # "none" => comments[i].status = decided[i]

(* Row i is the row of the comment e and of no other, or gone for good. *)
RowOf(i, e) ==
    /\ i <= LastId(comments)
    /\ Present(i) => comments[i].ext = e
    /\ \A j \in CommentIds : Present(j) /\ comments[j].ext = e => j = i

Below(k) ==
    \A p \in GetExternalComment(fetch.article, Thread[k.ext].parent) : comments[k.id].parent = p

Threading ==
    /\ fetch.stage \in Busy => \A k \in fetch.known : RowOf(k.id, k.ext)
    /\ fetch.stage = "save" /\ fetch.id # 0 => RowOf(fetch.id, fetch.ext)
    /\ fetch.stage \in {"find", "save"} => \A k \in fetch.known :
        /\ Thread[k.ext].parent # Root => k.ext \in fetch.links
        /\ Present(k.id) => comments[k.id].parent = k.parent
    /\ fetch.stage = "link" => \A k \in fetch.known : Present(k.id) =>
        /\ k.ext \in fetch.links => comments[k.id].parent = k.parent
        /\ k.ext \notin fetch.links /\ Thread[k.ext].parent # Root => Below(k)

(* parent_id REFERENCES comments(id). *)
ParentsStand == \A i \in CommentIds : Present(i) => comments[i].parent = 0 \/ Present(comments[i].parent)

(* eligibleReply but for the reply's own status. *)
Tellable(c) ==
    /\ IsLocal(c) /\ Present(c.parent) /\ IsLocal(comments[c.parent])
    /\ comments[c.parent].email # NoAddress /\ c.email # comments[c.parent].email

Covered(i) ==
    \/ i \in announced \cup abandoned
    \/ \E r \in Requests : req[r].pc = "notify" /\ req[r].id = i /\ req[r].before # "approved"

(* What a request under way knows of its row: approving again what was     *)
(* approved tells nobody twice, because somebody was told or is being told.*)
RequestTold(r) ==
    /\ req[r].pc \in {"moderate", "notify"} => req[r].id <= LastId(comments)
    /\ (req[r].pc = "moderate" /\ req[r].before = "approved" /\ Present(req[r].id)
          /\ Tellable(comments[req[r].id])) => Covered(req[r].id)
    /\ (req[r].pc = "notify" /\ Present(req[r].id)) =>
          /\ req[r].row.ext = comments[req[r].id].ext
          /\ IsLocal(req[r].row) => /\ req[r].row.parent = comments[req[r].id].parent
                                    /\ req[r].row.email = comments[req[r].id].email

Announcing ==
    /\ \A i \in CommentIds :
        Present(i) /\ comments[i].status = "approved" /\ Tellable(comments[i]) => Covered(i)
    /\ \A r \in Requests : RequestTold(r)

(* A row that is not done and not about to be has not used its mail up. *)
MailsCounted ==
    \A j \in JobIds :
        /\ mails[j] <= 1 + cut
        /\ (jobs[j].status # "done" /\ ~(runner.pc = "book" /\ runner.outcome = "ok" /\ runner.id = j))
              => mails[j] <= cut

-----------------------------------------------------------------------------
(* The operators of the model.                                             *)

LEMMA LeastExists ==
    ASSUME NEW A, A \subseteq Nat, A # {}
    PROVE  \E m \in A : \A x \in A : m <= x
  <1> DEFINE R == {p \in Nat \X Nat : p[1] < p[2]}
  <1>1. IsWellFoundedOn(R, Nat)
    BY NatLessThanWellFounded DEF OpToRel
  <1>2. PICK m \in A : \A x \in A : ~(<<x, m>> \in R)
    <2> HIDE DEF R
    <2> QED
      BY <1>1, WFMin
  <1>3. \A x \in A : m <= x
    <2> TAKE x \in A
    <2>1. x \in Nat /\ m \in Nat /\ ~(<<x, m>> \in R)
      BY <1>2
    <2> QED
      BY <2>1
  <1> QED
    BY <1>3

LEMMA MinIsIn ==
    ASSUME NEW S, S \subseteq Nat, S # {}
    PROVE  Min(S) \in S
  BY LeastExists DEF Min

LEMMA MaxIsLargest ==
    ASSUME NEW N \in Nat, NEW S, S \subseteq 0..N, S # {}
    PROVE  Max(S) \in S /\ \A y \in S : y <= Max(S)
  <1> DEFINE A == {N - x : x \in S}
  <1>1. A \subseteq Nat /\ A # {}
    <2>1. PICK x \in S : TRUE
      OBVIOUS
    <2>2. \A y \in S : N - y \in Nat
      OBVIOUS
    <2> QED
      BY <2>1, <2>2
  <1>2. PICK m \in A : \A y \in A : m <= y
    <2> HIDE DEF A
    <2> QED
      BY <1>1, LeastExists
  <1>3. PICK x \in S : m = N - x
    BY <1>2
  <1>4. \A y \in S : x >= y
    <2> TAKE y \in S
    <2>1. N - y \in A /\ x \in 0..N /\ y \in 0..N
      BY <1>3
    <2>2. N - x <= N - y
      BY <1>2, <1>3, <2>1
    <2> QED
      BY <2>1, <2>2
  <1>5. Max(S) \in S /\ \A y \in S : Max(S) >= y
    BY <1>4 DEF Max
  <1>6. \A y \in S : y \in Int /\ Max(S) \in Int
    BY <1>5
  <1> QED
    BY <1>5, <1>6

LEMMA LastIdIsLast ==
    ASSUME NEW T
    PROVE  /\ LastId(T) \in 0..MaxComments
           /\ \A j \in CommentIds : T[j] # NoComment => j <= LastId(T)
           /\ LastId(T) # 0 => T[LastId(T)] # NoComment
  <1> DEFINE S == {0} \cup {j \in CommentIds : T[j] # NoComment}
  <1>1. S \subseteq 0..MaxComments /\ S # {} /\ MaxComments \in Nat
    BY CommentsAssumption DEF CommentIds
  <1>2. Max(S) \in S /\ \A y \in S : y <= Max(S)
    <2> HIDE DEF S
    <2> QED
      BY <1>1, MaxIsLargest
  <1>3. LastId(T) = Max(S)
    BY DEF LastId
  <1> QED
    BY <1>1, <1>2, <1>3

(* A table that lost no row has no smaller last id. *)
LEMMA LastIdGrows ==
    ASSUME NEW T, NEW U, \A j \in CommentIds : T[j] # NoComment => U[j] # NoComment
    PROVE  LastId(T) <= LastId(U)
  <1>1. /\ LastId(T) \in 0..MaxComments /\ LastId(U) \in 0..MaxComments /\ MaxComments \in Nat
        /\ LastId(T) # 0 => T[LastId(T)] # NoComment
        /\ \A j \in CommentIds : U[j] # NoComment => j <= LastId(U)
    BY LastIdIsLast, CommentsAssumption
  <1>2. CASE LastId(T) = 0
    BY <1>1, <1>2
  <1>3. CASE LastId(T) # 0
    BY <1>1, <1>3 DEF CommentIds
  <1> QED
    BY <1>2, <1>3

LEMMA NoCommentIs ==
    /\ NoComment \in [on : {0}, parent : {0}, status : {"none"}, ext : {Local},
                      email : {NoAddress}, text : {0}]
    /\ NoComment \notin Comment
  BY DEF NoComment, Comment, Decisions

LEMMA IdsArePositive == \A i \in CommentIds : i \in Nat /\ i # 0 /\ i <= MaxComments
  BY CommentsAssumption DEF CommentIds

Table == [CommentIds -> Comment \cup {NoComment}]

LEMMA PresentRow ==
    ASSUME comments \in Table, NEW i \in CommentIds
    PROVE  Present(i) <=> comments[i] \in Comment
  BY NoCommentIs, IdsArePositive DEF Present, Table

LEMMA AbsentRow ==
    ASSUME comments \in Table, NEW i \in CommentIds
    PROVE  ~Present(i) => comments[i] = NoComment
  BY IdsArePositive DEF Present, Table

(* An INSERT takes an id above every id given out and not freed. *)
LEMMA NextIdIsNew ==
    ASSUME comments \in Table, NEW i \in CommentIds, IsNextCommentId(i), NEW c \in Comment
    PROVE  /\ CreateComment(i, c) \in Table
           /\ ~Present(i) /\ LastId(comments) < i
           /\ CreateComment(i, c)[i] = c
           /\ \A j \in CommentIds \ {i} : CreateComment(i, c)[j] = comments[j]
           /\ LastId(comments) <= LastId(CreateComment(i, c))
           /\ i <= LastId(CreateComment(i, c))
  <1>1. /\ CreateComment(i, c) \in Table /\ CreateComment(i, c)[i] = c
        /\ \A j \in CommentIds \ {i} : CreateComment(i, c)[j] = comments[j]
    BY DEF CreateComment, Table
  <1>2. /\ LastId(comments) \in 0..MaxComments
        /\ \A j \in CommentIds : comments[j] # NoComment => j <= LastId(comments)
    BY LastIdIsLast
  <1>3. i = LastId(comments) + 1 /\ LastId(comments) < i
    BY <1>2 DEF IsNextCommentId
  <1>4. ~Present(i)
    BY <1>2, <1>3, IdsArePositive DEF Present
  <1>5. i <= LastId(CreateComment(i, c))
    BY <1>1, NoCommentIs, LastIdIsLast
  <1>6. \A j \in CommentIds : comments[j] # NoComment => CreateComment(i, c)[j] # NoComment
    BY <1>1, NoCommentIs
  <1> HIDE DEF CreateComment
  <1>7. LastId(comments) <= LastId(CreateComment(i, c))
    BY <1>6, LastIdGrows
  <1> QED
    BY <1>1, <1>3, <1>4, <1>5, <1>7

(* ON DELETE CASCADE leaves no reply behind. *)
LEMMA SubtreeHasReplies ==
    ASSUME NEW i \in CommentIds
    PROVE  i \in Subtree(i) /\ WithReplies(Subtree(i)) /\ Subtree(i) \subseteq CommentIds
  <1>1. i \in Subtree(i) /\ Subtree(i) \subseteq CommentIds
    BY DEF Subtree
  <1>2. ASSUME NEW j \in CommentIds, comments[j].parent \in Subtree(i),
               NEW S \in SUBSET CommentIds, i \in S, WithReplies(S)
        PROVE  j \in S
    BY <1>2 DEF Subtree, WithReplies
  <1>3. WithReplies(Subtree(i))
    BY <1>2 DEF Subtree, WithReplies
  <1> QED
    BY <1>1, <1>3

LEMMA WithoutRows ==
    ASSUME comments \in Table, NEW ids
    PROVE  /\ Without(ids) \in Table
           /\ \A j \in CommentIds : j \notin ids => Without(ids)[j] = comments[j]
           /\ \A j \in CommentIds : j \in ids => Without(ids)[j] = NoComment
  BY DEF Without, Table

-----------------------------------------------------------------------------
(* What the requests write.                                                *)

LEMMA Typed ==
    ASSUME Types
    PROVE  /\ RunInv /\ comments \in Table /\ req \in [Requests -> Request]
           /\ articles \in [Articles -> {"gone", "open", "closed"}]
           /\ decided \in [CommentIds -> Decisions \cup {"none"}]
           /\ \A r \in Requests : Fits(req[r])
           /\ fetch \in Fetch /\ stamp \in [CronPlatforms -> Nat] /\ cron \subseteq CronPlatforms
           /\ mails \in [JobIds -> Nat] /\ cut \in Nat
           /\ clock \in Nat /\ faults \in 0..MaxFaults /\ crashes \in 0..MaxCrashes
  BY DEF Types, TypeOK, ComTypeOK, Table, RunInv, RunTypeOK

LEMMA SameRun ==
    ASSUME RunInv, UNCHANGED runVars
    PROVE  RunInv'
  BY DEF runVars, RunInv, RunTypeOK, AttemptLeft, HeldRowRuns

LEMMA IdleFits == Fits(Idle) /\ Idle.pc = "idle"
  BY DEF Fits, Idle, Request, Decisions

(* The other requests are left alone. *)
LEMMA KeepOne ==
    ASSUME Types, NEW r \in Requests, NEW q, Fits(q), Keep(r, q)
    PROVE  /\ req' \in [Requests -> Request] /\ req'[r] = q
           /\ \A x \in Requests \ {r} : req'[x] = req[x]
           /\ \A x \in Requests : Fits(req'[x])
  <1>1. req \in [Requests -> Request] /\ q \in Request /\ req' = [req EXCEPT ![r] = q]
    BY Typed DEF Keep, Fits
  <1>2. /\ req' \in [Requests -> Request] /\ req'[r] = q
        /\ \A x \in Requests \ {r} : req'[x] = req[x]
    BY <1>1
  <1> QED
    BY <1>2, Typed

LEMMA WebTypes ==
    ASSUME Types, NEW r \in Requests, NEW q, Fits(q), Keep(r, q), RunInv', comments' \in Table,
           UNCHANGED articles, decided' \in [CommentIds -> Decisions \cup {"none"}],
           UNCHANGED fetchVars
    PROVE  Types'
  <1>1. /\ req' \in [Requests -> Request] /\ \A x \in Requests : Fits(req'[x])
    BY KeepOne
  <1>2. ComTypeOK'
    BY <1>1, Typed DEF ComTypeOK, Table
  <1>3. \A x \in Requests : Fits(req[x])'
    BY <1>1 DEF Fits
  <1>4. RunTypeOK'
    BY DEF RunInv
  <1>5. fetch' \in Fetch /\ stamp' \in [CronPlatforms -> Nat] /\ cron' \subseteq CronPlatforms
        /\ mails' \in [JobIds -> Nat] /\ cut' \in Nat
    BY Typed DEF fetchVars
  <1> QED
    BY <1>2, <1>3, <1>4, <1>5 DEF Types, TypeOK

(* A visitor's comment waits to be inserted, pending. *)
LEMMA SubmitWrites ==
    ASSUME Types, NEW r \in Requests, SubmitComment(r)
    PROVE  /\ \E q \in Request : Fits(q) /\ Keep(r, q) /\ q.pc = "insert"
           /\ UNCHANGED <<runVars, articles, comments, decided, announced, abandoned>>
  <1>1. PICK a \in ResolveCommentable, p \in {0} \cup CommentIds, e \in Addresses \cup {NoAddress} :
          Keep(r, [Idle EXCEPT !.pc = "insert",
                    !.row = [NoComment EXCEPT !.on = a, !.parent = p, !.status = "pending", !.email = e]])
    BY DEF SubmitComment
  <1> DEFINE c == [NoComment EXCEPT !.on = a, !.parent = p, !.status = "pending", !.email = e]
             q == [Idle EXCEPT !.pc = "insert", !.row = c]
  <1>2. a \in Articles
    BY DEF ResolveCommentable
  <1>3. c \in Comment /\ c.ext = Local /\ c.status = "pending"
    <2>1. c \in [on : {a}, parent : {p}, status : {"pending"}, ext : {Local}, email : {e}, text : {0}]
      BY NoCommentIs
    <2> HIDE DEF c
    <2> QED
      BY <1>1, <1>2, <2>1 DEF Comment, Decisions
  <1> HIDE DEF c
  <1>4. Idle \in [pc : {"idle"}, id : {0}, row : {NoComment}, before : {"pending"}]
    BY DEF Idle
  <1>5. q \in Request /\ q.pc = "insert" /\ q.row = c
    BY <1>3, <1>4 DEF Request, Decisions
  <1>6. Fits(q)
    BY <1>3, <1>5 DEF Fits
  <1>7. Keep(r, q)
    BY <1>1 DEF c
  <1> HIDE DEF q
  <1>8. UNCHANGED <<runVars, articles, comments, decided, announced, abandoned>>
    BY DEF SubmitComment
  <1> QED
    BY <1>5, <1>6, <1>7, <1>8

(* An admin's answer waits to be inserted, approved. *)
LEMMA ReplyWrites ==
    ASSUME Types, NEW r \in Requests, ReadForReply(r)
    PROVE  /\ \E q \in Request : Fits(q) /\ Keep(r, q) /\ q.pc = "reply"
           /\ UNCHANGED <<runVars, articles, comments, decided, announced, abandoned>>
  <1>1. PICK i \in CommentIds :
          /\ Present(i)
          /\ Keep(r, [Idle EXCEPT !.pc = "reply",
                 !.row = [NoComment EXCEPT !.on = comments[i].on, !.parent = i, !.status = "approved"]])
    BY DEF ReadForReply
  <1> DEFINE c == [NoComment EXCEPT !.on = comments[i].on, !.parent = i, !.status = "approved"]
             q == [Idle EXCEPT !.pc = "reply", !.row = c]
  <1>2. comments[i].on \in Articles
    BY <1>1, Typed, PresentRow DEF Comment
  <1>3. c \in Comment /\ c.ext = Local /\ c.status = "approved"
    <2>1. c \in [on : {comments[i].on}, parent : {i}, status : {"approved"}, ext : {Local},
                 email : {NoAddress}, text : {0}]
      BY NoCommentIs
    <2> HIDE DEF c
    <2> QED
      BY <1>1, <1>2, <2>1 DEF Comment, Decisions
  <1> HIDE DEF c
  <1>4. Idle \in [pc : {"idle"}, id : {0}, row : {NoComment}, before : {"pending"}]
    BY DEF Idle
  <1>5. q \in Request /\ q.pc = "reply" /\ q.row = c /\ q.before = "pending"
    BY <1>3, <1>4 DEF Request, Decisions
  <1>6. Fits(q)
    BY <1>3, <1>5 DEF Fits
  <1>7. Keep(r, q)
    BY <1>1 DEF c
  <1> HIDE DEF q
  <1>8. UNCHANGED <<runVars, articles, comments, decided, announced, abandoned>>
    BY DEF ReadForReply
  <1> QED
    BY <1>5, <1>6, <1>7, <1>8

LEMMA ReadWrites ==
    ASSUME Types, NEW r \in Requests, ReadForModeration(r)
    PROVE  /\ \E i \in CommentIds, q \in Request :
                /\ Present(i) /\ Fits(q) /\ Keep(r, q)
                /\ q.pc = "moderate" /\ q.id = i /\ q.before = comments[i].status
           /\ UNCHANGED <<runVars, articles, comments, decided, announced, abandoned>>
  <1>1. PICK i \in CommentIds, st \in {"approved", "rejected"} :
          /\ Present(i)
          /\ Keep(r, [pc |-> "moderate", id |-> i, before |-> comments[i].status,
                      row |-> [comments[i] EXCEPT !.status = st]])
    BY DEF ReadForModeration
  <1> DEFINE c == [comments[i] EXCEPT !.status = st]
             q == [pc |-> "moderate", id |-> i, before |-> comments[i].status, row |-> c]
  <1>2. comments[i] \in Comment
    BY <1>1, Typed, PresentRow
  <1>3. c \in Comment /\ comments[i].status \in Decisions
    BY <1>1, <1>2 DEF Comment, Decisions
  <1> HIDE DEF c
  <1>4. q \in Request /\ q.pc = "moderate" /\ q.id = i /\ q.before = comments[i].status /\ q.row = c
    BY <1>1, <1>3 DEF Request
  <1>5. Fits(q)
    BY <1>1, <1>3, <1>4 DEF Fits
  <1>6. Keep(r, q)
    BY <1>1 DEF c
  <1> HIDE DEF q
  <1>7. UNCHANGED <<runVars, articles, comments, decided, announced, abandoned>>
    BY DEF ReadForModeration
  <1> QED
    BY <1>1, <1>4, <1>5, <1>6, <1>7

(* An INSERT of a request: the row is local, its parent stands, and of an  *)
(* admin's answer the notification is next.                                *)
LEMMA InsertWrites ==
    ASSUME Types, NEW r \in Requests, InsertComment(r) \/ InsertReply(r)
    PROVE  /\ \E i \in CommentIds, q \in Request :
                /\ IsNextCommentId(i) /\ Fits(q) /\ Keep(r, q)
                /\ comments' = CreateComment(i, req[r].row)
                /\ decided' = [decided EXCEPT ![i] = "none"]
                /\ announced' = announced \ {i} /\ abandoned' = abandoned \ {i}
                /\ \/ q.pc = "idle" /\ req[r].pc = "insert" /\ req[r].row.status = "pending"
                   \/ /\ q.pc = "notify" /\ q.id = i /\ q.row = req[r].row
                      /\ q.before = "pending"
           /\ req[r].row \in Comment /\ req[r].row.ext = Local
           /\ req[r].pc \in {"insert", "reply"}
           /\ req[r].row.parent = 0 \/ Present(req[r].row.parent)
           /\ UNCHANGED <<runVars, articles>>
  <1>1. UNCHANGED <<runVars, articles>> /\ req[r].pc \in {"insert", "reply"}
    BY DEF InsertComment, InsertReply
  <1>2. Fits(req[r]) /\ req[r].row \in Comment /\ req[r].row.ext = Local /\ req[r] \in Request
    BY <1>1, Typed DEF Fits
  <1>3. PICK next \in {"idle", "notify"} :
          Insert(r, next) /\ req[r].pc = (IF next = "idle" THEN "insert" ELSE "reply")
    BY DEF InsertComment, InsertReply
  <1>4. PICK i \in CommentIds :
          /\ IsNextCommentId(i)
          /\ req[r].row.parent = 0 \/ Present(req[r].row.parent)
          /\ comments' = CreateComment(i, req[r].row)
          /\ decided' = [decided EXCEPT ![i] = "none"]
          /\ announced' = announced \ {i} /\ abandoned' = abandoned \ {i}
          /\ Keep(r, IF next = "idle" THEN Idle ELSE [req[r] EXCEPT !.pc = next, !.id = i])
    BY <1>3 DEF Insert
  <1>5. CASE next = "idle"
    <2>1. Keep(r, Idle) /\ Idle \in Request /\ Fits(Idle) /\ Idle.pc = "idle"
      BY <1>4, <1>5, IdleFits DEF Fits
    <2>2. req[r].pc = "insert" /\ req[r].row.status = "pending"
      BY <1>2, <1>3, <1>5 DEF Fits
    <2> QED
      BY <1>1, <1>2, <1>4, <2>1, <2>2
  <1>6. CASE next = "notify"
    <2> DEFINE q == [req[r] EXCEPT !.pc = "notify", !.id = i]
    <2>1. Keep(r, q)
      BY <1>4, <1>6
    <2>2. /\ q \in Request /\ q.pc = "notify" /\ q.id = i /\ q.row = req[r].row
          /\ q.before = req[r].before
      BY <1>2, <1>4 DEF Request
    <2>3. req[r].row.status = "approved" /\ req[r].before = "pending"
      BY <1>2, <1>3, <1>6 DEF Fits
    <2>4. Fits(q)
      BY <1>2, <1>4, <2>2, <2>3 DEF Fits
    <2> HIDE DEF q
    <2> QED
      BY <1>1, <1>2, <1>4, <2>1, <2>2, <2>3, <2>4
  <1> QED
    BY <1>5, <1>6

(* The status by id, and the notification when it is approved. *)
LEMMA ModerateWrites ==
    ASSUME Types, NEW r \in Requests, Moderate(r)
    PROVE  /\ req[r].pc = "moderate" /\ req[r].id \in CommentIds
           /\ UNCHANGED <<runVars, articles, announced, abandoned>>
           /\ \/ /\ Keep(r, Idle) /\ UNCHANGED <<comments, decided>>
                 /\ ~Present(req[r].id)
              \/ \E st \in Decisions, q \in Request :
                   /\ Present(req[r].id) /\ Fits(q) /\ Keep(r, q)
                   /\ comments' \in Table
                   /\ comments'[req[r].id] = [comments[req[r].id] EXCEPT !.status = st]
                   /\ \A j \in CommentIds \ {req[r].id} : comments'[j] = comments[j]
                   /\ decided' = [decided EXCEPT ![req[r].id] = st]
                   /\ \/ q.pc = "idle" /\ st # "approved"
                      \/ /\ q.pc = "notify" /\ q.id = req[r].id /\ q.row = comments'[req[r].id]
                         /\ q.before = req[r].before /\ st = "approved"
  <1>1. /\ req[r].pc = "moderate" /\ req[r].id \in CommentIds /\ req[r] \in Request
        /\ UNCHANGED <<runVars, articles, announced, abandoned>> /\ req[r].row \in Comment
    BY Typed DEF Moderate, Fits
  <1>2. PICK i \in CommentIds : i = req[r].id
    BY <1>1
  <1>3. CASE ~Present(i)
    BY <1>1, <1>2, <1>3 DEF Moderate
  <1>4. CASE Present(i)
    <2>1. PICK st \in Decisions : st = req[r].row.status
      BY <1>1 DEF Comment
    <2>2. /\ comments' = UpdateCommentStatus(i, st) /\ decided' = [decided EXCEPT ![i] = st]
          /\ Keep(r, IF st = "approved" THEN [req[r] EXCEPT !.pc = "notify", !.row = comments'[i]] ELSE Idle)
      BY <1>2, <1>4, <2>1 DEF Moderate
    <2>3. comments[i] \in Comment /\ comments \in Table
      BY <1>4, Typed, PresentRow
    <2>4. [comments[i] EXCEPT !.status = st] \in Comment
          /\ [comments[i] EXCEPT !.status = st].status = st
      BY <2>3 DEF Comment
    <2>5. /\ comments' \in Table
          /\ comments'[i] = [comments[i] EXCEPT !.status = st]
          /\ \A j \in CommentIds \ {i} : comments'[j] = comments[j]
      BY <2>2, <2>3, <2>4 DEF UpdateCommentStatus, Table
    <2>6. CASE st # "approved"
      <3>1. Keep(r, Idle) /\ Idle \in Request /\ Fits(Idle) /\ Idle.pc = "idle"
        BY <2>2, <2>6, IdleFits DEF Fits
      <3> QED
        BY <1>1, <1>2, <1>4, <2>1, <2>2, <2>5, <2>6, <3>1
    <2>7. CASE st = "approved"
      <3>1. PICK c \in Comment : c = comments'[i] /\ c.status = "approved"
        BY <2>4, <2>5, <2>7
      <3> DEFINE q == [req[r] EXCEPT !.pc = "notify", !.row = c]
      <3>2. Keep(r, q)
        BY <2>2, <2>7, <3>1
      <3>3. q \in Request /\ q.pc = "notify" /\ q.id = i /\ q.row = c /\ q.before = req[r].before
        BY <1>1, <1>2, <3>1 DEF Request
      <3>4. Fits(q)
        BY <1>2, <3>1, <3>3 DEF Fits
      <3> HIDE DEF q
      <3> QED
        BY <1>1, <1>2, <1>4, <2>1, <2>2, <2>5, <2>7, <3>1, <3>2, <3>3, <3>4
    <2> QED
      BY <2>6, <2>7
  <1> QED
    BY <1>3, <1>4

LEMMA KindsAre ==
    /\ \A i \in CommentIds : NotifyJob(i) \in Kinds
    /\ \A p \in CronPlatforms : FetchJob(p) \in Kinds
    /\ \A a \in Articles, p \in Platforms : ArticleFetchJob(a, p) \in Kinds
  BY CommentFetchAssumption DEF JobKinds

(* At most a new row is queued. *)
AddsRow ==
    \/ UNCHANGED jobs
    \/ \E j \in JobIds : /\ jobs[j] = NoRow /\ jobs'[j].status = "queued"
                         /\ \A k \in JobIds \ {j} : jobs'[k] = jobs[k]

LEMMA EnqueueAdds ==
    ASSUME RunInv, NEW j \in JobIds, IsNextRowId(jobs, j), NEW k \in Kinds,
           jobs' = EnqueueJobRun(jobs, j, k, clock, clock),
           UNCHANGED <<clock, runner, faults, crashes>>
    PROVE  RunInv' /\ AddsRow
  <1>1. jobs \in JobTable /\ clock \in Nat /\ faults' \in 0..MaxFaults
    BY DEF RunInv, RunTypeOK
  <1>2. RunInv'
    BY <1>1, EnqueueInv
  <1>3. /\ jobs[j] = NoRow
        /\ jobs'[j] = [kind |-> k, status |-> "queued", runAt |-> clock, attempts |-> 0,
                       updatedAt |-> clock]
        /\ \A i \in JobIds \ {j} : jobs'[i] = jobs[i]
    BY <1>1, EnqueueRows
  <1>4. jobs'[j].status = "queued"
    BY <1>3
  <1> QED
    BY <1>2, <1>3, <1>4 DEF AddsRow

LEMMA NotifyWrites ==
    ASSUME Types, NEW r \in Requests, NotifyReplyApproved(r)
    PROVE  /\ RunInv' /\ Keep(r, Idle) /\ req[r].pc = "notify" /\ req[r].id \in CommentIds
           /\ req[r].row \in Comment /\ req[r].row.status = "approved"
           /\ UNCHANGED <<clock, runner, faults, crashes, articles, comments, decided, abandoned>>
           /\ \/ Transition(r) /\ EligibleReply(req[r].row) /\ announced' = announced \cup {req[r].id}
              \/ ~(Transition(r) /\ EligibleReply(req[r].row)) /\ UNCHANGED announced
           /\ AddsRow
  <1>1. /\ Keep(r, Idle) /\ req[r].pc = "notify" /\ req[r].id \in CommentIds
        /\ req[r].row \in Comment /\ req[r].row.status = "approved"
        /\ UNCHANGED <<clock, runner, faults, crashes, articles, comments, decided, abandoned>>
    BY Typed DEF NotifyReplyApproved, Fits
  <1>2. CASE ~(Transition(r) /\ EligibleReply(req[r].row))
    <2>1. UNCHANGED <<jobs, announced>>
      BY <1>2 DEF NotifyReplyApproved
    <2>2. RunInv'
      BY <1>1, <2>1, Typed, SameRun DEF runVars
    <2> QED
      BY <1>1, <1>2, <2>1, <2>2 DEF AddsRow
  <1>3. CASE Transition(r) /\ EligibleReply(req[r].row)
    <2>1. announced' = announced \cup {req[r].id}
      BY <1>3 DEF NotifyReplyApproved
    <2>2. PICK j \in JobIds :
            IsNextRowId(jobs, j) /\ jobs' = EnqueueJobRun(jobs, j, NotifyJob(req[r].id), clock, clock)
      BY <1>3 DEF NotifyReplyApproved
    <2>3. RunInv /\ NotifyJob(req[r].id) \in Kinds
      BY <1>1, Typed, KindsAre
    <2>4. RunInv' /\ AddsRow
      BY <1>1, <2>2, <2>3, EnqueueAdds
    <2> QED
      BY <1>1, <1>3, <2>1, <2>4
  <1> QED
    BY <1>2, <1>3

LEMMA FailWrites ==
    ASSUME Types, NEW r \in Requests, RequestFails(r)
    PROVE  /\ RunInv' /\ Keep(r, Idle)
           /\ abandoned' = IF req[r].pc = "notify" THEN abandoned \cup {req[r].id} ELSE abandoned
           /\ UNCHANGED <<clock, jobs, runner, crashes, articles, comments, decided, announced>>
  <1>1. /\ Keep(r, Idle)
        /\ abandoned' = IF req[r].pc = "notify" THEN abandoned \cup {req[r].id} ELSE abandoned
        /\ UNCHANGED <<clock, jobs, runner, crashes, articles, comments, decided, announced>>
    BY DEF RequestFails
  <1>2. faults' \in 0..MaxFaults
    BY Typed, HandlerRunsAssumption DEF RequestFails
  <1>3. RunInv'
    BY <1>1, <1>2, Typed DEF RunInv, RunTypeOK, AttemptLeft, HeldRowRuns
  <1> QED
    BY <1>1, <1>3

(* A DELETE takes a set of rows with every reply to one of them, and frees *)
(* the last id only where the model lets it.                               *)
LEMMA DestroyWrites ==
    ASSUME Types, NEW held \in BOOLEAN, DestroyComment(held) \/ DestroyArticle(held)
    PROVE  /\ comments' \in Table
           /\ \A j \in CommentIds : comments'[j] \in {comments[j], NoComment}
           /\ \A j \in CommentIds : comments'[comments[j].parent] = NoComment /\ comments[j].parent \in CommentIds
                                      /\ comments[comments[j].parent] # NoComment
                                    => comments'[j] = NoComment
           /\ DestroyRaces \/ ~held \/ LastId(comments') = LastId(comments)
           /\ articles' \in [Articles -> {"gone", "open", "closed"}]
           /\ UNCHANGED <<runVars, req, decided, announced, abandoned>>
  <1>1. /\ UNCHANGED <<runVars, req, decided, announced, abandoned>>
        /\ DestroyRaces \/ ~held \/ LastId(comments') = LastId(comments)
    BY DEF DestroyComment, DestroyArticle
  <1>2. articles' \in [Articles -> {"gone", "open", "closed"}]
    BY Typed DEF DestroyComment, DestroyArticle
  <1>3. PICK ids \in SUBSET CommentIds : comments' = Without(ids) /\ WithReplies(ids)
    <2>1. CASE DestroyComment(held)
      <3>1. PICK i \in CommentIds : comments' = Without(Subtree(i))
        BY <2>1 DEF DestroyComment, DeleteComment
      <3> QED
        BY <3>1, SubtreeHasReplies
    <2>2. CASE DestroyArticle(held)
      <3>1. PICK S \in SUBSET CommentIds : comments' = Without(UNION {Subtree(i) : i \in S})
        <4>1. PICK a \in Articles : comments' = Without(UNION {Subtree(i) : i \in {j \in CommentIds : comments[j].on = a}})
          BY <2>2 DEF DestroyArticle
        <4> QED
          BY <4>1
      <3> DEFINE U == UNION {Subtree(i) : i \in S}
      <3>2. U \subseteq CommentIds
        BY SubtreeHasReplies
      <3>3. ASSUME NEW j \in CommentIds, comments[j].parent \in U
            PROVE  j \in U
        <4>1. PICK i \in S : comments[j].parent \in Subtree(i)
          BY <3>3
        <4>2. j \in Subtree(i)
          BY <4>1, SubtreeHasReplies DEF WithReplies
        <4> QED
          BY <4>2
      <3> QED
        BY <3>1, <3>2, <3>3 DEF WithReplies
    <2> QED
      BY <2>1, <2>2
  <1>4. /\ comments' \in Table
        /\ \A j \in CommentIds : j \notin ids => comments'[j] = comments[j]
        /\ \A j \in CommentIds : j \in ids => comments'[j] = NoComment
    BY <1>3, Typed, WithoutRows
  <1> QED
    BY <1>1, <1>2, <1>3, <1>4 DEF WithReplies

(* A request of the site, whichever it is: rows that stay keep what they   *)
(* say of a comment but for its status, and a new one is local and takes   *)
(* an id that no step under way holds.                                     *)
Mild ==
    /\ comments' \in Table
    /\ \A i \in CommentIds : comments'[i] # NoComment =>
        \/ /\ Present(i)
           /\ comments'[i].ext = comments[i].ext /\ comments'[i].on = comments[i].on
           /\ comments'[i].parent = comments[i].parent /\ comments'[i].email = comments[i].email
        \/ ~Present(i) /\ comments'[i].ext = Local /\ LastId(comments) < i
    /\ ~DestroyRaces /\ Held => LastId(comments) <= LastId(comments')

LEMMA SameIsMild ==
    ASSUME comments \in Table, UNCHANGED comments
    PROVE  Mild
  <1>1. LastId(comments) <= LastId(comments)
    BY LastIdGrows
  <1> QED
    BY <1>1, IdsArePositive DEF Mild, Present

LEMMA InsertIsMild ==
    ASSUME Types, NEW r \in Requests, InsertComment(r) \/ InsertReply(r)
    PROVE  Mild
  <1>1. PICK i \in CommentIds : IsNextCommentId(i) /\ comments' = CreateComment(i, req[r].row)
    BY InsertWrites
  <1>2. req[r].row \in Comment /\ req[r].row.ext = Local
    BY InsertWrites
  <1>3. PICK c \in Comment : c = req[r].row /\ c.ext = Local
    BY <1>2
  <1>4. comments' = CreateComment(i, c) /\ comments \in Table
    BY <1>1, <1>3, Typed
  <1>5. /\ comments' \in Table
        /\ ~Present(i) /\ LastId(comments) < i /\ comments'[i] = c
        /\ \A j \in CommentIds \ {i} : comments'[j] = comments[j]
        /\ LastId(comments) <= LastId(comments')
    BY <1>1, <1>4, NextIdIsNew
  <1> QED
    BY <1>3, <1>5, IdsArePositive DEF Mild, Present

LEMMA ModerateIsMild ==
    ASSUME Types, NEW r \in Requests, Moderate(r)
    PROVE  Mild
  <1>0. comments \in Table
    BY Typed
  <1>1. CASE UNCHANGED comments
    BY <1>0, <1>1, SameIsMild
  <1>2. CASE ~UNCHANGED comments
    <2>0. /\ req[r].id \in CommentIds
          /\ \E st \in Decisions :
               /\ Present(req[r].id) /\ comments' \in Table
               /\ comments'[req[r].id] = [comments[req[r].id] EXCEPT !.status = st]
               /\ \A j \in CommentIds \ {req[r].id} : comments'[j] = comments[j]
      <3>1. ~(Keep(r, Idle) /\ UNCHANGED <<comments, decided>> /\ ~Present(req[r].id))
        BY <1>2
      <3> QED
        BY <3>1, ModerateWrites, Zenon
    <2>1. PICK i \in CommentIds, st \in Decisions :
            /\ Present(i) /\ comments' \in Table
            /\ comments'[i] = [comments[i] EXCEPT !.status = st]
            /\ \A j \in CommentIds \ {i} : comments'[j] = comments[j]
      BY <2>0
    <2>2. comments[i] \in Comment
      BY <1>0, <2>1, PresentRow
    <2>3. /\ comments'[i].ext = comments[i].ext /\ comments'[i].on = comments[i].on
          /\ comments'[i].parent = comments[i].parent /\ comments'[i].email = comments[i].email
          /\ comments'[i] \in Comment
      BY <2>1, <2>2 DEF Comment
    <2>4. \A j \in CommentIds : comments[j] # NoComment => comments'[j] # NoComment
      BY <2>1, <2>3, NoCommentIs
    <2>5. LastId(comments) <= LastId(comments')
      BY <2>4, LastIdGrows
    <2> QED
      BY <2>1, <2>3, <2>5, IdsArePositive DEF Mild, Present
  <1> QED
    BY <1>1, <1>2

LEMMA DestroyIsMild ==
    ASSUME Types, DestroyComment(Held) \/ DestroyArticle(Held)
    PROVE  Mild
  <1>0. PICK held \in BOOLEAN : held = Held
    BY DEF Held
  <1>1. DestroyComment(held) \/ DestroyArticle(held)
    BY <1>0
  <1>2. /\ comments' \in Table
        /\ \A j \in CommentIds : comments'[j] \in {comments[j], NoComment}
        /\ DestroyRaces \/ ~held \/ LastId(comments') = LastId(comments)
    BY <1>1, DestroyWrites
  <1>3. LastId(comments') <= LastId(comments')
    BY LastIdGrows
  <1> QED
    BY <1>0, <1>2, <1>3, IdsArePositive DEF Mild, Present

LEMMA WebIsMild ==
    ASSUME Types, WebStep
    PROVE  Mild /\ UNCHANGED fetchVars
  <1>0. comments \in Table /\ UNCHANGED fetchVars
    BY Typed DEF WebStep
  <1>1. CASE \E r \in Requests : InsertComment(r) \/ InsertReply(r)
    BY <1>0, <1>1, InsertIsMild
  <1>2. CASE \E r \in Requests : Moderate(r)
    BY <1>0, <1>2, ModerateIsMild
  <1>3. CASE DestroyComment(Held) \/ DestroyArticle(Held)
    BY <1>0, <1>3, DestroyIsMild
  <1>4. CASE UNCHANGED comments
    BY <1>0, <1>4, SameIsMild
  <1>5. \/ \E r \in Requests : InsertComment(r) \/ InsertReply(r)
        \/ \E r \in Requests : Moderate(r)
        \/ DestroyComment(Held) \/ DestroyArticle(Held)
        \/ UNCHANGED comments
    BY DEF WebStep, SubmitComment, InsertRefused, ReadForModeration, ReadForReply,
           NotifyReplyApproved, RequestFails, ToggleComments
  <1> QED
    BY <1>1, <1>2, <1>3, <1>4, <1>5

LEMMA WebTyped ==
    ASSUME Types, WebStep
    PROVE  Types'
  <1>0. /\ comments \in Table /\ RunInv /\ decided \in [CommentIds -> Decisions \cup {"none"}]
        /\ comments' \in Table /\ UNCHANGED fetchVars
    BY Typed, WebIsMild DEF Mild
  <1>1. ASSUME NEW r \in Requests, SubmitComment(r) \/ ReadForReply(r) \/ ReadForModeration(r)
        PROVE  Types'
    <2>1. PICK q \in Request : Fits(q) /\ Keep(r, q)
      BY <1>1, SubmitWrites, ReplyWrites, ReadWrites
    <2>2. UNCHANGED <<runVars, articles, decided>>
      BY <1>1 DEF SubmitComment, ReadForReply, ReadForModeration
    <2> QED
      BY <1>0, <2>1, <2>2, SameRun, WebTypes
  <1>2. ASSUME NEW r \in Requests, InsertComment(r) \/ InsertReply(r)
        PROVE  Types'
    <2>1. PICK i \in CommentIds, q \in Request : Fits(q) /\ Keep(r, q) /\ decided' = [decided EXCEPT ![i] = "none"]
      BY <1>2, InsertWrites
    <2>2. UNCHANGED <<runVars, articles>>
      BY <1>2, InsertWrites
    <2>3. decided' \in [CommentIds -> Decisions \cup {"none"}]
      BY <1>0, <2>1
    <2> QED
      BY <1>0, <2>1, <2>2, <2>3, SameRun, WebTypes
  <1>3. ASSUME NEW r \in Requests, InsertRefused(r)
        PROVE  Types'
    <2>1. Keep(r, Idle) /\ UNCHANGED <<runVars, articles, decided>>
      BY <1>3 DEF InsertRefused
    <2> QED
      BY <1>0, <2>1, IdleFits, SameRun, WebTypes
  <1>4. ASSUME NEW r \in Requests, Moderate(r)
        PROVE  Types'
    <2>1. UNCHANGED <<runVars, articles>>
      BY <1>4, ModerateWrites
    <2>2. PICK q : Fits(q) /\ Keep(r, q)
      BY <1>4, ModerateWrites, IdleFits
    <2>3. decided' \in [CommentIds -> Decisions \cup {"none"}]
      BY <1>0, <1>4, ModerateWrites
    <2> QED
      BY <1>0, <2>1, <2>2, <2>3, SameRun, WebTypes
  <1>5. ASSUME NEW r \in Requests, NotifyReplyApproved(r)
        PROVE  Types'
    <2>1. RunInv' /\ Keep(r, Idle) /\ UNCHANGED <<articles, decided>>
      BY <1>5, NotifyWrites
    <2> QED
      BY <1>0, <2>1, IdleFits, WebTypes
  <1>6. ASSUME NEW r \in Requests, RequestFails(r)
        PROVE  Types'
    <2>1. RunInv' /\ Keep(r, Idle) /\ UNCHANGED <<articles, decided>>
      BY <1>6, FailWrites
    <2> QED
      BY <1>0, <2>1, IdleFits, WebTypes
  <1>7. CASE DestroyComment(Held) \/ DestroyArticle(Held) \/ ToggleComments
    <2>1. articles' \in [Articles -> {"gone", "open", "closed"}] /\ UNCHANGED <<runVars, req, decided>>
      <3>1. CASE ToggleComments
        BY <3>1, Typed DEF ToggleComments
      <3>2. CASE DestroyComment(Held) \/ DestroyArticle(Held)
        <4>1. PICK held \in BOOLEAN : held = Held
          BY DEF Held
        <4> QED
          BY <3>2, <4>1, DestroyWrites
      <3> QED
        BY <1>7, <3>1, <3>2
    <2>2. RunInv'
      BY <1>0, <2>1, SameRun
    <2>3. ComTypeOK' /\ RunTypeOK'
      BY <1>0, <2>1, <2>2, Typed DEF ComTypeOK, Table, RunInv
    <2>4. fetch' \in Fetch /\ stamp' \in [CronPlatforms -> Nat] /\ cron' \subseteq CronPlatforms
          /\ mails' \in [JobIds -> Nat] /\ cut' \in Nat
      BY <1>0, Typed DEF fetchVars
    <2>5. \A x \in Requests : Fits(req[x])'
      BY <2>1, Typed DEF Fits
    <2> QED
      BY <2>2, <2>3, <2>4, <2>5 DEF Types, TypeOK
  <1> QED
    BY <1>1, <1>2, <1>3, <1>4, <1>5, <1>6, <1>7 DEF WebStep

-----------------------------------------------------------------------------
(* What the fetch handler writes.                                          *)

LEMMA NoFetchIs ==
    /\ NoFetch \in Fetch
    /\ NoFetch \in [stage : {"none"}, targets : {{}}, article : {0}, todo : {{}}, ext : {Root},
                    id : {0}, known : {{}}, links : {{}}]
  BY DEF NoFetch, Fetch, Stages

LEMMA RestTypes ==
    ASSUME Types, RunInv', comments' \in Table, UNCHANGED <<articles, req>>,
           decided' \in [CommentIds -> Decisions \cup {"none"}], fetch' \in Fetch,
           stamp' \in [CronPlatforms -> Nat], cron' \subseteq CronPlatforms,
           mails' \in [JobIds -> Nat], cut' \in Nat
    PROVE  Types'
  <1>1. ComTypeOK' /\ RunTypeOK'
    BY Typed DEF ComTypeOK, Table, RunInv
  <1>2. \A x \in Requests : Fits(req[x])'
    BY Typed DEF Fits
  <1> QED
    BY <1>1, <1>2 DEF Types, TypeOK

(* A step that writes nothing but the handler's locals. *)
LEMMA LocalTypes ==
    ASSUME Types, RunInv', fetch' \in Fetch, UNCHANGED <<comVars, stamp, cron, queuedAt, mails, cut>>
    PROVE  Types'
  <1>1. UNCHANGED <<articles, comments, req, decided, stamp, cron, mails, cut>>
    BY DEF comVars
  <1> QED
    BY <1>1, Typed, RestTypes

(* The row in hand is a fetch, of one of the platforms. *)
LEMMA FetchingRow ==
    ASSUME Types, Fetching
    PROVE  /\ runner.pc \in Holds /\ Kind \in Kinds
           /\ Kind.platform \in {"mastodon", "bluesky", "twitter"}
  <1>1. runner.pc \in Holds /\ runner.id \in JobIds /\ jobs[runner.id].status = "running"
        /\ jobs \in JobTable
    BY Typed DEF Fetching, Holds, RunInv, HeldRowRuns, RunTypeOK
  <1>2. jobs[runner.id] \in JobRow
    BY <1>1, RowTypes
  <1>3. Kind \in JobKinds /\ Kind.job = "fetch"
    BY <1>2, CommentFetchAssumption DEF JobRow, Kind, Fetching
  <1>4. \A i \in CommentIds : NotifyJob(i).job # "fetch"
    BY DEF NotifyJob
  <1>5. \/ \E p \in CronPlatforms : Kind = FetchJob(p)
        \/ \E a \in Articles, p \in Platforms : Kind = ArticleFetchJob(a, p)
    <2> HIDE DEF Kind
    <2> QED
      BY <1>3, <1>4 DEF JobKinds
  <1>6. Kind.platform \in CronPlatforms \cup Platforms
    <2> HIDE DEF Kind
    <2> QED
      BY <1>5 DEF FetchJob, ArticleFetchJob
  <1> QED
    BY <1>1, <1>3, <1>6, CommentFetchAssumption

(* Whatever a platform answers belongs to the thread under the post. *)
LEMMA BatchOfThread ==
    ASSUME Types, Fetching, NEW a \in Articles, NEW batch \in FetchComments(a)
    PROVE  /\ batch \subseteq Externals
           /\ \A e \in batch : Thread[e].article = a
  <1>1. batch \subseteq Answers(a)
    <2>1. CASE Kind.platform = "mastodon"
      <3>1. FetchComments(a) = MastodonBatches(a)
        BY <2>1 DEF FetchComments
      <3> QED
        BY <3>1 DEF MastodonBatches
    <2>2. CASE Kind.platform = "bluesky"
      <3>1. FetchComments(a) = BlueskyBatches(a)
        BY <2>2 DEF FetchComments
      <3> QED
        BY <3>1 DEF BlueskyBatches
    <2>3. CASE Kind.platform = "twitter"
      <3>1. FetchComments(a) = TwitterBatches(a)
        BY <2>3 DEF FetchComments
      <3> QED
        BY <3>1 DEF TwitterBatches
    <2> QED
      BY <2>1, <2>2, <2>3, FetchingRow
  <1> QED
    BY <1>1 DEF Answers

LEMMA ReturnInv ==
    ASSUME Types, runner.pc \in Holds, NEW o \in {"ok", "error", "canceled"}, Return(o),
           UNCHANGED <<clock, jobs>>, faults' \in 0..MaxFaults, crashes' \in 0..MaxCrashes
    PROVE  RunInv' /\ runner'.pc = "book" /\ runner'.id = runner.id /\ runner'.outcome = o
  <1>0. RunInv /\ "book" \in Holds
    BY Typed DEF Holds
  <1>1. /\ runner' \in Runner /\ runner'.pc = "book" /\ runner'.id = runner.id
        /\ runner'.outcome = o
    <2>1. runner \in Runner /\ runner' = [runner EXCEPT !.pc = "book", !.outcome = o]
      BY <1>0 DEF Return, RunInv, RunTypeOK
    <2> QED
      BY <2>1 DEF Runner
  <1>2. runner'.pc \in Holds
    BY <1>0, <1>1
  <1> QED
    BY <1>0, <1>1, <1>2, HandlerStepInv

(* Steps that give the batch up, or have none: no import is in hand. *)
LEMMA GivesUp ==
    ASSUME NEW T, T \subseteq Articles
    PROVE  /\ [NoFetch EXCEPT !.stage = "scan", !.targets = T] \in Fetch
           /\ [NoFetch EXCEPT !.stage = "scan", !.targets = T].stage = "scan"
  BY NoFetchIs DEF Fetch, Stages

Resting == LoadTargets \/ RateLimitStop \/ FetchDone \/ UpdateExternalGone \/ BatchDone \/ FetchCanceled

LEMMA RestingTyped ==
    ASSUME Types, Resting
    PROVE  /\ Types' /\ fetch'.stage \in {"none", "scan"}
           /\ UNCHANGED <<jobs, comVars, stamp, queuedAt, mails, cut>>
           /\ runner.pc \in {"load", "visit"} /\ runner'.pc \in {"load", "visit", "book"}
  <1>0. /\ Fetching /\ runner.pc \in Holds /\ runner.pc \in {"load", "visit"}
        /\ UNCHANGED <<clock, jobs, comVars, stamp, cron, queuedAt, mails, cut>>
    BY FetchingRow
       DEF Resting, LoadTargets, RateLimitStop, FetchDone, UpdateExternalGone, BatchDone,
           FetchCanceled, Fetching, runVars
  <1>1. fetch' \in Fetch /\ fetch'.stage \in {"none", "scan"}
    <2>1. CASE LoadTargets
      <3>1. PICK T : T \subseteq Articles /\ fetch' = [NoFetch EXCEPT !.stage = "scan", !.targets = T]
        <4>1. /\ ListCommentFetchTargets(Kind.platform) \subseteq Articles
              /\ ListCommentFetchTargets(Kind.platform) \cap {Kind.article} \subseteq Articles
          BY DEF ListCommentFetchTargets
        <4> QED
          BY <2>1, <4>1 DEF LoadTargets
      <3> QED
        BY <3>1, GivesUp
    <2>2. CASE RateLimitStop \/ FetchDone \/ FetchCanceled
      <3>1. fetch' = NoFetch
        BY <2>2 DEF RateLimitStop, FetchDone, FetchCanceled
      <3> QED
        BY <3>1, NoFetchIs
    <2>3. CASE UpdateExternalGone \/ BatchDone
      <3>1. fetch' = [NoFetch EXCEPT !.stage = "scan", !.targets = fetch.targets]
        BY <2>3 DEF UpdateExternalGone, BatchDone, NextTarget
      <3>2. fetch.targets \subseteq Articles
        BY Typed DEF Fetch
      <3> QED
        BY <3>1, <3>2, GivesUp
    <2> QED
      BY <2>1, <2>2, <2>3 DEF Resting
  <1>2. RunInv' /\ runner'.pc \in {"load", "visit", "book"}
    <2>1. CASE LoadTargets
      <3>1. runner' \in Runner /\ runner'.pc = "visit" /\ runner'.id = runner.id
        BY <2>1, Typed, Moved DEF LoadTargets, Holds
      <3>2. faults' \in 0..MaxFaults /\ crashes' \in 0..MaxCrashes
        BY <2>1, Typed DEF LoadTargets
      <3> QED
        BY <1>0, <3>1, <3>2, Typed, HandlerStepInv DEF Holds
    <2>2. CASE RateLimitStop \/ FetchDone
      <3>1. Return("ok") /\ faults' \in 0..MaxFaults /\ crashes' \in 0..MaxCrashes
        BY <2>2, Typed DEF RateLimitStop, FetchDone
      <3> QED
        BY <1>0, <3>1, ReturnInv
    <2>3. CASE FetchCanceled
      <3>1. Return("canceled") /\ faults' \in 0..MaxFaults /\ crashes' \in 0..MaxCrashes
        BY <2>3, Typed, HandlerRunsAssumption DEF FetchCanceled
      <3> QED
        BY <1>0, <3>1, ReturnInv
    <2>4. CASE UpdateExternalGone \/ BatchDone
      <3>1. UNCHANGED runVars
        BY <2>4 DEF UpdateExternalGone, BatchDone
      <3> QED
        BY <1>0, <3>1, Typed, SameRun DEF runVars
    <2> QED
      BY <2>1, <2>2, <2>3, <2>4 DEF Resting
  <1> QED
    BY <1>0, <1>1, <1>2, LocalTypes

LEMMA FetchFailsTyped ==
    ASSUME Types, FetchFails
    PROVE  /\ Types'
           /\ fetch'.stage \in {"none", "scan"} \/ UNCHANGED fetch
           /\ UNCHANGED <<jobs, comVars, stamp, queuedAt, mails, cut>>
           /\ runner.pc \in {"load", "visit"}
           /\ runner'.pc \in {"load", "visit"} \/ (runner'.pc = "book" /\ runner'.outcome = "error")
  <1>0. /\ Fetching /\ runner.pc \in Holds /\ runner.pc \in {"load", "visit"}
        /\ UNCHANGED <<clock, jobs, crashes, comVars, stamp, cron, queuedAt, mails, cut>>
        /\ faults' \in 0..MaxFaults /\ crashes' \in 0..MaxCrashes
    BY FetchingRow, Typed, HandlerRunsAssumption DEF FetchFails, Fetching
  <1>1. CASE runner.pc = "load"
    <2>1. Return("error") /\ UNCHANGED fetch
      BY <1>1 DEF FetchFails
    <2>2. RunInv' /\ runner'.pc = "book" /\ runner'.outcome = "error"
      BY <1>0, <2>1, ReturnInv
    <2> QED
      BY <1>0, <2>1, <2>2, Typed, LocalTypes
  <1>2. CASE runner.pc # "load"
    <2>1. fetch' = [NoFetch EXCEPT !.stage = "scan", !.targets = fetch.targets] /\ UNCHANGED runner
      BY <1>2 DEF FetchFails, NextTarget
    <2>2. fetch.targets \subseteq Articles
      BY Typed DEF Fetch
    <2>3. fetch' \in Fetch /\ fetch'.stage = "scan"
      BY <2>1, <2>2, GivesUp
    <2>4. RunInv'
      BY <1>0, <2>1, Typed, HandlerStepInv DEF RunInv, RunTypeOK
    <2> QED
      BY <1>0, <2>1, <2>3, <2>4, LocalTypes
  <1> QED
    BY <1>1, <1>2

LEMMA ThreadTyped ==
    ASSUME Types, FetchThread
    PROVE  /\ Types' /\ UNCHANGED <<runVars, comVars, stamp, queuedAt, mails, cut>>
           /\ fetch'.stage = "find" /\ fetch'.known = {} /\ fetch'.article \in Articles
           /\ \A e \in fetch'.todo : Thread[e].article = fetch'.article
  <1>0. /\ Fetching /\ UNCHANGED <<runVars, comVars, stamp, cron, queuedAt, mails, cut>>
        /\ fetch.targets # {} /\ fetch.targets \subseteq Articles /\ fetch \in Fetch /\ Articles \subseteq Nat
    BY Typed, CommentsAssumption DEF FetchThread, Fetch
  <1>1. Min(fetch.targets) \in Articles
    BY <1>0, MinIsIn
  <1>2. PICK a \in Articles : a = Min(fetch.targets)
    BY <1>1
  <1>3. PICK batch \in FetchComments(a) :
          fetch' = [fetch EXCEPT !.stage = "find", !.targets = @ \ {a}, !.article = a, !.todo = batch,
                                 !.known = {}, !.links = {}]
    BY <1>2 DEF FetchThread
  <1>4. batch \subseteq Externals /\ \A e \in batch : Thread[e].article = a
    BY <1>0, BatchOfThread
  <1>5. /\ fetch' \in Fetch /\ fetch'.stage = "find" /\ fetch'.known = {} /\ fetch'.article = a
        /\ fetch'.todo = batch
    BY <1>0, <1>2, <1>3, <1>4 DEF Fetch, Stages
  <1>6. RunInv'
    BY <1>0, Typed, SameRun
  <1> QED
    BY <1>0, <1>4, <1>5, <1>6, LocalTypes

LEMMA FindTyped ==
    ASSUME Types, FindExternal
    PROVE  /\ Types' /\ UNCHANGED <<runVars, comVars, stamp, queuedAt, mails, cut>>
           /\ fetch.stage = "find" /\ fetch'.stage = "save"
           /\ fetch'.article = fetch.article /\ fetch'.known = fetch.known /\ fetch'.links = fetch.links
           /\ fetch'.ext \in fetch.todo /\ fetch'.todo = fetch.todo \ {fetch'.ext}
           /\ \/ fetch'.id = 0 /\ GetExternalComment(fetch.article, fetch'.ext) = {}
              \/ fetch'.id \in GetExternalComment(fetch.article, fetch'.ext)
  <1>0. /\ UNCHANGED <<runVars, comVars, stamp, cron, queuedAt, mails, cut>>
        /\ fetch.stage = "find" /\ fetch \in Fetch
    BY Typed DEF FindExternal
  <1>1. PICK e \in fetch.todo :
          fetch' = [fetch EXCEPT !.stage = "save", !.todo = @ \ {e}, !.ext = e,
              !.id = IF GetExternalComment(fetch.article, e) = {} THEN 0
                     ELSE CHOOSE i \in GetExternalComment(fetch.article, e) : TRUE]
    BY DEF FindExternal
  <1>2. PICK id : /\ id = IF GetExternalComment(fetch.article, e) = {} THEN 0
                          ELSE CHOOSE i \in GetExternalComment(fetch.article, e) : TRUE
    OBVIOUS
  <1>3. \/ id = 0 /\ GetExternalComment(fetch.article, e) = {}
        \/ id \in GetExternalComment(fetch.article, e)
    BY <1>2
  <1>4. id \in {0} \cup CommentIds /\ e \in Externals
    BY <1>0, <1>3 DEF GetExternalComment, Fetch
  <1>5. fetch' = [fetch EXCEPT !.stage = "save", !.todo = @ \ {e}, !.ext = e, !.id = id]
    BY <1>1, <1>2
  <1>6. /\ fetch' \in Fetch /\ fetch'.stage = "save" /\ fetch'.ext = e /\ fetch'.id = id
        /\ fetch'.todo = fetch.todo \ {e} /\ fetch'.article = fetch.article
        /\ fetch'.known = fetch.known /\ fetch'.links = fetch.links
    BY <1>0, <1>4, <1>5 DEF Fetch, Stages
  <1>7. RunInv'
    BY <1>0, Typed, SameRun
  <1>8. Types'
    BY <1>0, <1>6, <1>7, LocalTypes
  <1> QED
    BY <1>0, <1>1, <1>3, <1>6, <1>8

(* The first pass notes the row it wrote. *)
LEMMA ImportedNotes ==
    ASSUME fetch \in Fetch, fetch.ext \in Externals, NEW i \in CommentIds, comments' \in Table
    PROVE  /\ Imported(i) \in Fetch /\ Imported(i).stage = "find"
           /\ Imported(i).article = fetch.article /\ Imported(i).todo = fetch.todo
           /\ Imported(i).known =
                fetch.known \cup {[ext |-> fetch.ext, id |-> i, parent |-> comments'[i].parent]}
           /\ Imported(i).links = IF Thread[fetch.ext].parent = Root THEN fetch.links
                                  ELSE fetch.links \cup {fetch.ext}
  <1>1. PICK p \in {0} \cup CommentIds : p = comments'[i].parent
    BY NoCommentIs DEF Table, Comment
  <1>2. PICK k \in [ext : Externals, id : CommentIds, parent : {0} \cup CommentIds] :
          k = [ext |-> fetch.ext, id |-> i, parent |-> p]
    BY <1>1
  <1>3. PICK L \in SUBSET Externals :
          L = IF Thread[fetch.ext].parent = Root THEN fetch.links ELSE fetch.links \cup {fetch.ext}
    BY DEF Fetch
  <1>a. PICK K \in SUBSET [ext : Externals, id : CommentIds, parent : {0} \cup CommentIds] :
          K = fetch.known \cup {k}
    BY DEF Fetch
  <1>4. Imported(i) = [fetch EXCEPT !.stage = "find", !.ext = Root, !.id = 0,
                         !.known = K, !.links = L]
    BY <1>1, <1>2, <1>3, <1>a DEF Imported
  <1>5. /\ Imported(i) \in Fetch /\ Imported(i).stage = "find"
        /\ Imported(i).article = fetch.article /\ Imported(i).todo = fetch.todo
        /\ Imported(i).known = K /\ Imported(i).links = L
    <2> DEFINE q == [fetch EXCEPT !.stage = "find", !.ext = Root, !.id = 0, !.known = K, !.links = L]
    <2>1. "find" \in Stages /\ Root \in Externals \cup {Root} /\ 0 \in {0} \cup CommentIds
      BY DEF Stages
    <2>2. q \in Fetch
      BY <2>1 DEF Fetch
    <2>3. /\ q.stage = "find" /\ q.article = fetch.article /\ q.todo = fetch.todo
          /\ q.known = K /\ q.links = L
      BY DEF Fetch
    <2> HIDE DEF q
    <2>4. Imported(i) = q
      BY <1>4 DEF q
    <2> HIDE DEF Imported
    <2> QED
      BY <2>2, <2>3, <2>4
  <1> HIDE DEF Imported
  <1> QED
    BY <1>1, <1>2, <1>3, <1>5, <1>a

LEMMA CreateTyped ==
    ASSUME Types, OneBatch, CreateExternal
    PROVE  /\ Types' /\ UNCHANGED <<runVars, articles, req, stamp, queuedAt, mails, cut>>
           /\ fetch.stage = "save" /\ fetch.id = 0
           /\ \E i \in CommentIds, c \in Comment :
                /\ IsNextCommentId(i) /\ comments' = CreateComment(i, c)
                /\ c.on = fetch.article /\ c.ext = fetch.ext /\ c.parent = 0
                /\ decided' = [decided EXCEPT ![i] = "none"]
                /\ announced' = announced \ {i} /\ abandoned' = abandoned \ {i}
                /\ fetch' = Imported(i)
  <1>0. /\ fetch.stage = "save" /\ fetch.id = 0 /\ fetch \in Fetch
        /\ UNCHANGED <<runVars, articles, req, stamp, cron, queuedAt, mails, cut>>
        /\ fetch.ext \in Externals /\ fetch.article \in Articles
    BY Typed DEF CreateExternal, OneBatch, Busy
  <1>1. PICK st \in Decisions : st = IF Manual THEN "approved" ELSE "pending"
    BY DEF Decisions
  <1> DEFINE c == [NoComment EXCEPT !.on = fetch.article, !.ext = fetch.ext, !.status = st]
  <1>2. PICK i \in CommentIds :
          /\ IsNextCommentId(i) /\ comments' = CreateComment(i, c)
          /\ decided' = [decided EXCEPT ![i] = "none"]
          /\ announced' = announced \ {i} /\ abandoned' = abandoned \ {i}
          /\ fetch' = Imported(i)
    BY <1>1 DEF CreateExternal
  <1>3. c \in [on : {fetch.article}, parent : {0}, status : {st}, ext : {fetch.ext},
               email : {NoAddress}, text : {0}]
    BY NoCommentIs
  <1> HIDE DEF c
  <1>4. c \in Comment /\ c.on = fetch.article /\ c.ext = fetch.ext /\ c.parent = 0
    BY <1>0, <1>1, <1>3 DEF Comment
  <1>5. comments' \in Table
    BY <1>2, <1>4, Typed, NextIdIsNew
  <1>6. fetch' \in Fetch
    BY <1>0, <1>2, <1>5, ImportedNotes
  <1>7. decided' \in [CommentIds -> Decisions \cup {"none"}]
    BY <1>2, Typed
  <1>8. Types'
    BY <1>0, <1>5, <1>6, <1>7, Typed, SameRun, RestTypes
  <1> QED
    BY <1>0, <1>2, <1>4, <1>8

(* The content columns of one row. *)
LEMMA UpdateTyped ==
    ASSUME Types, OneBatch, UpdateExternal
    PROVE  /\ Types' /\ UNCHANGED <<runVars, articles, req, decided, announced, abandoned>>
           /\ UNCHANGED <<stamp, queuedAt, mails, cut>>
           /\ fetch.stage = "save" /\ fetch.id \in CommentIds /\ Present(fetch.id)
           /\ fetch' = Imported(fetch.id)
           /\ \A j \in CommentIds :
                \/ comments'[j] = comments[j]
                \/ /\ Present(j) /\ comments'[j] \in Comment
                   /\ comments'[j].ext = comments[j].ext /\ comments'[j].on = comments[j].on
                   /\ comments'[j].parent = comments[j].parent
                   /\ comments'[j].email = comments[j].email
                   /\ comments'[j].status = comments[j].status
  <1>0. /\ fetch.stage = "save" /\ fetch.id # 0 /\ fetch \in Fetch /\ fetch' = Imported(fetch.id)
        /\ UNCHANGED <<runVars, articles, req, decided, announced, abandoned>>
        /\ UNCHANGED <<stamp, cron, queuedAt, mails, cut>>
        /\ fetch.ext \in Externals /\ Present(fetch.id) /\ comments \in Table
    BY Typed DEF UpdateExternal, OneBatch, Busy
  <1>1. PICK i \in CommentIds : i = fetch.id
    BY <1>0 DEF Fetch
  <1>2. comments[i] \in Comment
    BY <1>0, <1>1, PresentRow
  <1>3. PICK text \in 0..1 : comments' = comments \/ comments' = [comments EXCEPT ![i].text = text]
    BY <1>1 DEF UpdateExternal, UpdateExternalComment
  <1> DEFINE d == [comments[i] EXCEPT !.text = text]
  <1>a. /\ d \in Comment /\ d.ext = comments[i].ext /\ d.on = comments[i].on
        /\ d.parent = comments[i].parent /\ d.email = comments[i].email
        /\ d.status = comments[i].status
    BY <1>2, <1>3 DEF Comment
  <1>4. PICK c \in Comment : /\ c = [comments[i] EXCEPT !.text = text]
                             /\ c.ext = comments[i].ext /\ c.on = comments[i].on
                             /\ c.parent = comments[i].parent /\ c.email = comments[i].email
                             /\ c.status = comments[i].status
    BY <1>a
  <1>5. comments' = comments \/ comments' = [comments EXCEPT ![i] = c]
    BY <1>3, <1>4
  <1>6. comments' \in Table
    BY <1>0, <1>5 DEF Table
  <1>7. \A j \in CommentIds :
          comments'[j] = comments[j] \/ (j = i /\ comments'[j] = c)
    BY <1>0, <1>5 DEF Table
  <1>8. fetch' \in Fetch
    BY <1>0, <1>1, <1>6, ImportedNotes
  <1>9. Types'
    BY <1>0, <1>6, <1>8, Typed, SameRun, RestTypes
  <1> QED
    BY <1>0, <1>1, <1>4, <1>7, <1>9

LEMMA StartTyped ==
    ASSUME Types, StartLinks
    PROVE  /\ Types' /\ UNCHANGED <<runVars, comVars, stamp, queuedAt, mails, cut>>
           /\ fetch.stage = "find" /\ fetch'.stage = "link"
           /\ fetch'.article = fetch.article /\ fetch'.known = fetch.known
           /\ fetch'.links = fetch.links /\ fetch'.todo = fetch.todo
  <1>0. /\ UNCHANGED <<runVars, comVars, stamp, cron, queuedAt, mails, cut>>
        /\ fetch.stage = "find" /\ fetch \in Fetch /\ fetch' = [fetch EXCEPT !.stage = "link"]
    BY Typed DEF StartLinks
  <1>1. /\ fetch' \in Fetch /\ fetch'.stage = "link"
        /\ fetch'.article = fetch.article /\ fetch'.known = fetch.known
        /\ fetch'.links = fetch.links /\ fetch'.todo = fetch.todo
    BY <1>0 DEF Fetch, Stages
  <1> QED
    BY <1>0, <1>1, Typed, SameRun, LocalTypes

(* The second pass: one reply is left as it was, hung below its parent, or *)
(* the batch is given up.                                                  *)
LEMMA LinkTyped ==
    ASSUME Types, LinkReply
    PROVE  /\ Types' /\ UNCHANGED <<runVars, articles, req, decided, announced, abandoned>>
           /\ UNCHANGED <<stamp, queuedAt, mails, cut>> /\ fetch.stage = "link"
           /\ \/ UNCHANGED comments /\ fetch'.stage = "scan"
              \/ \E k \in fetch.known :
                   /\ k.ext \in fetch.links
                   /\ fetch'.stage = "link" /\ fetch'.links = fetch.links \ {k.ext}
                   /\ fetch'.article = fetch.article /\ fetch'.known = fetch.known
                   /\ fetch'.todo = fetch.todo
                   /\ \/ UNCHANGED comments /\ ParentRow(k.ext) \subseteq {k.id, k.parent}
                      \/ \E p \in ParentRow(k.ext) :
                           \/ ~Present(k.id) /\ UNCHANGED comments
                           \/ /\ Present(k.id) /\ Present(p)
                              /\ comments' \in Table
                              /\ comments'[k.id] = [comments[k.id] EXCEPT !.parent = p]
                              /\ \A j \in CommentIds \ {k.id} : comments'[j] = comments[j]
  <1>0. /\ fetch.stage = "link" /\ fetch \in Fetch /\ comments \in Table
        /\ UNCHANGED <<runVars, articles, req, decided, announced, abandoned>>
        /\ UNCHANGED <<stamp, cron, queuedAt, mails, cut>>
    BY Typed DEF LinkReply
  <1>1. ASSUME fetch' \in Fetch, comments' \in Table
        PROVE  Types'
    BY <1>0, <1>1, Typed, SameRun, RestTypes
  <1>2. PICK k \in fetch.known :
          /\ k.ext \in fetch.links
          /\ \/ /\ ParentRow(k.ext) \subseteq {k.id, k.parent}
                /\ UNCHANGED comments /\ fetch' = [fetch EXCEPT !.links = @ \ {k.ext}]
             \/ \E p \in ParentRow(k.ext) \ {k.id, k.parent} :
                  IF Present(p) \/ ~Present(k.id)
                  THEN /\ comments' = SetCommentParent(k.id, p)
                       /\ fetch' = [fetch EXCEPT !.links = @ \ {k.ext}]
                  ELSE UNCHANGED comments /\ NextTarget
    BY DEF LinkReply
  <1>3. k.id \in CommentIds /\ k.ext \in Externals
    BY <1>0 DEF Fetch
  <1>4. ASSUME fetch' = [fetch EXCEPT !.links = @ \ {k.ext}]
        PROVE  /\ fetch' \in Fetch /\ fetch'.stage = "link" /\ fetch'.links = fetch.links \ {k.ext}
               /\ fetch'.article = fetch.article /\ fetch'.known = fetch.known
               /\ fetch'.todo = fetch.todo
    BY <1>0, <1>4 DEF Fetch
  <1>5. CASE /\ ParentRow(k.ext) \subseteq {k.id, k.parent}
             /\ UNCHANGED comments /\ fetch' = [fetch EXCEPT !.links = @ \ {k.ext}]
    BY <1>0, <1>1, <1>2, <1>4, <1>5
  <1>6. ASSUME NEW p \in ParentRow(k.ext),
               IF Present(p) \/ ~Present(k.id)
               THEN /\ comments' = SetCommentParent(k.id, p)
                    /\ fetch' = [fetch EXCEPT !.links = @ \ {k.ext}]
               ELSE UNCHANGED comments /\ NextTarget
        PROVE  /\ Types'
               /\ \/ UNCHANGED comments /\ fetch'.stage = "scan"
                  \/ /\ fetch'.stage = "link" /\ fetch'.links = fetch.links \ {k.ext}
                     /\ fetch'.article = fetch.article /\ fetch'.known = fetch.known
                     /\ fetch'.todo = fetch.todo
                     /\ \/ ~Present(k.id) /\ UNCHANGED comments
                        \/ /\ Present(k.id) /\ Present(p)
                           /\ comments' \in Table
                           /\ comments'[k.id] = [comments[k.id] EXCEPT !.parent = p]
                           /\ \A j \in CommentIds \ {k.id} : comments'[j] = comments[j]
    <2>1. CASE ~(Present(p) \/ ~Present(k.id))
      <3>1. UNCHANGED comments /\ fetch' = [NoFetch EXCEPT !.stage = "scan", !.targets = fetch.targets]
        BY <1>6, <2>1 DEF NextTarget
      <3>2. fetch' \in Fetch /\ fetch'.stage = "scan"
        BY <1>0, <3>1, GivesUp DEF Fetch
      <3> QED
        BY <1>0, <1>1, <3>1, <3>2
    <2>2. CASE ~Present(k.id)
      <3>1. UNCHANGED comments /\ fetch' = [fetch EXCEPT !.links = @ \ {k.ext}]
        BY <1>6, <2>2 DEF SetCommentParent
      <3> QED
        BY <1>0, <1>1, <1>4, <2>2, <3>1
    <2>3. CASE Present(p) /\ Present(k.id)
      <3>1. comments' = [comments EXCEPT ![k.id].parent = p] /\ fetch' = [fetch EXCEPT !.links = @ \ {k.ext}]
        BY <1>6, <2>3 DEF SetCommentParent
      <3>2. p \in CommentIds
        BY <1>0, <1>6 DEF ParentRow, GetExternalComment, Fetch
      <3>3. comments[k.id] \in Comment
        BY <1>0, <1>3, <2>3, PresentRow
      <3>4. [comments[k.id] EXCEPT !.parent = p] \in Comment
        BY <3>2, <3>3 DEF Comment
      <3>5. /\ comments' \in Table
            /\ comments'[k.id] = [comments[k.id] EXCEPT !.parent = p]
            /\ \A j \in CommentIds \ {k.id} : comments'[j] = comments[j]
        BY <1>0, <1>3, <3>1, <3>4 DEF Table
      <3> QED
        BY <1>1, <1>4, <2>3, <3>1, <3>5
    <2> QED
      BY <2>1, <2>2, <2>3
  <1>7. CASE \E p \in ParentRow(k.ext) :
               IF Present(p) \/ ~Present(k.id)
               THEN /\ comments' = SetCommentParent(k.id, p)
                    /\ fetch' = [fetch EXCEPT !.links = @ \ {k.ext}]
               ELSE UNCHANGED comments /\ NextTarget
    <2>1. PICK p \in ParentRow(k.ext) :
               IF Present(p) \/ ~Present(k.id)
               THEN /\ comments' = SetCommentParent(k.id, p)
                    /\ fetch' = [fetch EXCEPT !.links = @ \ {k.ext}]
               ELSE UNCHANGED comments /\ NextTarget
      BY <1>7
    <2> QED
      BY <1>0, <1>2, <1>6, <2>1
  <1> QED
    BY <1>2, <1>5, <1>7

-----------------------------------------------------------------------------
(* The hourly tick, the mail about a reply, and the worker.                *)

LEMMA CronTyped ==
    ASSUME Types, CronStep
    PROVE  /\ Types' /\ AddsRow
           /\ UNCHANGED <<clock, runner, articles, comments, req, decided, announced, abandoned>>
           /\ UNCHANGED <<fetch, mails, cut>> /\ queuedAt \subseteq queuedAt'
  <1>0. /\ UNCHANGED <<clock, runner, articles, comments, req, decided, announced, abandoned>>
        /\ UNCHANGED <<fetch, mails, cut>> /\ queuedAt \subseteq queuedAt'
    BY DEF CronStep, CronTick, CronFails, FetchForArticle, EnqueueDueFetch, StampFetch, runVars, comVars, fetchVars
  <1>1. stamp' \in [CronPlatforms -> Nat] /\ cron' \subseteq CronPlatforms
    <2>1. CASE CronTick
      BY <2>1, Typed DEF CronTick
    <2>2. CASE CronFails
      BY <2>2, Typed DEF CronFails
    <2>3. CASE FetchForArticle
      BY <2>3, Typed DEF FetchForArticle, fetchVars
    <2>4. ASSUME NEW p \in CronPlatforms, EnqueueDueFetch(p) \/ StampFetch(p)
          PROVE  stamp' \in [CronPlatforms -> Nat] /\ cron' \subseteq CronPlatforms
      BY <2>4, Typed DEF EnqueueDueFetch, StampFetch
    <2> QED
      BY <2>1, <2>2, <2>3, <2>4 DEF CronStep
  <1>2. RunInv' /\ AddsRow
    <2>1. CASE CronTick \/ \E p \in CronPlatforms : StampFetch(p)
      <3>1. UNCHANGED runVars
        BY <2>1 DEF CronTick, StampFetch
      <3> QED
        BY <3>1, Typed, SameRun DEF AddsRow, runVars
    <2>2. CASE CronFails
      <3>1. UNCHANGED <<clock, jobs, runner, crashes>> /\ faults' \in 0..MaxFaults
        BY <2>2, Typed, HandlerRunsAssumption DEF CronFails
      <3> QED
        BY <3>1, Typed DEF RunInv, RunTypeOK, AttemptLeft, HeldRowRuns, AddsRow
    <2>3. CASE FetchForArticle
      <3>1. PICK p \in Platforms : \E a \in ListCommentFetchTargets(p), j \in JobIds :
              IsNextRowId(jobs, j) /\ jobs' = EnqueueJobRun(jobs, j, ArticleFetchJob(a, p), clock, clock)
        BY <2>3 DEF FetchForArticle
      <3>2. PICK a \in ListCommentFetchTargets(p), j \in JobIds :
              IsNextRowId(jobs, j) /\ jobs' = EnqueueJobRun(jobs, j, ArticleFetchJob(a, p), clock, clock)
        BY <3>1
      <3>3. ArticleFetchJob(a, p) \in Kinds
        BY KindsAre DEF ListCommentFetchTargets
      <3>4. UNCHANGED <<clock, runner, faults, crashes>>
        BY <2>3 DEF FetchForArticle
      <3> QED
        BY <3>2, <3>3, <3>4, Typed, EnqueueAdds
    <2>4. ASSUME NEW p \in CronPlatforms, EnqueueDueFetch(p)
          PROVE  RunInv' /\ AddsRow
      <3>1. PICK j \in JobIds :
              IsNextRowId(jobs, j) /\ jobs' = EnqueueJobRun(jobs, j, FetchJob(p), clock, clock)
        BY <2>4 DEF EnqueueDueFetch
      <3>2. UNCHANGED <<clock, runner, faults, crashes>> /\ FetchJob(p) \in Kinds
        BY <2>4, KindsAre DEF EnqueueDueFetch
      <3> QED
        BY <3>1, <3>2, Typed, EnqueueAdds
    <2> QED
      BY <2>1, <2>2, <2>3, <2>4 DEF CronStep
  <1> QED
    BY <1>0, <1>1, <1>2, Typed, RestTypes

(* Mails are counted with the runs that end in a cut. *)
LEMMA MailTyped ==
    ASSUME Types, MailStep
    PROVE  /\ Types' /\ UNCHANGED <<jobs, comVars, fetch, stamp, cron, queuedAt>>
           /\ runner.pc \in Holds \ {"book"} /\ runner'.pc \in Holds /\ runner'.id = runner.id
           /\ runner.id \in JobIds /\ jobs[runner.id].status = "running"
           /\ \/ UNCHANGED <<mails, cut>>
              \/ /\ mails' \in {mails, [mails EXCEPT ![runner.id] = @ + 1]}
                 /\ \/ cut' = cut + 1
                    \/ cut' = cut /\ runner'.pc = "book" /\ runner'.outcome = "ok"
  <1>0. /\ runner.pc \in Holds \ {"book"} /\ UNCHANGED <<clock, jobs, comVars, fetch, stamp, cron, queuedAt>>
    BY DEF MailStep, LoadReply, SendReplyMail, ReplyMailCanceled, ReplyFails, Notifying, Holds, fetchVars
  <1>1. runner.id \in JobIds /\ jobs[runner.id].status = "running" /\ runner.pc \in Holds
    BY <1>0, Typed DEF RunInv, HeldRowRuns
  <1>2. faults' \in 0..MaxFaults /\ crashes' \in 0..MaxCrashes
    BY Typed, HandlerRunsAssumption DEF MailStep, LoadReply, SendReplyMail, ReplyMailCanceled, ReplyFails
  <1>3. ASSUME RunInv', runner'.pc \in Holds, runner'.id = runner.id,
               \/ UNCHANGED <<mails, cut>>
               \/ /\ mails' \in {mails, [mails EXCEPT ![runner.id] = @ + 1]}
                  /\ \/ cut' = cut + 1
                     \/ cut' = cut /\ runner'.pc = "book" /\ runner'.outcome = "ok"
        PROVE  Types'
    <2>1. mails' \in [JobIds -> Nat] /\ cut' \in Nat
      BY <1>1, <1>3, Typed
    <2>2. UNCHANGED <<articles, comments, req, decided, stamp, cron, fetch>>
      BY <1>0 DEF comVars
    <2> QED
      BY <1>3, <2>1, <2>2, Typed, RestTypes
  <1>4. CASE LoadReply
    <2>1. UNCHANGED <<mails, cut>>
      BY <1>4 DEF LoadReply, fetchVars
    <2>2. RunInv' /\ runner'.pc \in Holds /\ runner'.id = runner.id
      <3>1. CASE Return("ok")
        BY <1>0, <1>1, <1>2, <3>1, ReturnInv DEF Holds
      <3>2. CASE runner' = [runner EXCEPT !.pc = "act"]
        <4>1. runner' \in Runner /\ runner'.pc = "act" /\ runner'.id = runner.id
          BY <3>2, Typed, Moved DEF Holds
        <4> QED
          BY <1>0, <1>1, <1>2, <4>1, Typed, HandlerStepInv DEF Holds
      <3> QED
        BY <1>4, <3>1, <3>2 DEF LoadReply
    <2> QED
      BY <1>0, <1>1, <1>3, <2>1, <2>2
  <1>5. CASE SendReplyMail
    <2>1. Return("ok") /\ cut' = cut
          /\ mails' \in {mails, [mails EXCEPT ![runner.id] = @ + 1]}
      BY <1>5 DEF SendReplyMail
    <2>2. RunInv' /\ runner'.pc = "book" /\ runner'.id = runner.id /\ runner'.outcome = "ok"
      BY <1>0, <1>1, <1>2, <2>1, ReturnInv
    <2>3. runner'.pc \in Holds
      BY <2>2 DEF Holds
    <2> QED
      BY <1>0, <1>1, <1>3, <2>1, <2>2, <2>3
  <1>6. CASE ReplyMailCanceled
    <2>1. Return("canceled") /\ cut' = cut + 1
          /\ mails' \in {mails, [mails EXCEPT ![runner.id] = @ + 1]}
      BY <1>6 DEF ReplyMailCanceled
    <2>2. RunInv' /\ runner'.pc = "book" /\ runner'.id = runner.id
      BY <1>0, <1>1, <1>2, <2>1, ReturnInv
    <2>3. runner'.pc \in Holds
      BY <2>2 DEF Holds
    <2> QED
      BY <1>0, <1>1, <1>3, <2>1, <2>2, <2>3
  <1>7. CASE ReplyFails
    <2>1. Return("error") /\ UNCHANGED <<mails, cut>>
      BY <1>7 DEF ReplyFails, fetchVars
    <2>2. RunInv' /\ runner'.pc = "book" /\ runner'.id = runner.id
      BY <1>0, <1>1, <1>2, <2>1, ReturnInv
    <2>3. runner'.pc \in Holds
      BY <2>2 DEF Holds
    <2> QED
      BY <1>0, <1>1, <1>3, <2>1, <2>2, <2>3
  <1> QED
    BY <1>4, <1>5, <1>6, <1>7 DEF MailStep

LEMMA RunTyped ==
    ASSUME Types, RunStep
    PROVE  /\ Types' /\ UNCHANGED <<comVars, fetchVars>>
           /\ runner'.pc # "book"
           /\ \A j \in JobIds : jobs[j].status = "done" => jobs'[j].status = "done"
           /\ \A j \in JobIds : (runner.pc = "book" /\ runner.outcome = "ok" /\ runner.id = j)
                                   => jobs'[j].status = "done"
  <1>0. UNCHANGED <<comVars, fetchVars>>
    BY DEF RunStep
  <1>1. /\ RunInv' /\ runner'.pc # "book"
        /\ \A j \in JobIds : jobs[j].status = "done" => jobs'[j].status = "done"
        /\ \A j \in JobIds : (runner.pc = "book" /\ runner.outcome = "ok" /\ runner.id = j)
                                => jobs'[j].status = "done"
    <2>1. CASE GetDue
      BY <2>1, Typed, GetDueInv DEF GetDue
    <2>2. CASE Claim
      BY <2>2, Typed, ClaimInv DEF Claim, Queued
    <2>3. CASE Book
      BY <2>3, Typed, BookInv
    <2>4. CASE Restart
      BY <2>4, Typed, RestartInv DEF Restart
    <2> QED
      BY <2>1, <2>2, <2>3, <2>4 DEF RunStep
  <1>2. UNCHANGED <<articles, comments, req, decided, fetch, stamp, cron, mails, cut>>
    BY <1>0 DEF comVars, fetchVars
  <1> QED
    BY <1>0, <1>1, <1>2, Typed, RestTypes

LEMMA CrashTyped ==
    ASSUME Types, CrashProcess
    PROVE  /\ Types' /\ fetch'.stage = "none" /\ runner'.pc = "down"
           /\ UNCHANGED <<jobs, articles, comments, decided, announced, stamp, queuedAt, mails>>
           /\ req' = [r \in Requests |-> Idle]
           /\ abandoned' = abandoned \cup {req[r].id : r \in {s \in Requests : req[s].pc = "notify"}}
           /\ cut' = IF runner.pc \in {"act", "book"} THEN cut + 1 ELSE cut
  <1>0. /\ UNCHANGED <<jobs, articles, comments, decided, announced, stamp, queuedAt, mails>>
        /\ req' = [r \in Requests |-> Idle] /\ fetch' = NoFetch /\ cron' = {}
        /\ abandoned' = abandoned \cup {req[r].id : r \in {s \in Requests : req[s].pc = "notify"}}
        /\ cut' = IF runner.pc \in {"act", "book"} THEN cut + 1 ELSE cut
    BY DEF CrashProcess, Crash
  <1>1. RunInv' /\ runner'.pc = "down"
    BY Typed, CrashInv DEF CrashProcess
  <1>2. fetch' \in Fetch /\ fetch'.stage = "none" /\ cut' \in Nat
    BY <1>0, NoFetchIs, Typed
  <1>3. req' \in [Requests -> Request] /\ \A r \in Requests : Fits(req'[r])
    BY <1>0, IdleFits DEF Fits
  <1>4. \A r \in Requests : Fits(req[r])'
    BY <1>3 DEF Fits
  <1>5. ComTypeOK' /\ RunTypeOK'
    BY <1>0, <1>1, <1>3, Typed DEF ComTypeOK, Table, RunInv
  <1> QED
    BY <1>0, <1>1, <1>2, <1>4, <1>5, Typed DEF Types, TypeOK

LEMMA TimeTyped ==
    ASSUME Types, PassTime
    PROVE  Types' /\ UNCHANGED <<jobs, runner, comVars, fetchVars>>
  <1>1. UNCHANGED <<jobs, runner, comVars, fetchVars>> /\ RunInv'
    BY Typed, TickInv DEF PassTime, Tick
  <1>2. UNCHANGED <<articles, comments, req, decided, fetch, stamp, cron, mails, cut>>
    BY <1>1 DEF comVars, fetchVars
  <1> QED
    BY <1>1, <1>2, Typed, RestTypes

-----------------------------------------------------------------------------
(* A step leaves the batch and the imported rows alone, ends the batch, or *)
(* is one of the six that import it.                                       *)

Aside == Mild /\ UNCHANGED fetch

Ends == UNCHANGED comments /\ fetch'.stage \in {"none", "scan"}

Imports == FetchThread \/ FindExternal \/ CreateExternal \/ UpdateExternal \/ StartLinks \/ LinkReply

LEMMA StepKinds ==
    ASSUME Types, OneBatch, [Next]_vars
    PROVE  Types' /\ (Aside \/ Ends \/ Imports)
  <1>0. comments \in Table
    BY Typed
  <1>1. ASSUME UNCHANGED comments, UNCHANGED fetch
        PROVE  Aside
    BY <1>0, <1>1, SameIsMild DEF Aside
  <1>2. CASE WebStep
    BY <1>2, WebTyped, WebIsMild DEF Aside, fetchVars
  <1>3. CASE Resting
    BY <1>3, RestingTyped DEF Ends, comVars
  <1>4. CASE FetchFails
    BY <1>1, <1>4, FetchFailsTyped DEF Ends, comVars
  <1>5. CASE Imports
    BY <1>5, ThreadTyped, FindTyped, CreateTyped, UpdateTyped, StartTyped, LinkTyped DEF Imports
  <1>6. CASE CronStep
    BY <1>1, <1>6, CronTyped
  <1>7. CASE MailStep
    BY <1>1, <1>7, MailTyped DEF comVars
  <1>8. CASE RunStep
    BY <1>1, <1>8, RunTyped DEF comVars, fetchVars
  <1>9. CASE CrashProcess
    BY <1>9, CrashTyped DEF Ends
  <1>10. CASE PassTime
    BY <1>1, <1>10, TimeTyped DEF comVars, fetchVars
  <1>11. CASE UNCHANGED vars
    <2>1. UNCHANGED <<runVars, articles, comments, req, decided, fetch, stamp, cron, mails, cut>>
      BY <1>11 DEF vars, comVars, fetchVars
    <2> QED
      BY <1>1, <2>1, Typed, SameRun, RestTypes
  <1> QED
    BY <1>2, <1>3, <1>4, <1>5, <1>6, <1>7, <1>8, <1>9, <1>10, <1>11 DEF Next, FetchStep, Resting, Imports

LEMMA BatchKept ==
    ASSUME Types, OneBatch, [Next]_vars
    PROVE  OneBatch'
  <1>0. Types' /\ (Aside \/ Ends \/ Imports)
    BY StepKinds
  <1>1. CASE Aside
    BY <1>1 DEF Aside, OneBatch
  <1>2. CASE Ends
    BY <1>2 DEF Ends, OneBatch, Busy
  <1>3. CASE FetchThread
    BY <1>3, ThreadTyped DEF OneBatch, Busy
  <1>4. CASE FindExternal
    <2>1. /\ fetch.stage = "find" /\ fetch'.stage = "save" /\ fetch'.article = fetch.article
          /\ fetch'.known = fetch.known /\ fetch'.ext \in fetch.todo
          /\ fetch'.todo = fetch.todo \ {fetch'.ext} /\ fetch.todo \subseteq Externals
      BY <1>4, FindTyped, Typed DEF Fetch
    <2>2. PICK e \in fetch.todo : e = fetch'.ext
      BY <2>1
    <2> QED
      BY <2>1, <2>2 DEF OneBatch, Busy
  <1>5. ASSUME NEW i \in CommentIds, fetch.stage = "save", fetch' = Imported(i)
        PROVE  OneBatch'
    <2>1. fetch \in Fetch /\ fetch.ext \in Externals /\ comments' \in Table
      BY <1>0, <1>5, Typed DEF OneBatch, Types, TypeOK, ComTypeOK, Table
    <2>2. PICK p : p = comments'[i].parent
      OBVIOUS
    <2>3. /\ fetch'.stage = "find" /\ fetch'.article = fetch.article /\ fetch'.todo = fetch.todo
          /\ fetch'.known = fetch.known \cup {[ext |-> fetch.ext, id |-> i, parent |-> p]}
      BY <1>5, <2>1, <2>2, ImportedNotes
    <2> QED
      BY <1>5, <2>3 DEF OneBatch, Busy
  <1>6. CASE CreateExternal
    BY <1>5, <1>6, CreateTyped
  <1>7. CASE UpdateExternal
    BY <1>5, <1>7, UpdateTyped
  <1>8. CASE StartLinks
    BY <1>8, StartTyped DEF OneBatch, Busy
  <1>9. CASE LinkReply
    <2>1. \/ fetch'.stage = "scan"
          \/ /\ fetch'.stage = "link" /\ fetch.stage = "link" /\ fetch'.article = fetch.article
             /\ fetch'.known = fetch.known /\ fetch'.todo = fetch.todo
      BY <1>9, LinkTyped
    <2> QED
      BY <2>1 DEF OneBatch, Busy
  <1> QED
    BY <1>0, <1>1, <1>2, <1>3, <1>4, <1>6, <1>7, <1>8, <1>9 DEF Imports

(* Steps that keep each imported row for the comment and article it is of, *)
(* and add none: all but CreateExternal.                                   *)
LEMMA AddsNoImport ==
    ASSUME Types, OneBatch, [Next]_vars, ~CreateExternal
    PROVE  /\ comments' \in Table
           /\ \A i \in CommentIds : comments'[i] # NoComment /\ comments'[i].ext # Local =>
                Present(i) /\ comments'[i].ext = comments[i].ext /\ comments'[i].on = comments[i].on
  <1>0. Types' /\ (Aside \/ Ends \/ Imports) /\ comments \in Table
    BY StepKinds, Typed
  <1>1. comments' \in Table
    BY <1>0 DEF Types, TypeOK, ComTypeOK, Table
  <1>2. CASE UNCHANGED comments
    BY <1>1, <1>2, IdsArePositive DEF Present
  <1>3. CASE Aside
    BY <1>3 DEF Aside, Mild
  <1>4. CASE UpdateExternal
    BY <1>1, <1>4, UpdateTyped, IdsArePositive DEF Present
  <1>5. CASE LinkReply
    <2>1. ASSUME NEW k \in CommentIds, NEW p, Present(k),
                 comments'[k] = [comments[k] EXCEPT !.parent = p],
                 \A j \in CommentIds \ {k} : comments'[j] = comments[j],
                 NEW i \in CommentIds, comments'[i] # NoComment
          PROVE  Present(i) /\ comments'[i].ext = comments[i].ext /\ comments'[i].on = comments[i].on
      <3>1. comments[k] \in Comment
        BY <1>0, <2>1, PresentRow
      <3>2. comments'[k].ext = comments[k].ext /\ comments'[k].on = comments[k].on
        BY <2>1, <3>1 DEF Comment
      <3> QED
        BY <2>1, <3>2, IdsArePositive DEF Present
    <2>2. \A k \in fetch.known : k.id \in CommentIds
      BY Typed DEF Fetch
    <2> QED
      BY <1>1, <1>2, <1>5, <2>1, <2>2, LinkTyped
  <1>6. CASE FetchThread \/ FindExternal \/ StartLinks \/ Ends
    <2>1. UNCHANGED comments
      BY <1>6, ThreadTyped, FindTyped, StartTyped DEF Ends, comVars
    <2> QED
      BY <1>2, <2>1
  <1> QED
    BY <1>0, <1>3, <1>4, <1>5, <1>6 DEF Imports

LEMMA OneRowKept ==
    ASSUME Types, OneBatch, OneRowEach, [Next]_vars
    PROVE  OneRowEach'
  <1>0. Types' /\ (Aside \/ Ends \/ Imports) /\ comments \in Table /\ OneBatch'
    BY StepKinds, Typed, BatchKept
  <1>1. CASE CreateExternal
    <2>1. PICK i \in CommentIds, c \in Comment :
            /\ IsNextCommentId(i) /\ comments' = CreateComment(i, c)
            /\ c.on = fetch.article /\ c.ext = fetch.ext /\ fetch' = Imported(i)
      BY <1>1, CreateTyped
    <2>2. fetch.stage = "save" /\ fetch.id = 0 /\ Thread[fetch.ext].article = fetch.article
          /\ fetch \in Fetch /\ fetch.ext \in Externals
      BY <1>1, CreateTyped, Typed DEF OneBatch
    <2>3. /\ comments' \in Table /\ ~Present(i) /\ comments'[i] = c
          /\ \A j \in CommentIds \ {i} : comments'[j] = comments[j]
      BY <1>0, <2>1, NextIdIsNew
    <2>4. \A j \in CommentIds : Present(j) => comments[j].ext # fetch.ext
      BY <2>2 DEF OneRowEach
    <2>5. fetch'.stage = "find"
      BY <2>1, <2>2, <2>3, ImportedNotes
    <2>6. \A j \in CommentIds \ {i} : Present(j)' <=> Present(j)
      BY <2>3 DEF Present
    <2> QED
      BY <2>1, <2>2, <2>3, <2>4, <2>5, <2>6 DEF OneRowEach, IsLocal
  <1>2. CASE ~CreateExternal
    <2>1. \A i \in CommentIds : comments'[i] # NoComment /\ comments'[i].ext # Local =>
            Present(i) /\ comments'[i].ext = comments[i].ext /\ comments'[i].on = comments[i].on
      BY <1>2, AddsNoImport
    <2>2. \A i \in CommentIds : Present(i)' /\ ~IsLocal(comments[i])' =>
            /\ comments'[i].on = Thread[comments'[i].ext].article
            /\ \A j \in CommentIds : Present(j)' /\ comments'[i].ext = comments'[j].ext => i = j
      BY <2>1 DEF OneRowEach, Present, IsLocal
    <2>3. fetch'.stage = "save" /\ fetch'.id = 0 =>
            \A i \in CommentIds : Present(i)' => comments'[i].ext # fetch'.ext
      <3>1. CASE UNCHANGED fetch
        <4>1. SUFFICES ASSUME fetch.stage = "save", fetch.id = 0, NEW i \in CommentIds,
                              Present(i)', comments'[i].ext = fetch.ext
                       PROVE  FALSE
          BY <3>1
        <4>2. fetch.ext \in Externals /\ fetch.ext # Local
          BY <4>1, CommentsAssumption DEF OneBatch
        <4> QED
          BY <2>1, <4>1, <4>2 DEF OneRowEach, Present
      <3>2. CASE FindExternal
        <4>1. SUFFICES ASSUME fetch'.id = 0, NEW i \in CommentIds, Present(i)', comments'[i].ext = fetch'.ext
                       PROVE  FALSE
          OBVIOUS
        <4>2. PICK e \in fetch.todo : e = fetch'.ext
          BY <3>2, FindTyped
        <4>3. e \in Externals /\ e # Local /\ Thread[e].article = fetch.article
          BY <3>2, FindTyped, Typed, CommentsAssumption DEF OneBatch, Busy, Fetch
        <4>4. GetExternalComment(fetch.article, e) = {}
          BY <3>2, <4>1, <4>2, FindTyped, IdsArePositive DEF GetExternalComment
        <4>5. Present(i) /\ comments[i].ext = e
          BY <2>1, <4>1, <4>2, <4>3 DEF Present
        <4>6. comments[i].on = fetch.article
          BY <4>3, <4>5 DEF OneRowEach, IsLocal
        <4> QED
          BY <4>4, <4>5, <4>6 DEF GetExternalComment
      <3>3. CASE Ends \/ FetchThread \/ UpdateExternal \/ StartLinks \/ LinkReply
        <4>1. fetch'.stage # "save"
          <5>1. CASE UpdateExternal
            <6>1. /\ fetch' = Imported(fetch.id) /\ fetch.id \in CommentIds /\ fetch \in Fetch
                  /\ fetch.ext \in Externals
              BY <5>1, UpdateTyped, Typed DEF OneBatch
            <6>2. comments' \in Table
              BY <1>0 DEF Types, TypeOK, ComTypeOK, Table
            <6> QED
              BY <6>1, <6>2, ImportedNotes
          <5> QED
            BY <3>3, <5>1, ThreadTyped, StartTyped, LinkTyped DEF Ends
        <4> QED
          BY <4>1
      <3> QED
        BY <1>0, <1>2, <3>1, <3>2, <3>3 DEF Aside, Imports
    <2> QED
      BY <2>2, <2>3 DEF OneRowEach
  <1> QED
    BY <1>1, <1>2

(* Only Moderate writes a status, and it writes the ghost with it. *)
LEMMA DecisionKept ==
    ASSUME Types, OneBatch, DecisionStands, [Next]_vars
    PROVE  DecisionStands'
  <1>0. comments \in Table /\ decided \in [CommentIds -> Decisions \cup {"none"}]
    BY Typed
  <1>1. CASE UNCHANGED <<comments, decided>>
    BY <1>1 DEF DecisionStands, Present
  <1>2. ASSUME NEW i \in CommentIds, NEW c \in Comment, IsNextCommentId(i),
               comments' = CreateComment(i, c), decided' = [decided EXCEPT ![i] = "none"]
        PROVE  DecisionStands'
    <2>1. /\ comments'[i] = c /\ decided'[i] = "none"
          /\ \A j \in CommentIds \ {i} : comments'[j] = comments[j] /\ decided'[j] = decided[j]
      BY <1>0, <1>2, NextIdIsNew
    <2> QED
      BY <2>1 DEF DecisionStands, Present
  <1>3. CASE CreateExternal
    BY <1>2, <1>3, CreateTyped
  <1>4. ASSUME NEW r \in Requests, InsertComment(r) \/ InsertReply(r)
        PROVE  DecisionStands'
    BY <1>2, <1>4, InsertWrites
  <1>5. ASSUME NEW r \in Requests, Moderate(r)
        PROVE  DecisionStands'
    <2>0. PICK i \in CommentIds : i = req[r].id
      BY <1>5, ModerateWrites
    <2>1. CASE ~(UNCHANGED comments /\ UNCHANGED decided)
      <3>1. PICK st \in Decisions :
              /\ Present(i) /\ comments'[i] = [comments[i] EXCEPT !.status = st]
              /\ \A j \in CommentIds \ {i} : comments'[j] = comments[j]
              /\ decided' = [decided EXCEPT ![i] = st]
        BY <1>5, <2>0, <2>1, ModerateWrites
      <3>2. comments'[i].status = st
        BY <1>0, <3>1, PresentRow DEF Comment
      <3> QED
        BY <1>0, <3>1, <3>2 DEF DecisionStands, Present
    <2> QED
      BY <1>1, <2>1
  <1>6. CASE DestroyComment(Held) \/ DestroyArticle(Held)
    <2>1. PICK held \in BOOLEAN : held = Held
      BY DEF Held
    <2>2. UNCHANGED decided /\ \A j \in CommentIds : comments'[j] \in {comments[j], NoComment}
      BY <1>6, <2>1, DestroyWrites
    <2> QED
      BY <2>2 DEF DecisionStands, Present
  <1>7. CASE UpdateExternal
    BY <1>7, UpdateTyped DEF DecisionStands, Present
  <1>8. CASE LinkReply
    <2>1. CASE ~UNCHANGED comments
      <3>1. PICK k \in fetch.known : \E p : /\ Present(k.id) /\ comments'[k.id] = [comments[k.id] EXCEPT !.parent = p]
                              /\ \A j \in CommentIds \ {k.id} : comments'[j] = comments[j]
        BY <1>8, <2>1, LinkTyped
      <3>2. PICK p : /\ Present(k.id) /\ comments'[k.id] = [comments[k.id] EXCEPT !.parent = p]
                     /\ \A j \in CommentIds \ {k.id} : comments'[j] = comments[j]
        BY <3>1
      <3>3. k.id \in CommentIds
        BY Typed DEF Fetch
      <3>4. comments'[k.id].status = comments[k.id].status
        BY <1>0, <3>2, <3>3, PresentRow DEF Comment
      <3>5. UNCHANGED decided
        BY <1>8, LinkTyped
      <3>6. \A j \in CommentIds : comments'[j].status = comments[j].status /\ (Present(j)' => Present(j))
        BY <3>2, <3>3, <3>4 DEF Present
      <3> QED
        BY <3>5, <3>6 DEF DecisionStands
    <2>2. CASE UNCHANGED comments
      BY <1>1, <1>8, <2>2, LinkTyped
    <2> QED
      BY <2>1, <2>2
  <1>9. CASE Resting \/ FetchFails \/ FetchThread \/ FindExternal \/ StartLinks
    BY <1>1, <1>9, RestingTyped, FetchFailsTyped, ThreadTyped, FindTyped, StartTyped DEF comVars
  <1>10. CASE CronStep \/ MailStep \/ RunStep \/ CrashProcess \/ PassTime
    BY <1>1, <1>10, CronTyped, MailTyped, RunTyped, CrashTyped, TimeTyped DEF comVars
  <1>11. CASE UNCHANGED vars
    BY <1>1, <1>11 DEF vars, comVars
  <1>12. CASE WebStep
    <2>1. \/ UNCHANGED <<comments, decided>>
          \/ \E r \in Requests : InsertComment(r) \/ InsertReply(r) \/ Moderate(r)
          \/ DestroyComment(Held) \/ DestroyArticle(Held)
      BY <1>12 DEF WebStep, SubmitComment, InsertRefused, ReadForModeration, ReadForReply,
                   NotifyReplyApproved, RequestFails, ToggleComments
    <2> QED
      BY <1>1, <1>4, <1>5, <1>6, <2>1
  <1> QED
    BY <1>3, <1>7, <1>8, <1>9, <1>10, <1>11, <1>12 DEF Next, FetchStep, Resting

(* Between the mail and the row's "done" only a crash can come, and it     *)
(* counts as a cut.                                                        *)
LEMMA MailsKept ==
    ASSUME Types, OneBatch, MailsCounted, [Next]_vars
    PROVE  MailsCounted'
  <1>0. mails \in [JobIds -> Nat] /\ cut \in Nat /\ RunInv
    BY Typed
  <1>1. ASSUME AddsRow, UNCHANGED <<runner, mails, cut>>
        PROVE  MailsCounted'
    <2>1. \A j \in JobIds : jobs'[j].status # "done" => jobs[j].status # "done"
      BY <1>1 DEF AddsRow, NoRow
    <2> QED
      BY <1>1, <2>1 DEF MailsCounted
  <1>2. ASSUME runner.pc # "book", UNCHANGED <<jobs, mails, cut>>
        PROVE  MailsCounted'
    BY <1>2 DEF MailsCounted
  <1>3. CASE WebStep
    <2>1. AddsRow /\ UNCHANGED runner
      <3>1. CASE \E r \in Requests : NotifyReplyApproved(r)
        BY <3>1, NotifyWrites
      <3>2. CASE UNCHANGED <<jobs, runner>>
        BY <3>2 DEF AddsRow
      <3> QED
        BY <1>3, <3>1, <3>2
           DEF WebStep, SubmitComment, InsertComment, InsertReply, InsertRefused, ReadForModeration,
               Moderate, ReadForReply, RequestFails, ToggleComments, DestroyComment, DestroyArticle, runVars
    <2> QED
      BY <1>1, <1>3, <2>1 DEF WebStep, fetchVars
  <1>4. CASE Resting \/ FetchFails
    BY <1>2, <1>4, RestingTyped, FetchFailsTyped
  <1>5. CASE Imports
    <2>1. UNCHANGED <<runVars, mails, cut>>
      BY <1>5, ThreadTyped, FindTyped, CreateTyped, UpdateTyped, StartTyped, LinkTyped DEF Imports
    <2> QED
      BY <1>1, <2>1 DEF runVars, AddsRow
  <1>6. CASE CronStep
    BY <1>1, <1>6, CronTyped
  <1>7. CASE MailStep
    <2>1. /\ UNCHANGED jobs /\ runner.pc # "book" /\ runner'.id = runner.id
          /\ runner.id \in JobIds /\ jobs[runner.id].status = "running"
          /\ \/ UNCHANGED <<mails, cut>>
             \/ /\ mails' \in {mails, [mails EXCEPT ![runner.id] = @ + 1]}
                /\ \/ cut' = cut + 1
                   \/ cut' = cut /\ runner'.pc = "book" /\ runner'.outcome = "ok"
      BY <1>7, MailTyped
    <2>2. CASE UNCHANGED <<mails, cut>>
      BY <1>2, <2>1, <2>2
    <2>3. CASE ~UNCHANGED <<mails, cut>>
      <3>1. mails[runner.id] <= cut
        BY <2>1 DEF MailsCounted
      <3>2. \A j \in JobIds : mails'[j] \in Nat /\ cut' \in Nat
              /\ (mails'[j] = mails[j] \/ (j = runner.id /\ mails'[j] = mails[j] + 1))
        BY <1>0, <2>1, <2>3
      <3>3. ASSUME NEW j \in JobIds
            PROVE  /\ mails'[j] <= 1 + cut'
                   /\ (jobs'[j].status # "done"
                         /\ ~(runner'.pc = "book" /\ runner'.outcome = "ok" /\ runner'.id = j))
                       => mails'[j] <= cut'
        <4>1. mails[j] <= 1 + cut /\ (jobs[j].status # "done" => mails[j] <= cut)
          BY <2>1 DEF MailsCounted
        <4> QED
          BY <1>0, <2>1, <2>3, <3>1, <3>2, <4>1
      <3> QED
        BY <3>3 DEF MailsCounted
    <2> QED
      BY <2>2, <2>3
  <1>8. CASE RunStep
    <2>1. /\ UNCHANGED <<mails, cut>> /\ runner'.pc # "book"
          /\ \A j \in JobIds : jobs[j].status = "done" => jobs'[j].status = "done"
          /\ \A j \in JobIds : (runner.pc = "book" /\ runner.outcome = "ok" /\ runner.id = j)
                                  => jobs'[j].status = "done"
      BY <1>8, RunTyped DEF fetchVars
    <2> QED
      BY <2>1 DEF MailsCounted
  <1>9. CASE CrashProcess
    <2>1. /\ UNCHANGED <<jobs, mails>> /\ runner'.pc = "down"
          /\ cut' = IF runner.pc \in {"act", "book"} THEN cut + 1 ELSE cut
      BY <1>9, CrashTyped
    <2>2. CASE runner.pc = "book"
      <3>1. cut' = cut + 1 /\ \A j \in JobIds : mails[j] \in Nat /\ mails[j] <= 1 + cut
        BY <1>0, <2>1, <2>2 DEF MailsCounted
      <3> QED
        BY <1>0, <2>1, <3>1 DEF MailsCounted
    <2>3. CASE runner.pc # "book"
      <3>1. cut' \in Nat /\ cut <= cut' /\ \A j \in JobIds : mails[j] \in Nat
        BY <1>0, <2>1
      <3> QED
        BY <1>0, <2>1, <2>3, <3>1 DEF MailsCounted
    <2> QED
      BY <2>2, <2>3
  <1>10. CASE PassTime \/ UNCHANGED vars
    <2>1. UNCHANGED <<jobs, runner, mails, cut>>
      BY <1>10, TimeTyped DEF vars, runVars, fetchVars
    <2> QED
      BY <1>1, <2>1 DEF AddsRow
  <1> QED
    BY <1>3, <1>4, <1>5, <1>6, <1>7, <1>8, <1>9, <1>10 DEF Next, FetchStep, Resting, Imports

LEMMA StampKept ==
    ASSUME Types, OneBatch, StampFollowsEnqueue, [Next]_vars
    PROVE  StampFollowsEnqueue'
  <1>1. CASE UNCHANGED <<stamp, queuedAt>>
    BY <1>1 DEF StampFollowsEnqueue
  <1>2. CASE CronStep
    <2>1. CASE UNCHANGED stamp
      <3>1. queuedAt \subseteq queuedAt'
        BY <1>2, CronTyped
      <3> QED
        BY <2>1, <3>1 DEF StampFollowsEnqueue
    <2>2. ASSUME NEW p \in CronPlatforms, StampFetch(p)
          PROVE  StampFollowsEnqueue'
      <3>1. /\ stamp' = [stamp EXCEPT ![p] = clock] /\ <<p, clock>> \in queuedAt
            /\ UNCHANGED queuedAt /\ stamp \in [CronPlatforms -> Nat]
        BY <2>2, Typed DEF StampFetch
      <3> QED
        BY <3>1 DEF StampFollowsEnqueue
    <2> QED
      BY <1>2, <2>1, <2>2 DEF CronStep, CronTick, CronFails, FetchForArticle, EnqueueDueFetch, fetchVars
  <1>3. CASE WebStep \/ RunStep \/ PassTime \/ UNCHANGED vars
    BY <1>1, <1>3 DEF WebStep, RunStep, PassTime, vars, fetchVars
  <1>4. CASE FetchStep \/ MailStep \/ CrashProcess
    <2>1. UNCHANGED <<stamp, queuedAt>>
      BY <1>4, RestingTyped, FetchFailsTyped, ThreadTyped, FindTyped, CreateTyped, UpdateTyped,
         StartTyped, LinkTyped, MailTyped, CrashTyped DEF FetchStep, Resting
    <2> QED
      BY <1>1, <2>1
  <1> QED
    BY <1>2, <1>3, <1>4 DEF Next

-----------------------------------------------------------------------------
(* The second pass.                                                        *)

(* Beside the fetch a row of the batch stays as it is or goes for good. *)
LEMMA RowStays ==
    ASSUME comments \in Table, Mild, ~DestroyRaces, Held, NEW i \in CommentIds, NEW e \in Externals,
           RowOf(i, e)
    PROVE  /\ RowOf(i, e)'
           /\ Present(i)' => Present(i) /\ comments'[i].parent = comments[i].parent
  <1>1. /\ LastId(comments) \in 0..MaxComments /\ LastId(comments') \in 0..MaxComments
        /\ LastId(comments) <= LastId(comments') /\ i <= LastId(comments) /\ MaxComments \in Nat
        /\ i \in Nat /\ e # Local
    BY LastIdIsLast, IdsArePositive, CommentsAssumption DEF Mild, RowOf
  <1>2. i <= LastId(comments') /\ ~(LastId(comments) < i)
    BY <1>1
  <1>3. Present(i)' => Present(i) /\ comments'[i].ext = comments[i].ext
                       /\ comments'[i].parent = comments[i].parent
    BY <1>2 DEF Mild, Present
  <1>4. \A j \in CommentIds : Present(j)' /\ comments'[j].ext = e => j = i
    BY <1>1 DEF Mild, Present, RowOf
  <1> QED
    BY <1>2, <1>3, <1>4 DEF RowOf

LEMMA UpdateIsMild ==
    ASSUME Types, OneBatch, UpdateExternal
    PROVE  Mild
  <1>0. comments \in Table /\ comments' \in Table
    BY UpdateTyped, Typed DEF Types, TypeOK, ComTypeOK, Table
  <1>1. \A j \in CommentIds :
          \/ comments'[j] = comments[j]
          \/ /\ Present(j) /\ comments'[j] \in Comment
             /\ comments'[j].ext = comments[j].ext /\ comments'[j].on = comments[j].on
             /\ comments'[j].parent = comments[j].parent /\ comments'[j].email = comments[j].email
    BY UpdateTyped
  <1>2. \A j \in CommentIds : comments[j] # NoComment => comments'[j] # NoComment
    BY <1>1, NoCommentIs
  <1>3. LastId(comments) <= LastId(comments')
    BY <1>2, LastIdGrows
  <1> QED
    BY <1>0, <1>1, <1>3, IdsArePositive DEF Mild, Present

LEMMA KnownRow ==
    ASSUME Types, NEW k \in fetch.known
    PROVE  /\ k.id \in CommentIds /\ k.ext \in Externals /\ k.ext # Local
           /\ Thread[k.ext].parent \in Externals \cup {Root} /\ Thread[k.ext].parent # k.ext
           /\ Thread[k.ext].parent # Root => Thread[k.ext].parent # Local
  BY Typed, CommentsAssumption DEF Fetch

(* The row of the comment a reply answers is the one the second pass finds. *)
LEMMA ParentIsOne ==
    ASSUME Types, OneRowEach, Threading, fetch.stage = "link", NEW k \in fetch.known,
           Thread[k.ext].parent # Root, NEW q \in GetExternalComment(fetch.article, Thread[k.ext].parent)
    PROVE  ParentRow(k.ext) = {q}
  <1> DEFINE e == Thread[k.ext].parent
             here == {n.id : n \in {m \in fetch.known : m.ext = e}}
  <1>1. q \in CommentIds /\ Present(q) /\ comments[q].ext = e /\ e # Local /\ comments[q].on = fetch.article
    BY KnownRow DEF GetExternalComment
  <1>2. \A n \in fetch.known : n.ext = e => n.id = q
    BY <1>1 DEF Threading, RowOf, Busy
  <1>3. CASE here # {}
    <2>1. here = {q}
      BY <1>2, <1>3
    <2> QED
      BY <1>3, <2>1 DEF ParentRow
  <1>4. CASE here = {}
    <2>1. ParentRow(k.ext) = GetExternalComment(fetch.article, e)
      BY <1>4 DEF ParentRow
    <2>2. \A p \in GetExternalComment(fetch.article, e) : p = q
      BY <1>1 DEF OneRowEach, GetExternalComment, IsLocal
    <2> QED
      BY <2>1, <2>2
  <1> QED
    BY <1>3, <1>4

(* Beside the fetch a reply that hangs where it should goes on to. *)
LEMMA BelowStays ==
    ASSUME Types, Mild, ~DestroyRaces, Held, NEW k \in fetch.known, Thread[k.ext].parent # Root,
           RowOf(k.id, k.ext), Present(k.id)', Present(k.id) => Below(k), UNCHANGED fetch
    PROVE  Below(k)'
  <1>1. Present(k.id) /\ comments'[k.id].parent = comments[k.id].parent
    BY Typed, KnownRow, RowStays
  <1>2. ASSUME NEW p \in CommentIds, Present(p)', comments'[p].on = fetch.article,
               comments'[p].ext = Thread[k.ext].parent
        PROVE  p \in GetExternalComment(fetch.article, Thread[k.ext].parent)
    BY <1>2, KnownRow DEF Mild, Present, GetExternalComment
  <1> QED
    BY <1>1, <1>2 DEF Below, GetExternalComment

LEMMA ThreadingAside ==
    ASSUME Types, OneBatch, Threading, Aside, ~DestroyRaces
    PROVE  Threading'
  <1>0. comments \in Table /\ Mild /\ UNCHANGED fetch /\ fetch \in Fetch
    BY Typed DEF Aside
  <1>1. CASE fetch.stage \notin Busy
    BY <1>0, <1>1 DEF Threading, Busy
  <1>2. CASE fetch.stage \in Busy
    <2>1. Held
      BY <1>2 DEF Held, Busy
    <2>2. ASSUME NEW k \in fetch.known
          PROVE  RowOf(k.id, k.ext) /\ RowOf(k.id, k.ext)'
                 /\ (Present(k.id)' => Present(k.id) /\ comments'[k.id].parent = comments[k.id].parent)
      <3>1. RowOf(k.id, k.ext)
        BY <1>2 DEF Threading
      <3> QED
        BY <1>0, <2>1, <3>1, KnownRow, RowStays
    <2>3. fetch.stage = "save" /\ fetch.id # 0 => RowOf(fetch.id, fetch.ext)'
      <3>1. SUFFICES ASSUME fetch.stage = "save", fetch.id # 0
                     PROVE  RowOf(fetch.id, fetch.ext)'
        OBVIOUS
      <3>2. PICK i \in CommentIds : i = fetch.id
        BY <1>0, <3>1 DEF Fetch
      <3>3. PICK e \in Externals : e = fetch.ext
        BY <3>1 DEF OneBatch
      <3>4. RowOf(i, e)
        BY <3>1, <3>2, <3>3 DEF Threading
      <3> QED
        BY <1>0, <2>1, <3>2, <3>3, <3>4, RowStays
    <2>4. fetch.stage = "link" => \A k \in fetch.known :
            Present(k.id)' /\ k.ext \notin fetch.links /\ Thread[k.ext].parent # Root => Below(k)'
      BY <1>0, <2>1, <2>2, BelowStays DEF Threading
    <2> QED
      BY <1>0, <2>2, <2>3, <2>4 DEF Threading
  <1> QED
    BY <1>1, <1>2

LEMMA ThreadingCreate ==
    ASSUME Types, OneBatch, OneRowEach, Threading, CreateExternal
    PROVE  Threading'
  <1>0. comments \in Table /\ fetch \in Fetch /\ fetch.ext \in Externals
        /\ fetch.stage = "save" /\ fetch.id = 0
    BY Typed, CreateTyped DEF OneBatch
  <1>1. PICK i \in CommentIds, c \in Comment :
          /\ IsNextCommentId(i) /\ comments' = CreateComment(i, c)
          /\ c.ext = fetch.ext /\ fetch' = Imported(i)
    BY CreateTyped
  <1>2. /\ comments' \in Table /\ ~Present(i) /\ LastId(comments) < i /\ comments'[i] = c
        /\ \A j \in CommentIds \ {i} : comments'[j] = comments[j]
        /\ LastId(comments) <= LastId(comments') /\ i <= LastId(comments')
    BY <1>0, <1>1, NextIdIsNew
  <1>3. PICK e \in Externals : e = fetch.ext
    BY <1>0
  <1>a. PICK new : new = [ext |-> e, id |-> i, parent |-> comments'[i].parent]
    OBVIOUS
  <1>4. /\ fetch'.stage = "find" /\ fetch'.known = fetch.known \cup {new}
        /\ fetch'.links = IF Thread[e].parent = Root THEN fetch.links ELSE fetch.links \cup {e}
    BY <1>0, <1>1, <1>2, <1>3, <1>a, ImportedNotes
  <1>5. i # 0 /\ \A j \in CommentIds \ {i} : Present(j)' <=> Present(j)
    BY <1>2, IdsArePositive DEF Present
  <1>6. ASSUME NEW k \in fetch.known
        PROVE  /\ RowOf(k.id, k.ext)'
               /\ Thread[k.ext].parent # Root => k.ext \in fetch'.links
               /\ Present(k.id)' => comments'[k.id].parent = k.parent
    <2>1. /\ RowOf(k.id, k.ext) /\ k.ext # fetch.ext
          /\ Thread[k.ext].parent # Root => k.ext \in fetch.links
          /\ Present(k.id) => comments[k.id].parent = k.parent
      BY <1>0 DEF Threading, OneBatch, Busy
    <2>2. /\ k.id \in CommentIds /\ k.id \in Nat /\ LastId(comments) \in Nat
          /\ LastId(comments') \in Nat /\ i \in Nat
      BY KnownRow, IdsArePositive, LastIdIsLast, CommentsAssumption
    <2>3. k.id # i /\ k.id <= LastId(comments')
      BY <1>2, <2>1, <2>2 DEF RowOf
    <2> QED
      BY <1>1, <1>2, <1>4, <1>5, <2>1, <2>2, <2>3 DEF RowOf
  <1>7. RowOf(i, e)' /\ (Thread[e].parent # Root => e \in fetch'.links)
    <2>1. \A j \in CommentIds : Present(j) => comments[j].ext # e
      BY <1>0, <1>3 DEF OneRowEach
    <2>2. i <= LastId(comments') /\ comments'[i].ext = e
      BY <1>1, <1>2, <1>3
    <2>3. \A j \in CommentIds : Present(j)' /\ comments'[j].ext = e => j = i
      BY <1>2, <1>5, <2>1
    <2> QED
      BY <1>4, <2>2, <2>3 DEF RowOf
  <1>8. new.ext = e /\ new.id = i /\ new.parent = comments'[i].parent
    BY <1>a
  <1>9. ASSUME NEW k \in fetch.known \cup {new}
        PROVE  /\ RowOf(k.id, k.ext)'
               /\ Thread[k.ext].parent # Root => k.ext \in fetch'.links
               /\ Present(k.id)' => comments'[k.id].parent = k.parent
    <2>1. CASE k = new
      BY <1>7, <1>8, <2>1
    <2> QED
      BY <1>6, <2>1
  <1> QED
    BY <1>4, <1>9 DEF Threading, Busy

LEMMA ThreadingUpdate ==
    ASSUME Types, OneBatch, Threading, UpdateExternal, ~DestroyRaces
    PROVE  Threading'
  <1>0. /\ comments \in Table /\ comments' \in Table /\ fetch \in Fetch
        /\ fetch.stage = "save" /\ fetch.id \in CommentIds /\ Present(fetch.id)
        /\ fetch' = Imported(fetch.id) /\ Mild
    BY Typed, UpdateTyped, UpdateIsMild DEF Types, TypeOK, ComTypeOK, Table
  <1>1. Held
    BY <1>0 DEF Held
  <1>2. PICK e \in Externals, i \in CommentIds : e = fetch.ext /\ i = fetch.id
    BY <1>0 DEF OneBatch
  <1>3. PICK new : new = [ext |-> e, id |-> i, parent |-> comments'[i].parent]
    OBVIOUS
  <1>4. /\ fetch'.stage = "find" /\ fetch'.known = fetch.known \cup {new}
        /\ fetch'.links = IF Thread[e].parent = Root THEN fetch.links ELSE fetch.links \cup {e}
    BY <1>0, <1>2, <1>3, ImportedNotes
  <1>5. new.ext = e /\ new.id = i /\ new.parent = comments'[i].parent
    BY <1>3
  <1>6. RowOf(i, e)' /\ (Thread[e].parent # Root => e \in fetch'.links)
    <2>1. RowOf(i, e)
      BY <1>0, <1>2, IdsArePositive DEF Threading
    <2> QED
      BY <1>0, <1>1, <1>4, <2>1, RowStays
  <1>7. ASSUME NEW k \in fetch.known
        PROVE  /\ RowOf(k.id, k.ext)'
               /\ Thread[k.ext].parent # Root => k.ext \in fetch'.links
               /\ Present(k.id)' => comments'[k.id].parent = k.parent
    <2>1. /\ RowOf(k.id, k.ext)
          /\ Thread[k.ext].parent # Root => k.ext \in fetch.links
          /\ Present(k.id) => comments[k.id].parent = k.parent
      BY <1>0 DEF Threading, Busy
    <2>2. /\ RowOf(k.id, k.ext)'
          /\ Present(k.id)' => Present(k.id) /\ comments'[k.id].parent = comments[k.id].parent
      BY <1>0, <1>1, <2>1, KnownRow, RowStays
    <2> QED
      BY <1>4, <2>1, <2>2
  <1>8. ASSUME NEW k \in fetch.known \cup {new}
        PROVE  /\ RowOf(k.id, k.ext)'
               /\ Thread[k.ext].parent # Root => k.ext \in fetch'.links
               /\ Present(k.id)' => comments'[k.id].parent = k.parent
    <2>1. CASE k = new
      BY <1>5, <1>6, <2>1
    <2> QED
      BY <1>7, <2>1
  <1> QED
    BY <1>4, <1>8 DEF Threading, Busy

LEMMA ThreadingFind ==
    ASSUME Types, OneBatch, OneRowEach, Threading, FindExternal
    PROVE  Threading'
  <1>0. /\ fetch.stage = "find" /\ fetch'.stage = "save" /\ UNCHANGED comments
        /\ fetch'.known = fetch.known /\ fetch'.links = fetch.links /\ fetch'.ext \in fetch.todo
        /\ \/ fetch'.id = 0
           \/ fetch'.id \in GetExternalComment(fetch.article, fetch'.ext)
    BY FindTyped DEF comVars
  <1>1. PICK e \in Externals : e = fetch'.ext /\ e # Local
    BY <1>0, Typed, CommentsAssumption DEF Fetch
  <1>2. PICK i : i = fetch'.id
    OBVIOUS
  <1>3. i # 0 => RowOf(i, e)
    <2>1. SUFFICES ASSUME i \in GetExternalComment(fetch.article, e)
                   PROVE  RowOf(i, e)
      BY <1>0, <1>1, <1>2
    <2>2. i \in CommentIds /\ Present(i) /\ comments[i].ext = e
      BY <2>1 DEF GetExternalComment
    <2>3. i <= LastId(comments)
      BY <2>2, LastIdIsLast DEF Present
    <2>4. \A j \in CommentIds : Present(j) /\ comments[j].ext = e => j = i
      BY <1>1, <2>2 DEF OneRowEach, IsLocal
    <2> QED
      BY <2>2, <2>3, <2>4 DEF RowOf
  <1>4. fetch'.id # 0 => RowOf(fetch.id, fetch.ext)'
    BY <1>0, <1>1, <1>2, <1>3 DEF RowOf, Present
  <1>5. \A k \in fetch.known : (RowOf(k.id, k.ext)' <=> RowOf(k.id, k.ext)) /\ (Present(k.id)' <=> Present(k.id))
    BY <1>0 DEF RowOf, Present
  <1> QED
    BY <1>0, <1>4, <1>5 DEF Threading, Busy

LEMMA ThreadingStart ==
    ASSUME Types, Threading, StartLinks
    PROVE  Threading'
  <1>0. /\ fetch.stage = "find" /\ fetch'.stage = "link" /\ UNCHANGED comments
        /\ fetch'.known = fetch.known /\ fetch'.links = fetch.links
    BY StartTyped DEF comVars
  <1>1. \A k \in fetch.known : (RowOf(k.id, k.ext)' <=> RowOf(k.id, k.ext)) /\ (Present(k.id)' <=> Present(k.id))
    BY <1>0 DEF RowOf, Present
  <1> QED
    BY <1>0, <1>1 DEF Threading, Busy

(* The reply in hand is hung below its parent; the others stay. *)
LEMMA ThreadingLink ==
    ASSUME Types, OneBatch, OneRowEach, Threading, LinkReply
    PROVE  Threading'
  <1>0. fetch.stage = "link" /\ comments \in Table /\ fetch \in Fetch
    BY LinkTyped, Typed
  <1>1. CASE fetch'.stage = "scan"
    BY <1>1 DEF Threading, Busy
  <1>2. CASE fetch'.stage # "scan"
    <2>1. PICK k \in fetch.known :
            /\ k.ext \in fetch.links
            /\ fetch'.stage = "link" /\ fetch'.links = fetch.links \ {k.ext}
            /\ fetch'.article = fetch.article /\ fetch'.known = fetch.known
            /\ \/ UNCHANGED comments /\ ParentRow(k.ext) \subseteq {k.id, k.parent}
               \/ \E p \in ParentRow(k.ext) :
                    \/ ~Present(k.id) /\ UNCHANGED comments
                    \/ /\ Present(k.id) /\ Present(p)
                       /\ comments'[k.id] = [comments[k.id] EXCEPT !.parent = p]
                       /\ \A j \in CommentIds \ {k.id} : comments'[j] = comments[j]
      BY <1>2, LinkTyped
    <2>2. /\ k.id \in CommentIds /\ RowOf(k.id, k.ext) /\ Thread[k.ext].parent # k.ext
          /\ Present(k.id) => comments[k.id].parent = k.parent /\ comments[k.id].ext = k.ext
      BY <1>0, <2>1, KnownRow DEF Threading, Busy, RowOf
    <2>3. /\ \A j \in CommentIds : (comments'[j] # NoComment <=> comments[j] # NoComment)
                                   /\ comments'[j].ext = comments[j].ext /\ comments'[j].on = comments[j].on
          /\ \A j \in CommentIds \ {k.id} : comments'[j] = comments[j]
          /\ ~Present(k.id) => UNCHANGED comments
      <3>1. CASE UNCHANGED comments
        BY <3>1
      <3>2. CASE ~UNCHANGED comments
        <4>1. PICK p \in ParentRow(k.ext) :
                 /\ Present(k.id) /\ comments'[k.id] = [comments[k.id] EXCEPT !.parent = p]
                 /\ \A j \in CommentIds \ {k.id} : comments'[j] = comments[j]
          BY <2>1, <3>2
        <4>2. comments[k.id] \in Comment
          BY <1>0, <2>2, <4>1, PresentRow
        <4>3. p \in CommentIds
          BY <1>0, <4>1 DEF ParentRow, GetExternalComment, Fetch
        <4>4. /\ comments'[k.id] \in Comment /\ comments'[k.id].ext = comments[k.id].ext
              /\ comments'[k.id].on = comments[k.id].on
          BY <4>1, <4>2, <4>3 DEF Comment
        <4> QED
          BY <4>1, <4>2, <4>4, NoCommentIs
      <3> QED
        BY <3>1, <3>2
    <2>4. \A j \in CommentIds : (Present(j)' <=> Present(j))
      BY <2>3 DEF Present
    <2>5. LastId(comments') = LastId(comments)
      <3>1. /\ LastId(comments) <= LastId(comments') /\ LastId(comments') <= LastId(comments)
        BY <2>3, LastIdGrows
      <3>2. LastId(comments) \in Int /\ LastId(comments') \in Int
        BY LastIdIsLast
      <3> QED
        BY <3>1, <3>2
    <2>6. \A n \in fetch.known : RowOf(n.id, n.ext)'
      <3> TAKE n \in fetch.known
      <3>1. RowOf(n.id, n.ext) /\ n.id \in CommentIds
        BY <1>0, KnownRow DEF Threading, Busy
      <3> QED
        BY <2>3, <2>4, <2>5, <3>1 DEF RowOf
    <2>7. \A e \in Externals : GetExternalComment(fetch.article, e)' = GetExternalComment(fetch.article, e)
      BY <2>1, <2>3, <2>4 DEF GetExternalComment
    <2>8. ASSUME NEW n \in fetch.known, Present(n.id)', n # k
          PROVE  /\ n.ext \in fetch'.links => comments'[n.id].parent = n.parent
                 /\ n.ext \notin fetch'.links /\ Thread[n.ext].parent # Root => Below(n)'
      <3>1. /\ n.id \in CommentIds /\ n.ext # k.ext /\ RowOf(n.id, n.ext) /\ Present(n.id)
            /\ Thread[n.ext].parent \in Externals \cup {Root}
        BY <1>0, <2>4, <2>8, KnownRow DEF OneBatch, Busy, Threading
      <3>2. n.id # k.id
        BY <2>2, <3>1 DEF RowOf
      <3>3. comments'[n.id] = comments[n.id]
        BY <2>3, <3>1, <3>2
      <3>4. n.ext \in fetch'.links <=> n.ext \in fetch.links
        BY <2>1, <3>1
      <3> QED
        BY <1>0, <2>7, <3>1, <3>3, <3>4 DEF Threading, Below
    <2>9. Present(k.id)' /\ Thread[k.ext].parent # Root => Below(k)'
      <3>1. SUFFICES ASSUME Present(k.id), Thread[k.ext].parent # Root,
                            NEW q \in GetExternalComment(fetch.article, Thread[k.ext].parent)
                     PROVE  comments'[k.id].parent = q
        BY <2>2, <2>4, <2>7, KnownRow DEF Below
      <3>2. ParentRow(k.ext) = {q} /\ comments[q].ext = Thread[k.ext].parent
        BY <1>0, <3>1, ParentIsOne DEF GetExternalComment
      <3>3. q # k.id
        BY <2>2, <3>1, <3>2
      <3>4. CASE UNCHANGED comments /\ ParentRow(k.ext) \subseteq {k.id, k.parent}
        BY <2>2, <3>1, <3>2, <3>3, <3>4
      <3>5. CASE comments'[k.id] = [comments[k.id] EXCEPT !.parent = q]
        <4>1. comments[k.id] \in Comment
          BY <1>0, <2>2, <3>1, PresentRow
        <4> QED
          BY <3>5, <4>1 DEF Comment
      <3> QED
        BY <2>1, <3>1, <3>2, <3>4, <3>5
    <2>10. ASSUME NEW n \in fetch.known, Present(n.id)'
           PROVE  /\ n.ext \in fetch'.links => comments'[n.id].parent = n.parent
                  /\ n.ext \notin fetch'.links /\ Thread[n.ext].parent # Root => Below(n)'
      <3>1. CASE n = k
        BY <2>1, <2>9, <2>10, <3>1
      <3> QED
        BY <2>8, <2>10, <3>1
    <2> QED
      BY <2>1, <2>6, <2>10 DEF Threading
  <1> QED
    BY <1>1, <1>2

LEMMA ThreadingKept ==
    ASSUME Types, OneBatch, OneRowEach, Threading, ~DestroyRaces, [Next]_vars
    PROVE  Threading'
  <1>1. Aside \/ Ends \/ Imports
    BY StepKinds
  <1>2. CASE Aside
    BY <1>2, ThreadingAside
  <1>3. CASE Ends
    BY <1>3 DEF Ends, Threading, Busy
  <1>4. CASE FetchThread
    BY <1>4, ThreadTyped DEF Threading, Busy
  <1>5. CASE Imports /\ ~FetchThread
    BY <1>5, ThreadingFind, ThreadingCreate, ThreadingUpdate, ThreadingStart, ThreadingLink DEF Imports
  <1> QED
    BY <1>1, <1>2, <1>3, <1>4, <1>5

-----------------------------------------------------------------------------
(* The notifications.                                                      *)

LEMMA ParentsKept ==
    ASSUME Types, OneBatch, ParentsStand, [Next]_vars
    PROVE  ParentsStand'
  <1>0. comments \in Table
    BY Typed
  <1>1. CASE UNCHANGED comments
    BY <1>1 DEF ParentsStand, Present
  <1>2. ASSUME NEW i \in CommentIds, NEW c \in Comment, IsNextCommentId(i),
               comments' = CreateComment(i, c), c.parent = 0 \/ Present(c.parent)
        PROVE  ParentsStand'
    <2>1. /\ comments'[i] = c /\ ~Present(i) /\ \A j \in CommentIds \ {i} : comments'[j] = comments[j]
      BY <1>0, <1>2, NextIdIsNew
    <2>2. \A j \in CommentIds : Present(j) => Present(j)' /\ j # i
      BY <2>1 DEF Present
    <2>3. \A j \in CommentIds : comments[j].parent \in {0} \cup CommentIds
      BY <1>0, NoCommentIs DEF Table, Comment
    <2>4. c.parent \in {0} \cup CommentIds
      BY DEF Comment
    <2> QED
      BY <1>2, <2>1, <2>2, <2>3, <2>4 DEF ParentsStand, Present
  <1>3. ASSUME \A j \in CommentIds : (comments'[j] # NoComment <=> comments[j] # NoComment)
                                     /\ comments'[j].parent = comments[j].parent
        PROVE  ParentsStand'
    <2>1. \A j \in CommentIds : comments[j].parent \in {0} \cup CommentIds
      BY <1>0, NoCommentIs DEF Table, Comment
    <2> QED
      BY <1>3, <2>1 DEF ParentsStand, Present
  <1>4. ASSUME NEW r \in Requests, InsertComment(r) \/ InsertReply(r)
        PROVE  ParentsStand'
    <2>1. PICK c \in Comment : c = req[r].row
      BY <1>4, InsertWrites
    <2> QED
      BY <1>2, <1>4, <2>1, InsertWrites
  <1>5. CASE CreateExternal
    BY <1>2, <1>5, CreateTyped
  <1>6. ASSUME NEW r \in Requests, Moderate(r)
        PROVE  ParentsStand'
    <2>0. PICK i \in CommentIds : i = req[r].id
      BY <1>6, ModerateWrites
    <2>1. CASE ~UNCHANGED comments
      <3>1. PICK st \in Decisions :
              /\ Present(i) /\ comments'[i] = [comments[i] EXCEPT !.status = st]
              /\ \A j \in CommentIds \ {i} : comments'[j] = comments[j]
        BY <1>6, <2>0, <2>1, ModerateWrites
      <3>2. comments[i] \in Comment
        BY <1>0, <3>1, PresentRow
      <3>3. comments'[i] \in Comment /\ comments'[i].parent = comments[i].parent
        BY <3>1, <3>2 DEF Comment
      <3> QED
        BY <1>3, <3>1, <3>2, <3>3, NoCommentIs
    <2> QED
      BY <1>1, <2>1
  <1>7. CASE UpdateExternal
    <2>1. \A j \in CommentIds : (comments'[j] # NoComment <=> comments[j] # NoComment)
                                /\ comments'[j].parent = comments[j].parent
      BY <1>7, UpdateTyped, NoCommentIs DEF Present
    <2> QED
      BY <1>3, <2>1
  <1>8. CASE DestroyComment(Held) \/ DestroyArticle(Held)
    <2>1. PICK held \in BOOLEAN : held = Held
      BY DEF Held
    <2>2. /\ \A j \in CommentIds : comments'[j] \in {comments[j], NoComment}
          /\ \A j \in CommentIds : comments'[comments[j].parent] = NoComment /\ comments[j].parent \in CommentIds
                                     /\ comments[comments[j].parent] # NoComment
                                   => comments'[j] = NoComment
      BY <1>8, <2>1, DestroyWrites
    <2>3. \A j \in CommentIds : comments[j].parent \in {0} \cup CommentIds
      BY <1>0, NoCommentIs DEF Table, Comment
    <2> QED
      BY <2>2, <2>3 DEF ParentsStand, Present
  <1>9. CASE LinkReply
    <2>1. CASE ~UNCHANGED comments
      <3>1. PICK k \in fetch.known : \E p \in ParentRow(k.ext) :
               /\ Present(k.id) /\ Present(p) /\ comments'[k.id] = [comments[k.id] EXCEPT !.parent = p]
               /\ \A j \in CommentIds \ {k.id} : comments'[j] = comments[j]
        BY <1>9, <2>1, LinkTyped
      <3>2. PICK p \in ParentRow(k.ext) :
               /\ Present(k.id) /\ Present(p) /\ comments'[k.id] = [comments[k.id] EXCEPT !.parent = p]
               /\ \A j \in CommentIds \ {k.id} : comments'[j] = comments[j]
        BY <3>1
      <3>3. k.id \in CommentIds /\ p \in CommentIds
        BY Typed DEF ParentRow, GetExternalComment, Fetch
      <3>4. comments[k.id] \in Comment
        BY <1>0, <3>2, <3>3, PresentRow
      <3>5. comments'[k.id] \in Comment /\ comments'[k.id].parent = p
        BY <3>2, <3>3, <3>4 DEF Comment
      <3>6. \A j \in CommentIds : Present(j)' <=> Present(j)
        BY <3>2, <3>4, <3>5, NoCommentIs DEF Present
      <3>7. \A j \in CommentIds : comments[j].parent \in {0} \cup CommentIds
        BY <1>0, NoCommentIs DEF Table, Comment
      <3> QED
        BY <3>2, <3>3, <3>5, <3>6, <3>7 DEF ParentsStand
    <2> QED
      BY <1>1, <2>1
  <1>10. CASE WebStep
    <2>1. \/ UNCHANGED comments
          \/ \E r \in Requests : InsertComment(r) \/ InsertReply(r) \/ Moderate(r)
          \/ DestroyComment(Held) \/ DestroyArticle(Held)
      BY <1>10 DEF WebStep, SubmitComment, InsertRefused, ReadForModeration, ReadForReply,
                   NotifyReplyApproved, RequestFails, ToggleComments
    <2> QED
      BY <1>1, <1>4, <1>6, <1>8, <2>1
  <1>11. CASE Resting \/ FetchFails \/ FetchThread \/ FindExternal \/ StartLinks
    BY <1>1, <1>11, RestingTyped, FetchFailsTyped, ThreadTyped, FindTyped, StartTyped DEF comVars
  <1>12. CASE CronStep \/ MailStep \/ RunStep \/ CrashProcess \/ PassTime \/ UNCHANGED vars
    BY <1>1, <1>12, CronTyped, MailTyped, RunTyped, CrashTyped, TimeTyped DEF comVars, vars
  <1> QED
    BY <1>5, <1>7, <1>9, <1>10, <1>11, <1>12 DEF Next, FetchStep, Resting

(* Rows that stay keep whom a reply is to tell; new ones take ids that no  *)
(* step under way holds.                                                   *)
Tame ==
    /\ \A i \in CommentIds : comments'[i] # NoComment =>
        \/ /\ Present(i) /\ comments'[i].ext = comments[i].ext
           /\ comments[i].ext = Local => comments'[i].parent = comments[i].parent
                                         /\ comments'[i].email = comments[i].email
        \/ ~Present(i) /\ LastId(comments) < i
    /\ ~DestroyRaces /\ Held => LastId(comments) <= LastId(comments')

LEMMA StepIsTame ==
    ASSUME Types, OneBatch, Threading, [Next]_vars
    PROVE  Tame
  <1>0. comments \in Table /\ (Aside \/ Ends \/ Imports)
    BY Typed, StepKinds
  <1>1. CASE Mild
    BY <1>1 DEF Mild, Tame
  <1>2. CASE UNCHANGED comments
    BY <1>0, <1>1, <1>2, SameIsMild
  <1>3. CASE UpdateExternal
    BY <1>1, <1>3, UpdateIsMild
  <1>4. CASE CreateExternal
    <2>1. PICK i \in CommentIds, c \in Comment : IsNextCommentId(i) /\ comments' = CreateComment(i, c)
      BY <1>4, CreateTyped
    <2>2. /\ ~Present(i) /\ LastId(comments) < i /\ LastId(comments) <= LastId(comments')
          /\ \A j \in CommentIds \ {i} : comments'[j] = comments[j]
      BY <1>0, <2>1, NextIdIsNew
    <2> QED
      BY <2>2, IdsArePositive DEF Tame, Present
  <1>5. CASE LinkReply
    <2>1. CASE ~UNCHANGED comments
      <3>1. PICK k \in fetch.known : \E p \in ParentRow(k.ext) :
               /\ Present(k.id) /\ comments'[k.id] = [comments[k.id] EXCEPT !.parent = p]
               /\ \A j \in CommentIds \ {k.id} : comments'[j] = comments[j]
        BY <1>5, <2>1, LinkTyped
      <3>2. PICK p \in ParentRow(k.ext) :
               /\ Present(k.id) /\ comments'[k.id] = [comments[k.id] EXCEPT !.parent = p]
               /\ \A j \in CommentIds \ {k.id} : comments'[j] = comments[j]
        BY <3>1
      <3>3. k.id \in CommentIds /\ p \in CommentIds /\ k.ext # Local /\ comments[k.id].ext = k.ext
        BY <1>5, <3>2, LinkTyped, Typed, KnownRow
           DEF ParentRow, GetExternalComment, Fetch, Threading, Busy, RowOf
      <3>4. comments[k.id] \in Comment
        BY <1>0, <3>2, <3>3, PresentRow
      <3>5. comments'[k.id] \in Comment /\ comments'[k.id].ext = comments[k.id].ext
        BY <3>2, <3>3, <3>4 DEF Comment
      <3>6. \A j \in CommentIds : comments[j] # NoComment => comments'[j] # NoComment
        BY <3>2, <3>5, NoCommentIs
      <3>7. LastId(comments) <= LastId(comments')
        BY <3>6, LastIdGrows
      <3> QED
        BY <3>2, <3>3, <3>5, <3>7, IdsArePositive DEF Tame, Present
    <2> QED
      BY <1>2, <2>1
  <1>6. CASE FetchThread \/ FindExternal \/ StartLinks
    BY <1>2, <1>6, ThreadTyped, FindTyped, StartTyped DEF comVars
  <1> QED
    BY <1>0, <1>1, <1>2, <1>3, <1>4, <1>5, <1>6 DEF Aside, Ends, Imports

LEMMA TellStays ==
    ASSUME Types, ParentsStand, ParentsStand', Tame, NEW i \in CommentIds, Present(i), Present(i)'
    PROVE  Tellable(comments[i])' <=> Tellable(comments[i])
  <1>0. comments[i] \in Comment /\ comments[i].parent \in {0} \cup CommentIds
    BY Typed, PresentRow DEF Comment
  <1>1. /\ comments'[i].ext = comments[i].ext
        /\ comments[i].ext = Local => comments'[i].parent = comments[i].parent
                                      /\ comments'[i].email = comments[i].email
    BY DEF Tame, Present
  <1>2. CASE comments[i].ext # Local
    BY <1>1, <1>2 DEF Tellable, IsLocal
  <1>3. CASE comments[i].ext = Local /\ comments[i].parent = 0
    BY <1>1, <1>3 DEF Tellable, Present
  <1>4. CASE comments[i].ext = Local /\ comments[i].parent # 0
    <2>1. PICK p \in CommentIds : p = comments[i].parent
      BY <1>0, <1>4
    <2>2. Present(p) /\ Present(p)' /\ comments'[i].parent = p
      BY <1>1, <1>4, <2>1, IdsArePositive DEF ParentsStand
    <2>3. /\ comments'[p].ext = comments[p].ext
          /\ comments[p].ext = Local => comments'[p].email = comments[p].email
      BY <2>2 DEF Tame, Present
    <2> QED
      BY <1>1, <1>4, <2>1, <2>2, <2>3 DEF Tellable, IsLocal
  <1> QED
    BY <1>2, <1>3, <1>4

(* A step is fine when it keeps the cover of every reply to tell about,    *)
(* covers what it approves, and leaves a request alone or knowing its row. *)
LEMMA AnnouncingStep ==
    ASSUME Types, ParentsStand, ParentsStand', Announcing, Tame, ~DestroyRaces,
           \A i \in CommentIds :
             Present(i) /\ Present(i)' /\ Tellable(comments[i]) /\ Covered(i) => Covered(i)',
           \A i \in CommentIds :
             Present(i)' /\ comments'[i].status = "approved" /\ Tellable(comments[i])' =>
               Covered(i)' \/ (Present(i) /\ comments[i].status = "approved"),
           \A r \in Requests : req'[r] = req[r] \/ RequestTold(r)'
    PROVE  Announcing'
  <1>1. ASSUME NEW i \in CommentIds, Present(i)', comments'[i].status = "approved", Tellable(comments[i])'
        PROVE  Covered(i)'
    <2>1. CASE Present(i) /\ comments[i].status = "approved"
      <3>1. Tellable(comments[i])
        BY <1>1, <2>1, TellStays
      <3> QED
        BY <1>1, <2>1, <3>1 DEF Announcing
    <2> QED
      BY <1>1, <2>1
  <1>2. ASSUME NEW r \in Requests, req'[r] = req[r]
        PROVE  RequestTold(r)'
    <2>1. CASE req[r].pc \notin {"moderate", "notify"}
      BY <1>2, <2>1 DEF RequestTold
    <2>2. CASE req[r].pc \in {"moderate", "notify"}
      <3>1. PICK i \in CommentIds : i = req[r].id
        BY <2>2, Typed DEF Fits
      <3>2. RequestTold(r)
        BY DEF Announcing
      <3>3. Held
        <4>1. req[r] # Idle
          BY <2>2, IdleFits
        <4> QED
          BY <4>1 DEF Held
      <3>4. /\ i <= LastId(comments) /\ LastId(comments) <= LastId(comments') /\ i \in Nat
            /\ LastId(comments) \in Nat /\ LastId(comments') \in Nat
        BY <2>2, <3>1, <3>2, <3>3, LastIdIsLast, IdsArePositive DEF RequestTold, Tame
      <3>5. i <= LastId(comments') /\ ~(LastId(comments) < i)
        BY <3>4
      <3>6. Present(i)' =>
              /\ Present(i) /\ comments'[i].ext = comments[i].ext
              /\ comments[i].ext = Local => comments'[i].parent = comments[i].parent
                                            /\ comments'[i].email = comments[i].email
        BY <3>5 DEF Tame, Present
      <3>7. Present(i)' => (Tellable(comments[i])' <=> Tellable(comments[i]))
        BY <3>6, TellStays
      <3>8. (req[r].pc = "moderate" /\ req[r].before = "approved" /\ Present(i)' /\ Tellable(comments[i])')
              => Covered(i)'
        BY <3>1, <3>2, <3>6, <3>7 DEF RequestTold
      <3>9. (req[r].pc = "notify" /\ Present(i)') =>
              /\ req[r].row.ext = comments'[i].ext
              /\ req[r].row.ext = Local => /\ req[r].row.parent = comments'[i].parent
                                           /\ req[r].row.email = comments'[i].email
        BY <3>1, <3>2, <3>6 DEF RequestTold, IsLocal
      <3>10. PICK q : q = req[r] /\ q = req'[r] /\ q.id = i
        BY <1>2, <3>1
      <3> QED
        BY <3>5, <3>8, <3>9, <3>10 DEF RequestTold, IsLocal
    <2> QED
      BY <2>1, <2>2
  <1> QED
    BY <1>1, <1>2 DEF Announcing

(* Steps that approve nothing and announce nothing. *)
LEMMA AnnouncingQuiet ==
    ASSUME Types, ParentsStand, ParentsStand', Announcing, Tame, ~DestroyRaces, UNCHANGED req,
           \A i \in CommentIds : Present(i) =>
             (i \in announced \cup abandoned => i \in announced' \cup abandoned'),
           \A i \in CommentIds : comments'[i] # NoComment =>
             (Present(i) /\ comments'[i].status = comments[i].status) \/ comments'[i].ext # Local
    PROVE  Announcing'
  <1>1. \A i \in CommentIds : Present(i) /\ Covered(i) => Covered(i)'
    BY DEF Covered
  <1>2. \A i \in CommentIds :
          Present(i)' /\ comments'[i].status = "approved" /\ Tellable(comments[i])' =>
            Present(i) /\ comments[i].status = "approved"
    BY DEF Tellable, IsLocal, Present
  <1> QED
    BY <1>1, <1>2, AnnouncingStep

(* A request that did not announce goes on to q. *)
LEMMA CoverStays ==
    ASSUME Types, NEW r \in Requests, NEW q, Fits(q), Keep(r, q), req[r].pc # "notify",
           NEW i \in CommentIds, Covered(i),
           i \in announced \cup abandoned => i \in announced' \cup abandoned'
    PROVE  Covered(i)'
  <1>1. \A x \in Requests : req[x].pc = "notify" => req'[x] = req[x]
    BY KeepOne
  <1> QED
    BY <1>1 DEF Covered

LEMMA AnnouncingRead ==
    ASSUME Types, ParentsStand, ParentsStand', Announcing, Tame, ~DestroyRaces, NEW r \in Requests,
           SubmitComment(r) \/ ReadForReply(r) \/ ReadForModeration(r) \/ InsertRefused(r)
    PROVE  Announcing'
  <1>0. UNCHANGED <<comments, announced, abandoned>> /\ req[r].pc # "notify"
    BY IdleFits DEF SubmitComment, ReadForReply, ReadForModeration, InsertRefused, Ask
  <1>1. PICK q : /\ Fits(q) /\ Keep(r, q) /\ q.pc \in {"insert", "reply", "idle", "moderate"}
                 /\ q.pc = "moderate" => /\ q.id \in CommentIds /\ Present(q.id)
                                         /\ q.before = comments[q.id].status
    BY SubmitWrites, ReplyWrites, ReadWrites, IdleFits DEF InsertRefused
  <1>2. \A i \in CommentIds : Covered(i) => Covered(i)'
    BY <1>0, <1>1, CoverStays
  <1>3. req'[r] = q /\ \A x \in Requests \ {r} : req'[x] = req[x]
    BY <1>1, KeepOne
  <1>4. RequestTold(r)'
    <2>1. CASE q.pc # "moderate"
      BY <1>1, <1>3, <2>1 DEF RequestTold
    <2>2. CASE q.pc = "moderate"
      <3>1. PICK i \in CommentIds : i = q.id
        BY <1>1, <2>2
      <3>2. Present(i) /\ i <= LastId(comments) /\ q.before = comments[i].status
        BY <1>1, <2>2, <3>1, LastIdIsLast DEF Present
      <3>3. q.before = "approved" /\ Tellable(comments[i])' => Covered(i)'
        BY <1>0, <1>2, <3>2 DEF Announcing, Tellable, IsLocal, Present
      <3> QED
        BY <1>0, <1>3, <2>2, <3>1, <3>2, <3>3 DEF RequestTold
    <2> QED
      BY <2>1, <2>2
  <1>5. \A i \in CommentIds : Present(i)' /\ comments'[i].status = "approved" =>
                                Present(i) /\ comments[i].status = "approved"
    BY <1>0 DEF Present
  <1> QED
    BY <1>2, <1>3, <1>4, <1>5, AnnouncingStep

LEMMA AnnouncingInsert ==
    ASSUME Types, ParentsStand, ParentsStand', Announcing, Tame, ~DestroyRaces, NEW r \in Requests,
           InsertComment(r) \/ InsertReply(r)
    PROVE  Announcing'
  <1>0. /\ req[r].row \in Comment /\ req[r].row.ext = Local /\ req[r].pc # "notify"
        /\ comments \in Table
    BY InsertWrites, Typed
  <1>1. PICK i \in CommentIds, q \in Request :
          /\ IsNextCommentId(i) /\ Fits(q) /\ Keep(r, q)
          /\ comments' = CreateComment(i, req[r].row)
          /\ announced' = announced \ {i} /\ abandoned' = abandoned \ {i}
          /\ \/ q.pc = "idle" /\ req[r].row.status = "pending"
             \/ q.pc = "notify" /\ q.id = i /\ q.row = req[r].row /\ q.before = "pending"
    BY InsertWrites
  <1>2. PICK c \in Comment : c = req[r].row
    BY <1>0
  <1>3. /\ ~Present(i) /\ comments'[i] = c /\ i <= LastId(comments')
        /\ \A j \in CommentIds \ {i} : comments'[j] = comments[j]
    BY <1>0, <1>1, <1>2, NextIdIsNew
  <1>4. \A j \in CommentIds : Present(j) /\ Covered(j) => Covered(j)'
    BY <1>0, <1>1, <1>3, CoverStays
  <1>5. req'[r] = q /\ \A x \in Requests \ {r} : req'[x] = req[x]
    BY <1>1, KeepOne
  <1>6. RequestTold(r)'
    <2>1. CASE q.pc = "idle"
      BY <1>5, <2>1 DEF RequestTold
    <2>2. CASE q.pc = "notify" /\ q.id = i /\ q.row = req[r].row /\ q.before = "pending"
      BY <1>2, <1>3, <1>5, <2>2 DEF RequestTold
    <2> QED
      BY <1>1, <2>1, <2>2
  <1>7. comments'[i].status = "approved" => Covered(i)'
    <2>1. CASE q.pc = "idle" /\ req[r].row.status = "pending"
      BY <1>2, <1>3, <2>1
    <2>2. CASE q.pc = "notify" /\ q.id = i /\ q.row = req[r].row /\ q.before = "pending"
      BY <1>5, <2>2 DEF Covered
    <2> QED
      BY <1>1, <2>1, <2>2
  <1>8. \A j \in CommentIds \ {i} : Present(j)' <=> Present(j)
    BY <1>3 DEF Present
  <1>9. \A j \in CommentIds : Present(j)' /\ comments'[j].status = "approved" =>
          Covered(j)' \/ (Present(j) /\ comments[j].status = "approved")
    BY <1>3, <1>7, <1>8
  <1> QED
    BY <1>4, <1>5, <1>6, <1>9, AnnouncingStep

LEMMA AnnouncingModerate ==
    ASSUME Types, ParentsStand, ParentsStand', Announcing, Tame, ~DestroyRaces, NEW r \in Requests,
           Moderate(r)
    PROVE  Announcing'
  <1>0. /\ req[r].pc = "moderate" /\ UNCHANGED <<announced, abandoned>> /\ comments \in Table
    BY ModerateWrites, Typed
  <1>1. PICK i \in CommentIds : i = req[r].id
    BY ModerateWrites
  <1>2. CASE ~Present(i)
    <2>1. Keep(r, Idle) /\ UNCHANGED comments
      BY <1>1, <1>2, ModerateWrites
    <2>2. \A j \in CommentIds : Covered(j) => Covered(j)'
      BY <1>0, <2>1, IdleFits, CoverStays
    <2>3. req'[r] = Idle /\ \A x \in Requests \ {r} : req'[x] = req[x]
      BY <2>1, IdleFits, KeepOne
    <2>4. RequestTold(r)'
      BY <2>3, IdleFits DEF RequestTold
    <2>5. \A j \in CommentIds : Present(j)' /\ comments'[j].status = "approved" =>
                                  Present(j) /\ comments[j].status = "approved"
      BY <2>1 DEF Present
    <2> QED
      BY <2>2, <2>3, <2>4, <2>5, AnnouncingStep
  <1>3. CASE Present(i)
    <2>0. \E st \in Decisions, q \in Request :
            /\ Fits(q) /\ Keep(r, q)
            /\ comments'[req[r].id] = [comments[req[r].id] EXCEPT !.status = st]
            /\ \A j \in CommentIds \ {req[r].id} : comments'[j] = comments[j]
            /\ \/ q.pc = "idle" /\ st # "approved"
               \/ /\ q.pc = "notify" /\ q.id = req[r].id /\ q.row = comments'[req[r].id]
                  /\ q.before = req[r].before /\ st = "approved"
      <3>1. ~(Keep(r, Idle) /\ UNCHANGED <<comments, decided>> /\ ~Present(req[r].id))
        BY <1>1, <1>3
      <3>2. PICK st \in Decisions, q \in Request :
              /\ Present(req[r].id) /\ Fits(q) /\ Keep(r, q)
              /\ comments' \in Table
              /\ comments'[req[r].id] = [comments[req[r].id] EXCEPT !.status = st]
              /\ \A j \in CommentIds \ {req[r].id} : comments'[j] = comments[j]
              /\ decided' = [decided EXCEPT ![req[r].id] = st]
              /\ \/ q.pc = "idle" /\ st # "approved"
                 \/ /\ q.pc = "notify" /\ q.id = req[r].id /\ q.row = comments'[req[r].id]
                    /\ q.before = req[r].before /\ st = "approved"
        BY <3>1, ModerateWrites, Zenon
      <3> QED
        BY <3>2
    <2>1. PICK st \in Decisions, q \in Request :
            /\ Fits(q) /\ Keep(r, q)
            /\ comments'[i] = [comments[i] EXCEPT !.status = st]
            /\ \A j \in CommentIds \ {i} : comments'[j] = comments[j]
            /\ \/ q.pc = "idle" /\ st # "approved"
               \/ /\ q.pc = "notify" /\ q.id = i /\ q.row = comments'[i]
                  /\ q.before = req[r].before /\ st = "approved"
      BY <1>1, <2>0
    <2>2. comments[i] \in Comment
      BY <1>0, <1>3, PresentRow
    <2>3. comments'[i] \in Comment /\ comments'[i].status = st
      BY <2>1, <2>2 DEF Comment
    <2>4. \A j \in CommentIds : Present(j)' <=> Present(j)
      BY <2>1, <2>2, <2>3, NoCommentIs DEF Present
    <2>5. \A j \in CommentIds : Covered(j) => Covered(j)'
      BY <1>0, <2>1, CoverStays
    <2>6. req'[r] = q /\ \A x \in Requests \ {r} : req'[x] = req[x]
      BY <2>1, KeepOne
    <2>7. i <= LastId(comments')
      BY <1>3, <2>4, LastIdIsLast DEF Present
    <2>8. RequestTold(r)'
      <3>1. CASE q.pc = "idle"
        BY <2>6, <3>1 DEF RequestTold
      <3>2. CASE q.pc = "notify" /\ q.id = i /\ q.row = comments'[i]
        BY <2>6, <2>7, <3>2 DEF RequestTold
      <3> QED
        BY <2>1, <3>1, <3>2
    <2>9. comments'[i].status = "approved" /\ Tellable(comments[i])' => Covered(i)'
      <3>1. SUFFICES ASSUME st = "approved", Tellable(comments[i])'
                     PROVE  Covered(i)'
        BY <2>3
      <3>2. q.pc = "notify" /\ q.id = i /\ q.before = req[r].before
        BY <2>1, <3>1
      <3>3. CASE q.before # "approved"
        BY <2>6, <3>2, <3>3 DEF Covered
      <3>4. CASE q.before = "approved"
        <4>1. Tellable(comments[i])
          BY <1>3, <2>4, <3>1, TellStays
        <4>2. Covered(i)
          BY <1>0, <1>1, <1>3, <3>2, <3>4, <4>1 DEF Announcing, RequestTold
        <4> QED
          BY <2>5, <4>2
      <3> QED
        BY <3>3, <3>4
    <2>10. \A j \in CommentIds : Present(j)' /\ comments'[j].status = "approved" /\ Tellable(comments[j])' =>
             Covered(j)' \/ (Present(j) /\ comments[j].status = "approved")
      <3> TAKE j \in CommentIds
      <3>1. CASE j = i
        BY <2>9, <3>1
      <3>2. CASE j # i
        BY <2>1, <2>4, <3>2
      <3> QED
        BY <3>1, <3>2
    <2> QED
      BY <2>5, <2>6, <2>8, <2>10, AnnouncingStep
  <1> QED
    BY <1>2, <1>3

(* The request of a reply to tell about enqueues the mail or is counted as *)
(* abandoned.                                                              *)
LEMMA AnnouncingEnd ==
    ASSUME Types, ParentsStand, ParentsStand', Announcing, Tame, ~DestroyRaces, NEW r \in Requests,
           NotifyReplyApproved(r) \/ RequestFails(r)
    PROVE  Announcing'
  <1>0. Keep(r, Idle) /\ UNCHANGED comments /\ announced \subseteq announced' /\ abandoned \subseteq abandoned'
    BY NotifyWrites, FailWrites
  <1>1. req'[r] = Idle /\ \A x \in Requests \ {r} : req'[x] = req[x]
    BY <1>0, IdleFits, KeepOne
  <1>2. RequestTold(r)'
    BY <1>1, IdleFits DEF RequestTold
  <1>3. ASSUME NEW i \in CommentIds, Present(i), Tellable(comments[i]), Covered(i)
        PROVE  Covered(i)'
    <2>1. CASE i \in announced \cup abandoned
      BY <1>0, <2>1 DEF Covered
    <2>2. CASE \E x \in Requests \ {r} : req[x].pc = "notify" /\ req[x].id = i /\ req[x].before # "approved"
      BY <1>1, <2>2 DEF Covered
    <2>3. CASE req[r].pc = "notify" /\ req[r].id = i /\ req[r].before # "approved"
      <3>1. CASE RequestFails(r)
        BY <2>3, <3>1, FailWrites DEF Covered
      <3>2. CASE NotifyReplyApproved(r)
        <4>1. /\ RequestTold(r) /\ req[r].row.status = "approved"
          BY <3>2, NotifyWrites DEF Announcing
        <4>2. /\ req[r].row.ext = comments[i].ext /\ comments[i].ext = Local
              /\ req[r].row.parent = comments[i].parent /\ req[r].row.email = comments[i].email
          BY <1>3, <2>3, <4>1 DEF RequestTold, Tellable, IsLocal
        <4>3. EligibleReply(req[r].row) /\ Transition(r)
          BY <1>3, <2>3, <4>1, <4>2 DEF EligibleReply, Tellable, IsLocal, Transition
        <4>4. i \in announced'
          BY <2>3, <3>2, <4>3, NotifyWrites
        <4> QED
          BY <4>4 DEF Covered
      <3> QED
        BY <3>1, <3>2
    <2> QED
      BY <1>3, <2>1, <2>2, <2>3 DEF Covered
  <1>4. \A i \in CommentIds : Present(i)' /\ comments'[i].status = "approved" =>
                                Present(i) /\ comments[i].status = "approved"
    BY <1>0 DEF Present
  <1> QED
    BY <1>1, <1>2, <1>3, <1>4, AnnouncingStep

LEMMA AnnouncingCrash ==
    ASSUME Types, ParentsStand, ParentsStand', Announcing, Tame, ~DestroyRaces, CrashProcess
    PROVE  Announcing'
  <1>0. /\ UNCHANGED <<comments, announced>> /\ req' = [r \in Requests |-> Idle]
        /\ abandoned' = abandoned \cup {req[r].id : r \in {s \in Requests : req[s].pc = "notify"}}
    BY CrashTyped
  <1>1. \A r \in Requests : RequestTold(r)'
    BY <1>0, IdleFits DEF RequestTold
  <1>2. \A i \in CommentIds : Covered(i) => Covered(i)'
    BY <1>0 DEF Covered
  <1>3. \A i \in CommentIds : Present(i)' /\ comments'[i].status = "approved" =>
                                Present(i) /\ comments[i].status = "approved"
    BY <1>0 DEF Present
  <1> QED
    BY <1>1, <1>2, <1>3, AnnouncingStep

LEMMA AnnouncingKept ==
    ASSUME Types, OneBatch, Threading, ParentsStand, Announcing, ~DestroyRaces, [Next]_vars
    PROVE  Announcing'
  <1>0. Tame /\ ParentsStand' /\ comments \in Table
    BY StepIsTame, ParentsKept, Typed
  <1>1. ASSUME UNCHANGED <<req, announced, abandoned, comments>>
        PROVE  Announcing'
    BY <1>0, <1>1, AnnouncingQuiet, IdsArePositive DEF Present
  <1>2. CASE CreateExternal
    <2>1. PICK i \in CommentIds, c \in Comment :
            /\ IsNextCommentId(i) /\ comments' = CreateComment(i, c) /\ c.ext = fetch.ext
            /\ announced' = announced \ {i} /\ abandoned' = abandoned \ {i}
      BY <1>2, CreateTyped
    <2>2. UNCHANGED req /\ fetch.ext # Local
      BY <1>2, CreateTyped, CommentsAssumption DEF OneBatch
    <2>3. /\ ~Present(i) /\ comments'[i] = c /\ \A j \in CommentIds \ {i} : comments'[j] = comments[j]
      BY <1>0, <2>1, NextIdIsNew
    <2>4. \A j \in CommentIds : Present(j) =>
            (j \in announced \cup abandoned => j \in announced' \cup abandoned')
      BY <2>1, <2>3
    <2>5. \A j \in CommentIds : comments'[j] # NoComment =>
            (Present(j) /\ comments'[j].status = comments[j].status) \/ comments'[j].ext # Local
      BY <2>1, <2>2, <2>3, IdsArePositive DEF Present
    <2> QED
      BY <1>0, <2>2, <2>4, <2>5, AnnouncingQuiet
  <1>3. CASE UpdateExternal
    <2>1. /\ UNCHANGED <<req, announced, abandoned>>
          /\ \A j \in CommentIds : comments'[j] # NoComment =>
               Present(j) /\ comments'[j].status = comments[j].status
      BY <1>3, UpdateTyped, IdsArePositive DEF Present
    <2> QED
      BY <1>0, <2>1, AnnouncingQuiet
  <1>4. CASE LinkReply
    <2>0. UNCHANGED <<req, announced, abandoned>>
      BY <1>4, LinkTyped
    <2>1. CASE ~UNCHANGED comments
      <3>1. PICK k \in fetch.known : \E p \in ParentRow(k.ext) :
               /\ Present(k.id) /\ comments'[k.id] = [comments[k.id] EXCEPT !.parent = p]
               /\ \A j \in CommentIds \ {k.id} : comments'[j] = comments[j]
        BY <1>4, <2>1, LinkTyped
      <3>2. PICK p \in ParentRow(k.ext) :
               /\ Present(k.id) /\ comments'[k.id] = [comments[k.id] EXCEPT !.parent = p]
               /\ \A j \in CommentIds \ {k.id} : comments'[j] = comments[j]
        BY <3>1
      <3>3. k.id \in CommentIds
        BY KnownRow
      <3>4. comments'[k.id].status = comments[k.id].status
        BY <1>0, <3>2, <3>3, PresentRow DEF Comment
      <3> QED
        BY <1>0, <2>0, <3>2, <3>3, <3>4, AnnouncingQuiet, IdsArePositive DEF Present
    <2> QED
      BY <1>1, <2>0, <2>1
  <1>5. CASE Resting \/ FetchFails \/ FetchThread \/ FindExternal \/ StartLinks
    BY <1>1, <1>5, RestingTyped, FetchFailsTyped, ThreadTyped, FindTyped, StartTyped DEF comVars
  <1>6. CASE CronStep \/ MailStep \/ RunStep \/ PassTime \/ UNCHANGED vars
    BY <1>1, <1>6, CronTyped, MailTyped, RunTyped, TimeTyped DEF comVars, vars
  <1>7. CASE CrashProcess
    BY <1>0, <1>7, AnnouncingCrash
  <1>8. CASE DestroyComment(Held) \/ DestroyArticle(Held)
    <2>1. PICK held \in BOOLEAN : held = Held
      BY DEF Held
    <2>2. /\ \A j \in CommentIds : comments'[j] \in {comments[j], NoComment}
          /\ UNCHANGED <<req, announced, abandoned>>
      BY <1>8, <2>1, DestroyWrites
    <2> QED
      BY <1>0, <2>2, AnnouncingQuiet, IdsArePositive DEF Present
  <1>9. CASE ToggleComments
    BY <1>1, <1>9 DEF ToggleComments
  <1>10. ASSUME NEW r \in Requests,
                \/ SubmitComment(r) \/ InsertComment(r) \/ InsertRefused(r)
                \/ ReadForModeration(r) \/ Moderate(r) \/ ReadForReply(r) \/ InsertReply(r)
                \/ NotifyReplyApproved(r) \/ RequestFails(r)
         PROVE  Announcing'
    BY <1>0, <1>10, AnnouncingRead, AnnouncingInsert, AnnouncingModerate, AnnouncingEnd
  <1> QED
    BY <1>2, <1>3, <1>4, <1>5, <1>6, <1>7, <1>8, <1>9, <1>10
       DEF Next, FetchStep, Resting, WebStep

-----------------------------------------------------------------------------
(* The theorems.                                                           *)

LEMMA InitRows ==
    ASSUME Init
    PROVE  /\ comments \in Table
           /\ \A i \in CommentIds : Present(i) =>
                /\ IsLocal(comments[i])
                /\ comments[i].parent = 0 \/ (Present(comments[i].parent) /\ comments[i].status # "approved")
  <1>1. PICK b \in Budgets :
          comments = [i \in CommentIds |-> IF i <= Len(b.seed) THEN b.seed[i] ELSE NoComment]
    BY DEF Init, ComInit
  <1>2. /\ b.seed \in Seq(Comment) /\ Len(b.seed) \in Nat
        /\ \A n \in 1..Len(b.seed) : b.seed[n] \in Comment
    BY CommentsAssumption
  <1>3. \A i \in CommentIds : i <= Len(b.seed) => i \in 1..Len(b.seed)
    BY <1>2, CommentsAssumption DEF CommentIds
  <1>4. \A i \in CommentIds : comments[i] = IF i <= Len(b.seed) THEN b.seed[i] ELSE NoComment
    BY <1>1
  <1>5. comments \in Table
    BY <1>1, <1>2, <1>3 DEF Table
  <1>6. ASSUME NEW i \in CommentIds, Present(i)
        PROVE  /\ IsLocal(comments[i])
               /\ comments[i].parent = 0 \/ (Present(comments[i].parent) /\ comments[i].status # "approved")
    <2>1. i \in 1..Len(b.seed) /\ comments[i] = b.seed[i] /\ comments[i] \in Comment
      BY <1>2, <1>3, <1>4, <1>6 DEF Present
    <2>2. /\ IsLocal(comments[i])
          /\ comments[i].parent # 0 => comments[i].parent < i /\ comments[i].status # "approved"
      BY <2>1, SeedAssumption DEF IsLocal
    <2>3. ASSUME comments[i].parent # 0
          PROVE  Present(comments[i].parent)
      <3>1. PICK p \in CommentIds : p = comments[i].parent
        BY <2>1, <2>3 DEF Comment
      <3>2. p < i /\ p \in Nat /\ i \in Nat
        BY <2>2, <2>3, <3>1, IdsArePositive
      <3>3. p \in 1..Len(b.seed) /\ p <= Len(b.seed)
        BY <1>2, <2>1, <3>2, CommentsAssumption DEF CommentIds
      <3>4. comments[p] \in Comment
        BY <1>2, <1>4, <3>3
      <3> QED
        BY <3>1, <3>4, NoCommentIs, IdsArePositive DEF Present
    <2> QED
      BY <2>2, <2>3
  <1> QED
    BY <1>5, <1>6

LEMMA InitTypes ==
    ASSUME Init
    PROVE  Types /\ OneBatch /\ fetch = NoFetch /\ NoFetch.stage = "none"
  <1>1. RunInv /\ RunTypeOK
    BY RunInitInv DEF Init, RunInv
  <1>2. ComTypeOK
    BY InitRows, IdleFits DEF Init, ComInit, ComTypeOK, Table, Fits
  <1>3. fetch \in Fetch /\ fetch = NoFetch /\ NoFetch.stage = "none"
    BY NoFetchIs DEF Init
  <1>4. TypeOK
    BY <1>1, <1>2, <1>3 DEF Init, TypeOK
  <1>5. \A r \in Requests : Fits(req[r])
    BY IdleFits DEF Init, ComInit
  <1> QED
    BY <1>1, <1>3, <1>4, <1>5 DEF Types, OneBatch, Busy

LEMMA InitRest ==
    ASSUME Init
    PROVE  /\ OneRowEach /\ DecisionStands /\ MailsCounted /\ StampFollowsEnqueue
           /\ Threading /\ ParentsStand /\ Announcing
  <1>1. fetch.stage = "none" /\ \A r \in Requests : req[r].pc = "idle"
    BY InitTypes, IdleFits DEF Init, ComInit
  <1>2. OneRowEach
    BY <1>1, InitRows DEF OneRowEach
  <1>3. DecisionStands /\ MailsCounted /\ StampFollowsEnqueue
    BY DEF Init, ComInit, DecisionStands, MailsCounted, StampFollowsEnqueue
  <1>4. Threading
    BY <1>1 DEF Threading, Busy
  <1>5. ParentsStand
    BY InitRows DEF ParentsStand
  <1>6. \A i \in CommentIds : Present(i) /\ Tellable(comments[i]) => comments[i].status # "approved"
    BY InitRows DEF Tellable, Present
  <1>7. \A r \in Requests : RequestTold(r)
    BY <1>1 DEF RequestTold
  <1> QED
    BY <1>2, <1>3, <1>4, <1>5, <1>6, <1>7 DEF Announcing

(* The tables, the requests, the job's locals and the ghosts keep their    *)
(* types: a batch is of one article's thread, and a request that writes by *)
(* id has read a row.                                                      *)
THEOREM TypesHold == Spec => [](Types /\ OneBatch)
  <1>1. Init => Types /\ OneBatch
    BY InitTypes
  <1>2. Types /\ OneBatch /\ [Next]_vars => (Types /\ OneBatch)'
    BY StepKinds, BatchKept
  <1> QED
    BY <1>1, <1>2, PTL DEF Spec

(* Fetching a thread again, at any moment beside any number of moderators, *)
(* visitors and deletions, leaves every decision of a moderator standing   *)
(* and never makes a second row for a comment (UpsertExternal).            *)
THEOREM DecisionsOutlive == Spec => []DecisionsOutliveFetches
  <1>1. Init => Types /\ OneBatch /\ OneRowEach /\ DecisionStands
    BY InitTypes, InitRest
  <1>2. Types /\ OneBatch /\ OneRowEach /\ DecisionStands /\ [Next]_vars
          => (Types /\ OneBatch /\ OneRowEach /\ DecisionStands)'
    BY StepKinds, BatchKept, OneRowKept, DecisionKept
  <1>3. OneRowEach /\ DecisionStands => DecisionsOutliveFetches
    BY DEF OneRowEach, DecisionStands, DecisionsOutliveFetches
  <1> QED
    BY <1>1, <1>2, <1>3, PTL DEF Spec

(* A notification row mails once, plus once per run of a mail that was cut *)
(* off: refused mails, failing reads and retries add none                  *)
(* (sendReplyNotification).                                                *)
THEOREM ReplyMails == Spec => []ReplyMailRepeatsOnlyAfterCut
  <1>1. Init => Types /\ OneBatch /\ MailsCounted
    BY InitTypes, InitRest
  <1>2. Types /\ OneBatch /\ MailsCounted /\ [Next]_vars => (Types /\ OneBatch /\ MailsCounted)'
    BY StepKinds, BatchKept, MailsKept
  <1>3. MailsCounted => ReplyMailRepeatsOnlyAfterCut
    BY DEF MailsCounted, ReplyMailRepeatsOnlyAfterCut
  <1> QED
    BY <1>1, <1>2, <1>3, PTL DEF Spec

(* The hourly tick, whatever fails in it and wherever it is cut off, never *)
(* stores a fetch time without a fetch queued at that time                 *)
(* (enqueueDueCommentFetches).                                             *)
THEOREM StampFollows == Spec => []StampFollowsEnqueue
  <1>1. Init => Types /\ OneBatch /\ StampFollowsEnqueue
    BY InitTypes, InitRest
  <1>2. Types /\ OneBatch /\ StampFollowsEnqueue /\ [Next]_vars
          => (Types /\ OneBatch /\ StampFollowsEnqueue)'
    BY StepKinds, BatchKept, StampKept
  <1> QED
    BY <1>1, <1>2, PTL DEF Spec

(* Unless the id of a destroyed row is given out again under the import, a *)
(* batch that is through has every reply below its stored parent, in any   *)
(* order of arrival and with any rows destroyed meanwhile                  *)
(* (upsertBatch).                                                       *)
THEOREM BatchThreaded == ~DestroyRaces /\ Spec => []BatchIsThreaded
  <1> SUFFICES ASSUME ~DestroyRaces PROVE Spec => []BatchIsThreaded
    OBVIOUS
  <1>1. Init => Types /\ OneBatch /\ OneRowEach /\ Threading
    BY InitTypes, InitRest
  <1>2. Types /\ OneBatch /\ OneRowEach /\ Threading /\ [Next]_vars
          => (Types /\ OneBatch /\ OneRowEach /\ Threading)'
    BY StepKinds, BatchKept, OneRowKept, ThreadingKept
  <1>3. Threading => BatchIsThreaded
    BY DEF Threading, BatchIsThreaded, Below
  <1> QED
    BY <1>1, <1>2, <1>3, PTL DEF Spec

(* Under the same condition, however requests interleave, every reply that *)
(* a moderator's decision leaves approved with someone to tell has had its *)
(* notification queued, is in a request about to do so, or lost it to a    *)
(* failed request (moderateComment, notifyReplyApproved).                  *)
THEOREM ReplyAnnounced == ~DestroyRaces /\ Spec => []ApprovedReplyAnnounced
  <1> SUFFICES ASSUME ~DestroyRaces PROVE Spec => []ApprovedReplyAnnounced
    OBVIOUS
  <1>1. Init => Types /\ OneBatch /\ OneRowEach /\ Threading /\ ParentsStand /\ Announcing
    BY InitTypes, InitRest
  <1>2. Types /\ OneBatch /\ OneRowEach /\ Threading /\ ParentsStand /\ Announcing /\ [Next]_vars
          => (Types /\ OneBatch /\ OneRowEach /\ Threading /\ ParentsStand /\ Announcing)'
    BY StepKinds, BatchKept, OneRowKept, ThreadingKept, ParentsKept, AnnouncingKept
  <1>3. Announcing => ApprovedReplyAnnounced
    BY DEF Announcing, Covered, Tellable, EligibleReply, ApprovedReplyAnnounced
  <1> QED
    BY <1>1, <1>2, <1>3, PTL DEF Spec
=============================================================================
