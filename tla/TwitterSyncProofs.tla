------------------------- MODULE TwitterSyncProofs -------------------------
(***************************************************************************)
(* Proofs about TwitterSync: a tweet has one article, stored media is not  *)
(* left behind, the stored user id belongs to the username, and the cursor *)
(* passes no tweet that no run came to.                                    *)
(***************************************************************************)
EXTENDS TwitterSync, FiniteSetTheorems, WellFoundedInduction, TLAPS

(* The tweets a run works on were posted; a run that still asks for a page *)
(* may ask for one; the transaction is about a tweet.                      *)
RunTweets ==
    /\ run.got \subseteq Tweets /\ run.todo \subseteq Tweets
    /\ run.visited \subseteq Tweets /\ run.dropped \subseteq Tweets
    /\ run.pc \in {"resolve", "fetch"} => run.pages < MaxPages
    /\ run.pc = "insert" => run.todo # {}

Types == TypeOK /\ RunTweets

(* What keeps a tweet at one article: the row of its article names it      *)
(* unless it is unlinked, and so no article has the tweet of the           *)
(* transaction unless that is unlinked.                                    *)
Linked == \A i \in Posts : \A t \in articles[i].tweets : articles[i].url = t \/ t \in unlinked

NewHere ==
    run.pc = "insert" =>
        \A i \in Posts : Min(run.todo) \in articles[i].tweets => Min(run.todo) \in unlinked

OnRecord == Linked /\ NewHere /\ OneArticlePerTweet

(* An open settings request read the username and the start date in force. *)
ReadIsCurrent ==
    \A a \in Admins : req[a].open =>
        req[a].read.username = row.username /\ req[a].read.start = row.start

Identity ==
    /\ ReadIsCurrent
    /\ UserIdMatchesUsername
    /\ run.pc \notin {"idle", "resolve"} => run.uid = run.cfg.username
    /\ run.pc = "resolve" => run.got = {}

(* The tweets the run is to archive. *)
Scope == {t \in Tweets : author[t] = run.uid /\ InScope(t, run.cfg)}

(* The pages fetched so far hold a stretch of the scope without a gap.     *)
NoGap ==
    \A u, w \in run.got, t \in Scope : u <= t /\ t <= w => t \in run.got

(* After the last page, every tweet of the scope up to the newest one that *)
(* came is still to be archived, was come to, or was cut off by a limit.   *)
Accounted ==
    \A t \in Scope, u \in run.got :
        t <= u => t \in run.todo \cup run.visited \cup run.dropped

Archiving == {"archive", "insert", "finish"}

CursorInv ==
    /\ row.since = 0 \/ row.since \in Tweets
    /\ run.pc = "fetch" => NoGap
    /\ run.pc \in Archiving /\ ~run.cancelled => Accounted
    /\ run.pc = "finish" => run.todo = {}
    /\ CursorSkipsNothing

-----------------------------------------------------------------------------
(* The operators of the model.                                             *)

LEMMA LeastExists ==
    ASSUME NEW A, A \subseteq Nat, A # {}
    PROVE  \E m \in A : \A x \in A : m <= x
  <1> DEFINE R == {p \in Nat \X Nat : p[1] < p[2]}
  <1>1. IsWellFoundedOn(R, Nat)
    BY NatLessThanWellFounded DEF OpToRel
  <1>2. PICK m \in A : \A x \in A : ~(<<x, m>> \in R)
    <2> HIDE DEF R
    <2> QED
      BY <1>1, WFMin
  <1>3. \A x \in A : m <= x
    <2> TAKE x \in A
    <2>1. x \in Nat /\ m \in Nat /\ ~(<<x, m>> \in R)
      BY <1>2
    <2> QED
      BY <2>1
  <1> QED
    BY <1>3

LEMMA MinIsIn ==
    ASSUME NEW S, S \subseteq Nat, S # {}
    PROVE  Min(S) \in S
  BY LeastExists DEF Min

LEMMA MaxIsIn ==
    ASSUME NEW N \in Nat, NEW S, S \subseteq 1..N, S # {}
    PROVE  Max(S) \in S
  <1> DEFINE A == {N - x : x \in S}
  <1>1. A \subseteq Nat /\ A # {}
    <2>1. PICK x \in S : TRUE
      OBVIOUS
    <2>2. \A y \in S : N - y \in Nat
      OBVIOUS
    <2> QED
      BY <2>1, <2>2
  <1>2. PICK m \in A : \A y \in A : m <= y
    <2> HIDE DEF A
    <2> QED
      BY <1>1, LeastExists
  <1>3. PICK x \in S : m = N - x
    BY <1>2
  <1>4. \A y \in S : x >= y
    <2> TAKE y \in S
    <2>1. N - y \in A /\ x \in 1..N /\ y \in 1..N
      BY <1>3
    <2>2. N - x <= N - y
      BY <1>2, <1>3, <2>1
    <2> QED
      BY <2>1, <2>2
  <1> QED
    BY <1>4 DEF Max

(* NewestOf takes an upper segment. *)
LEMMA NewestIsUpper ==
    ASSUME NEW N \in Nat, NEW S, S \subseteq 1..N, NEW k \in Nat,
           NEW u \in NewestOf(S, k), NEW t \in S, u <= t
    PROVE  t \in NewestOf(S, k)
  <1> DEFINE A(x) == {v \in S : v > x}
  <1>1. IsFiniteSet(1..N)
    BY FS_Interval
  <1>2. IsFiniteSet(S)
    BY <1>1, FS_Subset
  <1>3. A(t) \subseteq A(u) /\ A(u) \subseteq S
    <2>1. \A v \in S : v \in Int /\ u \in Int /\ t \in Int
      BY DEF NewestOf
    <2>2. \A v \in S : v > t => v > u
      BY <2>1
    <2> QED
      BY <2>2
  <1>4. IsFiniteSet(A(u))
    BY <1>2, <1>3, FS_Subset
  <1>5. Cardinality(A(t)) <= Cardinality(A(u))
    <2> HIDE DEF A
    <2> QED
      BY <1>3, <1>4, FS_Subset
  <1>6. Cardinality(A(t)) \in Nat /\ Cardinality(A(u)) \in Nat
    <2>1. IsFiniteSet(A(t))
      <3> HIDE DEF A
      <3> QED
        BY <1>3, <1>4, FS_Subset
    <2> QED
      BY <1>4, <2>1, FS_CardinalityType
  <1>7. Cardinality(A(u)) < k
    BY DEF NewestOf
  <1>8. Cardinality(A(t)) < k
    <2> HIDE DEF A
    <2> QED
      BY <1>5, <1>6, <1>7
  <1> QED
    BY <1>8 DEF NewestOf

LEMMA LimitedSubset ==
    ASSUME NEW got, NEW cfg
    PROVE  Limited(got, cfg) \subseteq got
  BY DEF Limited, NewestOf

(* The tweets are numbered without a gap. *)
LEMMA TweetCount ==
    ASSUME TypeOK
    PROVE  /\ Cardinality(Tweets) \in 0..MaxTweets
           /\ Tweets = 1..Cardinality(Tweets)
           /\ author \in [Tweets -> Accounts]
           /\ Tweets \subseteq Ids
  <1>1. PICK n \in 0..MaxTweets : author \in [1..n -> Accounts]
    BY DEF TypeOK
  <1>2. Tweets = 1..n /\ n \in Nat
    BY <1>1 DEF Tweets
  <1>3. Cardinality(1..n) = n
    BY <1>2, FS_Interval
  <1> QED
    BY <1>1, <1>2, <1>3, TwitterSyncAssumption DEF Ids

LEMMA NoArticleType == NoArticle \in Article /\ NoArticle.tweets = {} /\ NoArticle.url = 0
  BY TwitterSyncAssumption DEF NoArticle, Article

LEMMA NoRunType == FreshRow \in Row /\ NoRun \in Run /\ NoRequest \in [open : BOOLEAN, read : Row]
  <1>1. FreshRow \in Row
    BY TwitterSyncAssumption DEF FreshRow, Row
  <1> QED
    BY <1>1, TwitterSyncAssumption DEF NoRun, Run, NoRequest

-----------------------------------------------------------------------------
(* Types.                                                                  *)

LEMMA InitTypes ==
    ASSUME Init
    PROVE  Types
  <1>1. author \in [1..0 -> Accounts] /\ 0 \in 0..MaxTweets
    BY TwitterSyncAssumption DEF Init
  <1>2. TypeOK
    <2>1. row \in Row /\ run \in Run /\ req \in [Admins -> [open : BOOLEAN, read : Row]]
      BY NoRunType DEF Init
    <2>2. edits \in 0..MaxEdits /\ faults \in 0..MaxFaults
      BY TwitterSyncAssumption DEF Init
    <2>3. articles \in [Posts -> Article] /\ \A i \in Posts : articles[i].tweets \subseteq Tweets
      BY NoArticleType DEF Init
    <2> QED
      BY <1>1, <2>1, <2>2, <2>3 DEF Init, TypeOK
  <1> QED
    BY <1>2 DEF Init, Types, RunTweets, NoRun

(* The settings requests and the run leave the tweets alone. *)
LEMMA SiteTypes ==
    ASSUME Types, UNCHANGED author, row' \in Row,
           req' \in [Admins -> [open : BOOLEAN, read : Row]], run' \in Run,
           articles' \in [Posts -> Article], \A i \in Posts : articles'[i].tweets \subseteq Tweets,
           loose' \subseteq Tweets, unlinked' \subseteq Tweets, covered' \subseteq Tweets,
           edits' \in 0..MaxEdits, faults' \in 0..MaxFaults, leaked' \in BOOLEAN
    PROVE  TypeOK'
  BY DEF Types, TypeOK, Tweets

LEMMA Typed ==
    ASSUME Types
    PROVE  /\ row \in Row /\ req \in [Admins -> [open : BOOLEAN, read : Row]]
           /\ run \in Run /\ articles \in [Posts -> Article]
           /\ \A i \in Posts : articles[i].tweets \subseteq Tweets
           /\ loose \subseteq Tweets /\ unlinked \subseteq Tweets /\ covered \subseteq Tweets
           /\ edits \in 0..MaxEdits /\ faults \in 0..MaxFaults /\ leaked \in BOOLEAN
           /\ Fault => faults' \in 0..MaxFaults
           /\ Edit => edits' \in 0..MaxEdits
  BY TwitterSyncAssumption DEF Types, TypeOK, Fault, Edit

(* A post on the record of an article, for Crosspost and EditURL.           *)
LEMMA ArticleTypes ==
    ASSUME Types, NEW i \in Posts, NEW slug \in 0..MaxTweets, NEW url \in 0..MaxTweets,
           NEW tweets \in SUBSET Ids,
           articles' = [articles EXCEPT ![i] = [slug |-> slug, tweets |-> tweets, url |-> url]]
    PROVE  articles' \in [Posts -> Article] /\ \A j \in Posts : articles'[j].tweets \subseteq Tweets \cup tweets
  <1> DEFINE new == [slug |-> slug, tweets |-> tweets, url |-> url]
  <1>1. new \in Article /\ new.tweets = tweets
    BY DEF Article
  <1>2. /\ articles \in [Posts -> Article] /\ \A j \in Posts : articles[j].tweets \subseteq Tweets
        /\ articles' = [articles EXCEPT ![i] = new]
    BY Typed
  <1> HIDE DEF new
  <1>3. \A j \in Posts : articles'[j] = IF j = i THEN new ELSE articles[j]
    BY <1>2
  <1> QED
    BY <1>1, <1>2, <1>3

(* What a crosspost does to the article i. *)
Posted(i, t) ==
    \/ /\ articles' = [articles EXCEPT ![i] = [slug |-> articles[i].slug, url |-> t,
                                             tweets |-> articles[i].tweets \cup {t}]]
       /\ unlinked' = unlinked \cup Unlinks(i)
    \/ /\ articles' = [articles EXCEPT ![i] = [slug |-> articles[i].slug, url |-> articles[i].url,
                                             tweets |-> articles[i].tweets \cup {t}]]
       /\ unlinked' = unlinked \cup {t}

(* A new tweet takes the next number. *)
LEMMA PostTypes ==
    ASSUME Types, NEW u \in Accounts, PostTweet(u) \/ Crosspost(u)
    PROVE  /\ Types'
           /\ \E n \in Nat :
                /\ Tweets = 1..n /\ Tweets' = 1..(n + 1)
                /\ \A t \in Tweets : author'[t] = author[t]
                /\ UNCHANGED <<row, req, run, loose, covered, leaked>>
                /\ \/ UNCHANGED <<articles, unlinked>>
                   \/ run.pc = "idle" /\ \E i \in Posts : Posted(i, n + 1)
  <1> DEFINE n == Cardinality(Tweets)
  <1>1. n \in 0..MaxTweets /\ Tweets = 1..n /\ author \in [Tweets -> Accounts] /\ n \in Nat
    BY TweetCount DEF Types
  <1>2. /\ n < MaxTweets
        /\ author' = [t \in 1..(n + 1) |-> IF t \in Tweets THEN author[t] ELSE u]
    <2>1. CASE PostTweet(u)
      BY <2>1 DEF PostTweet
    <2>2. CASE Crosspost(u)
      <3>1. /\ n + 1 <= MaxTweets
            /\ author' = [t \in 1..(n + 1) |-> IF t = n + 1 THEN u ELSE author[t]]
        BY <2>2 DEF Crosspost
      <3>2. \A t \in 1..(n + 1) : (t = n + 1) <=> ~(t \in Tweets)
        BY <1>1
      <3>3. n < MaxTweets
        BY <1>1, <3>1, TwitterSyncAssumption
      <3> HIDE DEF n
      <3> QED
        BY <3>1, <3>2, <3>3
    <2> QED
      BY <2>1, <2>2
  <1> HIDE DEF n
  <1>3. /\ author' \in [1..(n + 1) -> Accounts] /\ n + 1 \in 0..MaxTweets
        /\ Tweets' = 1..(n + 1) /\ \A t \in Tweets : author'[t] = author[t]
    BY <1>1, <1>2, TwitterSyncAssumption DEF Tweets
  <1>4. /\ UNCHANGED <<row, req, run, loose, edits, covered, leaked>>
        /\ \/ UNCHANGED <<articles, unlinked, faults>>
           \/ /\ run.pc = "idle" /\ \E i \in Posts : Posted(i, n + 1)
              /\ UNCHANGED faults \/ Fault
    <2>1. CASE PostTweet(u)
      BY <2>1 DEF PostTweet
    <2>2. CASE Crosspost(u)
      <3>1. PICK i \in Posts :
              \/ /\ articles' = [articles EXCEPT ![i].tweets = @ \cup {n + 1}, ![i].url = n + 1]
                 /\ unlinked' = unlinked \cup Unlinks(i) /\ UNCHANGED faults
              \/ /\ articles' = [articles EXCEPT ![i].tweets = @ \cup {n + 1}]
                 /\ unlinked' = unlinked \cup {n + 1} /\ Fault
        BY <2>2 DEF Crosspost, n
      <3>2. articles \in [Posts -> Article] /\ articles[i] \in Article
        BY Typed
      <3>3. Posted(i, n + 1)
        BY <3>1, <3>2 DEF Posted, Article
      <3> QED
        BY <2>2, <3>1, <3>3 DEF Crosspost
    <2> QED
      BY <2>1, <2>2
  <1>5. Tweets \subseteq Tweets' /\ n + 1 \in Tweets' /\ Tweets' \subseteq Ids
    BY <1>1, <1>3, TwitterSyncAssumption DEF Ids
  <1>6. TypeOK'
    <2>1. /\ articles' \in [Posts -> Article] /\ unlinked' \subseteq Tweets'
          /\ \A i \in Posts : articles'[i].tweets \subseteq Tweets'
      <3>1. CASE UNCHANGED <<articles, unlinked>>
        BY <1>5, <3>1, Typed
      <3>2. ASSUME NEW i \in Posts, Posted(i, n + 1)
            PROVE  <2>1
        <4>1. /\ articles[i].slug \in 0..MaxTweets /\ articles[i].url \in 0..MaxTweets
              /\ articles[i].tweets \subseteq Tweets /\ unlinked \subseteq Tweets
          BY Typed DEF Article
        <4> DEFINE new == articles[i].tweets \cup {n + 1}
        <4>2. /\ new \subseteq Tweets' /\ new \in SUBSET Ids /\ n + 1 \in 0..MaxTweets
              /\ \E url \in 0..MaxTweets :
                    articles' = [articles EXCEPT ![i] = [slug |-> articles[i].slug, tweets |-> new,
                                                         url |-> url]]
          BY <1>3, <1>5, <3>2, <4>1 DEF Posted
        <4> HIDE DEF new
        <4>3. articles' \in [Posts -> Article] /\ \A j \in Posts : articles'[j].tweets \subseteq Tweets'
          <5>1. articles' \in [Posts -> Article]
                /\ \A j \in Posts : articles'[j].tweets \subseteq Tweets \cup new
            BY <4>1, <4>2, ArticleTypes
          <5> QED
            BY <1>5, <4>2, <5>1
        <4>4. unlinked' \subseteq Tweets'
          BY <1>5, <3>2, <4>1 DEF Posted, Unlinks
        <4> QED
          BY <4>3, <4>4
      <3> QED
        BY <1>4, <3>1, <3>2
    <2>2. /\ loose' \subseteq Tweets' /\ covered' \subseteq Tweets' /\ edits' \in 0..MaxEdits
          /\ faults' \in 0..MaxFaults
      BY <1>4, <1>5, Typed
    <2> QED
      BY <1>3, <1>4, <2>1, <2>2, Typed DEF TypeOK
  <1>7. RunTweets'
    BY <1>4, <1>5 DEF Types, RunTweets
  <1> QED
    BY <1>1, <1>3, <1>4, <1>6, <1>7 DEF Types

(* What a step that posts nothing may do to a run. *)
LEMMA QuietTypes ==
    ASSUME Types, UNCHANGED <<author, run>>, row' \in Row,
           req' \in [Admins -> [open : BOOLEAN, read : Row]],
           articles' \in [Posts -> Article], \A i \in Posts : articles'[i].tweets \subseteq Tweets,
           loose' \subseteq Tweets, unlinked' \subseteq Tweets, covered' \subseteq Tweets,
           edits' \in 0..MaxEdits, faults' \in 0..MaxFaults, leaked' \in BOOLEAN
    PROVE  Types'
  BY SiteTypes, Typed DEF Types, RunTweets, Tweets

LEMMA OverlayType ==
    ASSUME Types, NEW read, NEW enabled \in BOOLEAN, NEW username \in Accounts \cup {NoAccount},
           NEW start \in StartDates
    PROVE  Overlay(read, enabled, username, start) \in Row
  <1>1. row.userId \in Accounts \cup {NoAccount} /\ row.since \in 0..MaxTweets
        /\ 0 \in 0..MaxTweets
    BY Typed, TwitterSyncAssumption DEF Row
  <1> QED
    BY <1>1 DEF Overlay, Row

LEMMA EditTypes ==
    ASSUME Types,
           RenameArticle \/ EditURL \/ DeleteArticle \/ \E a \in Admins :
              AskUpdate(a) \/ CommitUpdate(a) \/ RejectUpdate(a)
    PROVE  Types'
  <1>0. /\ Tweets \subseteq Ids /\ 0 \in 0..MaxTweets /\ Ids \subseteq 0..MaxTweets
        /\ \A i \in Posts :
              /\ articles[i] = [slug |-> articles[i].slug, tweets |-> articles[i].tweets,
                                url |-> articles[i].url]
              /\ articles[i].slug \in 0..MaxTweets /\ articles[i].url \in 0..MaxTweets
              /\ articles[i].tweets \subseteq Tweets /\ Unlinks(i) \subseteq Tweets
    <2>1. \A i \in Posts : articles[i] \in Article /\ articles[i].tweets \subseteq Tweets
      BY Typed
    <2>2. Tweets \subseteq Ids
      BY TweetCount DEF Types
    <2> QED
      BY <2>1, <2>2, TwitterSyncAssumption DEF Article, Unlinks, Ids
  <1>1. CASE RenameArticle
    <2>1. PICK i \in Posts : articles' = [articles EXCEPT ![i].slug = 0]
      BY <1>1 DEF RenameArticle
    <2>2. articles' = [articles EXCEPT ![i] = [slug |-> 0, tweets |-> articles[i].tweets,
                                               url |-> articles[i].url]]
      <3>1. [articles[i] EXCEPT !.slug = 0]
              = [slug |-> 0, tweets |-> articles[i].tweets, url |-> articles[i].url]
        <4>1. articles[i] \in Article
          BY Typed
        <4> QED
          BY <4>1 DEF Article
      <3> QED
        BY <2>1, <3>1
    <2>3. articles' \in [Posts -> Article] /\ \A j \in Posts : articles'[j].tweets \subseteq Tweets
      BY <1>0, <2>2, ArticleTypes
    <2> QED
      BY <1>1, <2>3, Typed, QuietTypes DEF RenameArticle
  <1>2. CASE EditURL \/ DeleteArticle
    <2>1. PICK i \in Posts, slug \in 0..MaxTweets, url \in 0..MaxTweets, tweets \in SUBSET Tweets :
            articles' = [articles EXCEPT ![i] = [slug |-> slug, tweets |-> tweets, url |-> url]]
      <3>1. CASE EditURL
        <4>1. PICK i \in Posts, url \in {0} \cup Tweets : articles' = [articles EXCEPT ![i].url = url]
          BY <3>1 DEF EditURL
        <4>2. articles' = [articles EXCEPT ![i] = [slug |-> articles[i].slug, url |-> url,
                                                   tweets |-> articles[i].tweets]]
          <5>1. [articles[i] EXCEPT !.url = url]
                  = [slug |-> articles[i].slug, url |-> url, tweets |-> articles[i].tweets]
            <6>1. articles[i] \in Article
              BY Typed
            <6> QED
              BY <6>1 DEF Article
          <5> QED
            BY <4>1, <5>1
        <4>3. articles[i].slug \in 0..MaxTweets /\ url \in 0..MaxTweets
              /\ articles[i].tweets \in SUBSET Tweets
          BY <1>0
        <4> QED
          BY <4>2, <4>3
      <3>2. CASE DeleteArticle
        <4>1. PICK i \in Posts : articles' = [articles EXCEPT ![i] = [slug |-> 0, tweets |-> {}, url |-> 0]]
          BY <3>2 DEF DeleteArticle, NoArticle
        <4> QED
          BY <1>0, <4>1
      <3> QED
        BY <1>2, <3>1, <3>2
    <2>2. articles' \in [Posts -> Article] /\ \A j \in Posts : articles'[j].tweets \subseteq Tweets
      <3>1. tweets \in SUBSET Ids
        BY <1>0
      <3> QED
        BY <2>1, <3>1, ArticleTypes
    <2>3. unlinked' \subseteq Tweets
      BY <1>0, <1>2, Typed DEF EditURL, DeleteArticle
    <2> QED
      BY <1>2, <2>2, <2>3, Typed, QuietTypes DEF EditURL, DeleteArticle
  <1>3. ASSUME NEW a \in Admins, AskUpdate(a)
        PROVE  Types'
    BY <1>3, Typed, QuietTypes DEF AskUpdate, siteVars
  <1>4. ASSUME NEW a \in Admins, CommitUpdate(a)
        PROVE  Types'
    <2>1. row' \in Row
      <3>1. PICK enabled \in BOOLEAN, username \in Accounts \cup {NoAccount},
                 start \in StartDates :
              row' = Overlay(req[a].read, enabled, username, start)
        BY <1>4 DEF CommitUpdate
      <3> QED
        BY <3>1, OverlayType
    <2> QED
      BY <1>4, <2>1, Typed, NoRunType, QuietTypes DEF CommitUpdate, siteVars
  <1>5. ASSUME NEW a \in Admins, RejectUpdate(a)
        PROVE  Types'
    BY <1>5, Typed, NoRunType, QuietTypes DEF RejectUpdate, siteVars
  <1> QED
    BY <1>1, <1>2, <1>3, <1>4, <1>5

LEMMA MinTodo ==
    ASSUME Types, run.todo # {}
    PROVE  Min(run.todo) \in run.todo /\ Min(run.todo) \in Tweets
  <1>1. run.todo \subseteq Tweets /\ Tweets \subseteq Nat
    BY TweetCount DEF Types, RunTweets
  <1> QED
    BY <1>1, MinIsIn

LEMMA VisitRun ==
    ASSUME Types, NEW t \in run.todo
    PROVE  /\ Visit(t, "archive") \in Run
           /\ Visit(t, "archive").pc = "archive"
           /\ Visit(t, "archive").todo = run.todo \ {t}
           /\ Visit(t, "archive").visited =
                IF run.cancelled THEN run.visited ELSE run.visited \cup {t}
           /\ Visit(t, "archive").got = run.got
           /\ Visit(t, "archive").dropped = run.dropped
           /\ Visit(t, "archive").cfg = run.cfg
           /\ Visit(t, "archive").uid = run.uid
           /\ Visit(t, "archive").cancelled = run.cancelled
  <1>1. run \in Run /\ t \in Ids
    BY Typed DEF Run
  <1>2. Visit(t, "archive") = [run EXCEPT !.pc = "archive", !.todo = run.todo \ {t},
                !.visited = IF run.cancelled THEN run.visited ELSE run.visited \cup {t}]
    BY <1>1 DEF Visit, Run
  <1> DEFINE v == IF run.cancelled THEN run.visited ELSE run.visited \cup {t}
             d == run.todo \ {t}
  <1>3. v \subseteq Ids /\ d \subseteq Ids
    BY <1>1 DEF Run
  <1>4. Visit(t, "archive") = [run EXCEPT !.pc = "archive", !.todo = d, !.visited = v]
    BY <1>2
  <1> HIDE DEF v, d
  <1>5. /\ Visit(t, "archive") \in Run /\ Visit(t, "archive").pc = "archive"
        /\ Visit(t, "archive").todo = d /\ Visit(t, "archive").visited = v
        /\ Visit(t, "archive").got = run.got
        /\ Visit(t, "archive").dropped = run.dropped
        /\ Visit(t, "archive").cfg = run.cfg
        /\ Visit(t, "archive").uid = run.uid
        /\ Visit(t, "archive").cancelled = run.cancelled
    BY <1>1, <1>3, <1>4 DEF Run
  <1> QED
    BY <1>5 DEF v, d

LEMMA VisitTypes ==
    ASSUME Types, NEW t \in run.todo, run' = Visit(t, "archive"), UNCHANGED author
    PROVE  run' \in Run /\ RunTweets'
  <1>1. /\ run' \in Run /\ run'.pc = "archive" /\ run'.todo \subseteq run.todo
        /\ run'.visited \subseteq run.visited \cup run.todo
        /\ run'.got = run.got /\ run'.dropped = run.dropped
    BY VisitRun
  <1>2. Tweets' = Tweets
    BY DEF Tweets
  <1> QED
    BY <1>1, <1>2 DEF Types, RunTweets

(* A page: its tweets, the run's tweets with it, and what is left. *)
Page == NewestOf(Unfetched, PageSize)
Got == run.got \cup Page
Rest == Unfetched \ Page

LEMMA FetchRun ==
    ASSUME Types, FetchPage
    PROVE  /\ run.pc = "fetch" /\ ~run.cancelled
           /\ Page \subseteq Unfetched /\ Unfetched \subseteq Tweets
           /\ run' \in Run /\ run'.got = Got
           /\ run'.cfg = run.cfg /\ run'.uid = run.uid
           /\ run'.visited = run.visited /\ run'.cancelled = run.cancelled
           /\ \/ /\ run'.pc = "fetch" /\ run'.pages < MaxPages
                 /\ run'.todo = run.todo /\ run'.dropped = run.dropped
              \/ /\ run'.pc = "archive" /\ run'.todo = Limited(Got, run.cfg)
                 /\ run'.dropped = Rest \cup (Got \ Limited(Got, run.cfg))
           /\ UNCHANGED <<row, req, author, articles, unlinked, loose, edits,
                          faults, covered, leaked>>
  <1> DEFINE todo == Limited(Got, run.cfg)
             dropped == Rest \cup (Got \ todo)
             pages == run.pages + 1
  <1>1. /\ run.pc = "fetch" /\ ~run.cancelled
        /\ run' = IF LastPage(Rest)
                  THEN [run EXCEPT !.got = Got, !.pages = pages, !.pc = "archive",
                                   !.todo = todo, !.dropped = dropped]
                  ELSE [run EXCEPT !.got = Got, !.pages = pages]
        /\ UNCHANGED <<row, req, author, articles, unlinked, loose, edits,
                       faults, covered, leaked>>
    <2>1. run \in Run
      BY Typed
    <2> QED
      BY <2>1 DEF FetchPage, siteVars, Run, Page, Got, Rest
  <1>2. run \in Run /\ run.pages \in Nat /\ run.pages < MaxPages
    BY <1>1, Typed DEF Types, RunTweets, Run
  <1>3. Page \subseteq Unfetched /\ Unfetched \subseteq Tweets /\ Tweets \subseteq Ids
    BY TweetCount DEF NewestOf, Unfetched, Types, Page
  <1>4. Got \subseteq Ids /\ Rest \subseteq Ids /\ todo \subseteq Ids /\ dropped \subseteq Ids
    BY <1>2, <1>3, LimitedSubset DEF Run, Got, Rest
  <1>5. pages \in 0..MaxPages /\ (~LastPage(Rest) => pages < MaxPages)
    BY <1>2, TwitterSyncAssumption DEF LastPage
  <1>6. CASE LastPage(Rest)
    <2> HIDE DEF todo, dropped, pages
    <2>1. run' = [run EXCEPT !.got = Got, !.pages = pages, !.pc = "archive",
                             !.todo = todo, !.dropped = dropped]
      BY <1>1, <1>6
    <2>2. run' \in Run
      BY <1>2, <1>4, <1>5, <2>1 DEF Run
    <2>3. /\ run'.pc = "archive" /\ run'.got = Got /\ run'.cfg = run.cfg /\ run'.uid = run.uid
          /\ run'.visited = run.visited /\ run'.cancelled = run.cancelled
          /\ run'.todo = todo /\ run'.dropped = dropped
      BY <1>2, <2>1 DEF Run
    <2> QED
      BY <1>1, <1>3, <2>2, <2>3 DEF todo, dropped
  <1>7. CASE ~LastPage(Rest)
    <2> HIDE DEF pages
    <2>1. run' = [run EXCEPT !.got = Got, !.pages = pages]
      BY <1>1, <1>7
    <2>2. run' \in Run
      BY <1>2, <1>4, <1>5, <2>1 DEF Run
    <2>3. /\ run'.pc = "fetch" /\ run'.got = Got /\ run'.cfg = run.cfg /\ run'.uid = run.uid
          /\ run'.visited = run.visited /\ run'.cancelled = run.cancelled
          /\ run'.todo = run.todo /\ run'.dropped = run.dropped /\ run'.pages < MaxPages
      BY <1>1, <1>2, <1>5, <1>7, <2>1 DEF Run
    <2> QED
      BY <1>1, <1>3, <2>2, <2>3
  <1> QED
    BY <1>6, <1>7

LEMMA RunTypes ==
    ASSUME Types, StartRun \/ RunStep \/ RunFails \/ InsertFails \/ Cancel \/ Crash
    PROVE  Types'
  <1>1. CASE StartRun
    <2>1. run' \in Run /\ RunTweets'
      <3>1. row \in Row /\ NoRun \in Run
        BY Typed, NoRunType
      <3>2. run' = [pc |-> IF row.userId = NoAccount THEN "resolve" ELSE "fetch", cfg |-> row,
                    uid |-> row.userId, pages |-> 0, got |-> {}, todo |-> {},
                    cancelled |-> FALSE, visited |-> {}, dropped |-> {}]
        BY <1>1 DEF StartRun, NoRun
      <3>3. run'.pages < MaxPages
        BY <3>2, TwitterSyncAssumption
      <3> QED
        BY <3>1, <3>2, <3>3, TwitterSyncAssumption DEF Run, Row, RunTweets
    <2> QED
      BY <1>1, <2>1, Typed, SiteTypes DEF StartRun, siteVars, Types
  <1>2. CASE ResolveUserID
    <2>1. run' \in Run /\ RunTweets' /\ row' \in Row
      <3>1. row \in Row /\ run \in Run /\ run.cfg.username \in Accounts \cup {NoAccount}
        BY Typed DEF Run, Row
      <3>2. CASE row.username = run.cfg.username
        <4>1. /\ row' = [row EXCEPT !.userId = run.cfg.username]
              /\ run' = [run EXCEPT !.pc = "fetch", !.uid = run.cfg.username]
              /\ author' = author /\ run.pc = "resolve"
          BY <1>2, <3>2 DEF ResolveUserID, siteVars
        <4> QED
          BY <3>1, <4>1 DEF Run, Row, Types, RunTweets, Tweets
      <3>3. CASE row.username # run.cfg.username
        <4>1. row' = row /\ run' = NoRun
          BY <1>2, <3>3 DEF ResolveUserID
        <4> QED
          BY <3>1, <4>1, NoRunType DEF NoRun, RunTweets
      <3> QED
        BY <3>2, <3>3
    <2> QED
      BY <1>2, <2>1, Typed, SiteTypes DEF ResolveUserID, siteVars, Types
  <1>3. CASE FetchPage
    <2>1. Limited(Got, run.cfg) \subseteq Got
      BY LimitedSubset
    <2>2. RunTweets'
      BY <1>3, <2>1, FetchRun DEF Types, RunTweets, Tweets, Got, Rest
    <2> QED
      BY <1>3, <2>2, FetchRun, Typed, SiteTypes DEF Types
  <1>4. CASE SkipTweet
    <2>1. run' \in Run /\ RunTweets'
      BY <1>4, MinTodo, VisitTypes DEF SkipTweet, siteVars
    <2> QED
      BY <1>4, <2>1, Typed, SiteTypes DEF SkipTweet, siteVars, Types
  <1>5. CASE StoreMedia
    <2>1. run' \in Run /\ RunTweets'
      <3>1. run \in Run /\ run' = [run EXCEPT !.pc = "insert"] /\ run.todo # {}
            /\ author' = author
        BY <1>5, Typed DEF StoreMedia, siteVars
      <3> QED
        BY <3>1 DEF Run, Types, RunTweets, Tweets
    <2>2. loose' \subseteq Tweets
      BY <1>5, Typed, MinTodo DEF StoreMedia
    <2> QED
      BY <1>5, <2>1, <2>2, Typed, SiteTypes DEF StoreMedia, siteVars, Types
  <1>6. CASE InsertArticle
    <2>0. Min(run.todo) \in run.todo /\ Min(run.todo) \in Tweets
      BY <1>6, MinTodo DEF InsertArticle, Types, RunTweets
    <2>1. run' \in Run /\ RunTweets'
      BY <1>6, <2>0, VisitTypes DEF InsertArticle
    <2>2. articles' \in [Posts -> Article] /\ \A i \in Posts : articles'[i].tweets \subseteq Tweets
      <3>1. Tweets \subseteq Ids /\ Ids \subseteq 0..MaxTweets
        BY TweetCount, TwitterSyncAssumption DEF Types, Ids
      <3> DEFINE t == Min(run.todo)
      <3>2. PICK i \in Posts :
              articles' = [articles EXCEPT ![i] = [slug |-> t, tweets |-> {t}, url |-> t]]
        BY <1>6 DEF InsertArticle
      <3>3. t \in Tweets
        BY <2>0
      <3> HIDE DEF t
      <3> QED
        <4>1. t \in 0..MaxTweets /\ {t} \in SUBSET Ids /\ {t} \subseteq Tweets
          BY <3>1, <3>3
        <4>2. articles' \in [Posts -> Article]
              /\ \A j \in Posts : articles'[j].tweets \subseteq Tweets \cup {t}
          BY <3>2, <4>1, ArticleTypes
        <4> QED
          BY <4>1, <4>2
    <2> QED
      BY <1>6, <2>0, <2>1, <2>2, Typed, SiteTypes DEF InsertArticle, Types
  <1>7. CASE LoopEnds
    <2>1. run' \in Run /\ RunTweets'
      <3>1. run \in Run /\ run' = [run EXCEPT !.pc = "finish"] /\ author' = author
        BY <1>7, Typed DEF LoopEnds, siteVars
      <3> QED
        BY <3>1 DEF Run, Types, RunTweets, Tweets
    <2> QED
      BY <1>7, <2>1, Typed, SiteTypes DEF LoopEnds, siteVars, Types
  <1>8. CASE Succeed
    <2>0. run' = NoRun /\ UNCHANGED <<req, siteVars, loose, edits, faults, leaked>>
      BY <1>8 DEF Succeed
    <2>1. run' \in Run /\ RunTweets'
      BY <2>0, NoRunType DEF NoRun, RunTweets
    <2>2. covered' \subseteq Tweets
      BY <1>8, Typed DEF Succeed, Types, RunTweets
    <2>3. row' \in Row
      <3> DEFINE S == Limited(run.got, run.cfg)
      <3>1. row \in Row /\ run.cfg.since \in 0..MaxTweets /\ S \subseteq Ids
        BY Typed, LimitedSubset DEF Run, Row
      <3>2. S # {} => Max(S) \in S
        BY <3>1, MaxIsIn, TwitterSyncAssumption DEF Ids
      <3>3. Latest(S) \in 0..MaxTweets
        BY <3>1, <3>2 DEF Latest, Ids
      <3>4. row' = row \/ row' = [row EXCEPT !.since = Latest(S)]
        BY <1>8 DEF Succeed
      <3> HIDE DEF S
      <3> QED
        BY <3>1, <3>3, <3>4 DEF Row
    <2> QED
      BY <2>0, <2>1, <2>2, <2>3, Typed, SiteTypes DEF siteVars, Types
  <1>9. CASE RunFails
    <2>1. run' \in Run /\ RunTweets'
      BY <1>9, NoRunType DEF RunFails, NoRun, RunTweets
    <2> QED
      BY <1>9, <2>1, Typed, SiteTypes DEF RunFails, siteVars, Types
  <1>10. CASE InsertFails
    <2>0. Min(run.todo) \in run.todo
      BY <1>10, MinTodo DEF InsertFails, Types, RunTweets
    <2>1. run' \in Run /\ RunTweets'
      BY <1>10, <2>0, VisitTypes DEF InsertFails, siteVars
    <2>2. loose' \subseteq Tweets /\ leaked' \in BOOLEAN /\ faults' \in 0..MaxFaults
      BY <1>10, Typed DEF InsertFails
    <2> QED
      BY <1>10, <2>1, <2>2, Typed, SiteTypes DEF InsertFails, siteVars, Types
  <1>11. CASE Cancel
    <2>1. run' \in Run /\ RunTweets'
      <3>1. run \in Run /\ run' = [run EXCEPT !.cancelled = TRUE] /\ author' = author
        BY <1>11, Typed DEF Cancel, siteVars
      <3> QED
        BY <3>1 DEF Run, Types, RunTweets, Tweets
    <2> QED
      BY <1>11, <2>1, Typed, SiteTypes DEF Cancel, siteVars, Types
  <1>12. CASE Crash
    <2>1. run' \in Run /\ RunTweets'
      BY <1>12, NoRunType DEF Crash, NoRun, RunTweets
    <2>2. req' \in [Admins -> [open : BOOLEAN, read : Row]] /\ leaked' \in BOOLEAN
      BY <1>12, NoRunType DEF Crash
    <2> QED
      BY <1>12, <2>1, <2>2, Typed, SiteTypes DEF Crash, siteVars, Types
  <1> QED
    BY <1>1, <1>2, <1>3, <1>4, <1>5, <1>6, <1>7, <1>8, <1>9, <1>10, <1>11, <1>12 DEF RunStep

LEMMA NextTypes ==
    ASSUME Types, [Next]_vars
    PROVE  Types'
  <1>1. CASE UNCHANGED vars
    BY <1>1 DEF vars, Types, TypeOK, RunTweets, Tweets
  <1>2. CASE \E u \in Accounts : PostTweet(u) \/ Crosspost(u)
    BY <1>2, PostTypes
  <1> QED
    BY <1>1, <1>2, EditTypes, RunTypes DEF Next

(* Types: the settings, the run and the articles keep their types, and the *)
(* tweets a run fetched, works off or gave up are tweets that exist.       *)
THEOREM TypesHold == Spec => []Types
  BY InitTypes, NextTypes, PTL DEF Spec

-----------------------------------------------------------------------------
(* One article per tweet.                                                  *)

LEMMA InitOnRecord ==
    ASSUME Init
    PROVE  OnRecord
  BY NoArticleType DEF Init, OnRecord, Linked, NewHere, OneArticlePerTweet, NoRun

LEMMA NextOnRecord ==
    ASSUME Types, OnRecord, [Next]_vars
    PROVE  OnRecord'
  <1> USE DEF OnRecord, Linked, NewHere, OneArticlePerTweet
  <1>0. articles \in [Posts -> Article] /\ \A i \in Posts : articles[i].tweets \subseteq Tweets
    BY Typed
  <1>q. ASSUME UNCHANGED <<articles, unlinked>>, run'.pc # "insert"
        PROVE  OnRecord'
    BY <1>q
  <1>s. ASSUME UNCHANGED <<articles, unlinked, run>>
        PROVE  OnRecord'
    BY <1>s
  <1>k. ASSUME \A j \in Posts : articles'[j].tweets \subseteq articles[j].tweets,
               unlinked \subseteq unlinked', run' = run,
               \A j \in Posts : \A t \in articles'[j].tweets :
                    articles'[j].url = articles[j].url \/ t # articles[j].url \/ t \in unlinked'
        PROVE  OnRecord'
    BY <1>k
  <1>1. CASE UNCHANGED vars
    BY <1>1, <1>s DEF vars
  <1>2. ASSUME NEW u \in Accounts, PostTweet(u) \/ Crosspost(u)
        PROVE  OnRecord'
    <2>1. PICK n \in Nat :
            /\ Tweets = 1..n /\ UNCHANGED run
            /\ \/ UNCHANGED <<articles, unlinked>>
               \/ run.pc = "idle" /\ \E i \in Posts : Posted(i, n + 1)
      BY <1>2, PostTypes
    <2>2. ASSUME run.pc = "idle", NEW i \in Posts, Posted(i, n + 1)
          PROVE  OnRecord'
      <3>1. n + 1 \notin Tweets
        BY <2>1
      <3>2. \A j \in Posts :
              articles'[j].tweets = IF j = i THEN articles[i].tweets \cup {n + 1} ELSE articles[j].tweets
        <4>1. PICK slug, url :
                articles' = [articles EXCEPT ![i] = [slug |-> slug, url |-> url,
                                                     tweets |-> articles[i].tweets \cup {n + 1}]]
          BY <2>2 DEF Posted
        <4> QED
          BY <1>0, <4>1
      <3>3. \A j \in Posts : j # i => articles'[j].url = articles[j].url
        BY <1>0, <2>2 DEF Posted
      <3>4. unlinked \subseteq unlinked'
        BY <2>2 DEF Posted
      <3>5. \A t \in articles'[i].tweets : articles'[i].url = t \/ t \in unlinked'
        <4>1. CASE /\ articles'[i].url = n + 1
                   /\ unlinked' = unlinked \cup Unlinks(i)
          BY <3>2, <4>1 DEF Unlinks
        <4>2. CASE /\ articles'[i].url = articles[i].url
                   /\ unlinked' = unlinked \cup {n + 1}
          BY <3>2, <4>2
        <4> QED
          BY <1>0, <2>2, <4>1, <4>2 DEF Posted
      <3>6. Linked'
        BY <3>2, <3>3, <3>4, <3>5
      <3>7. OneArticlePerTweet'
        BY <1>0, <3>1, <3>2, <3>4
      <3> QED
        BY <2>1, <2>2, <3>6, <3>7
    <2> QED
      BY <2>1, <2>2, <1>s
  <1>3. CASE RenameArticle
    <2>1. PICK i \in Posts : articles' = [articles EXCEPT ![i].slug = 0]
      BY <1>3 DEF RenameArticle
    <2>2. \A j \in Posts : articles'[j].tweets = articles[j].tweets /\ articles'[j].url = articles[j].url
      BY <1>0, <2>1 DEF Article
    <2> QED
      BY <1>3, <1>k, <2>2 DEF RenameArticle
  <1>4. CASE EditURL \/ DeleteArticle
    <2>1. CASE EditURL
      <3>1. PICK i \in Posts, url \in {0} \cup Tweets :
              articles' = [articles EXCEPT ![i].url = url] /\ unlinked' = unlinked \cup Unlinks(i)
        BY <2>1 DEF EditURL
      <3>2. \A j \in Posts : /\ articles'[j].tweets = articles[j].tweets
                            /\ j # i => articles'[j].url = articles[j].url
        BY <1>0, <3>1 DEF Article
      <3>3. \A t \in articles[i].tweets : t = articles[i].url => t \in unlinked'
        BY <3>1 DEF Unlinks
      <3> QED
        BY <2>1, <1>k, <3>1, <3>2, <3>3 DEF EditURL
    <2>2. CASE DeleteArticle
      <3>1. PICK i \in Posts : articles' = [articles EXCEPT ![i] = NoArticle]
        BY <2>2 DEF DeleteArticle
      <3>2. \A j \in Posts : articles'[j] = articles[j] \/ articles'[j].tweets = {}
        BY <1>0, <3>1, NoArticleType
      <3> QED
        BY <2>2, <1>k, <3>2 DEF DeleteArticle
    <2> QED
      BY <1>4, <2>1, <2>2
  <1>5. ASSUME NEW a \in Admins, AskUpdate(a) \/ CommitUpdate(a) \/ RejectUpdate(a)
        PROVE  OnRecord'
    BY <1>5, <1>s DEF AskUpdate, CommitUpdate, RejectUpdate, siteVars
  <1>6. CASE StartRun
    <2>1. run'.pc # "insert"
      BY <1>6 DEF StartRun, NoRun
    <2> QED
      BY <1>6, <2>1, <1>q DEF StartRun, siteVars
  <1>7. CASE ResolveUserID
    <2>1. run'.pc # "insert"
      <3>1. run' = NoRun \/ run' = [run EXCEPT !.pc = "fetch", !.uid = run.cfg.username]
        BY <1>7 DEF ResolveUserID
      <3>2. run \in Run
        BY Typed
      <3>3. NoRun.pc # "insert"
        BY DEF NoRun
      <3>4. [run EXCEPT !.pc = "fetch", !.uid = run.cfg.username].pc = "fetch"
        BY <3>2 DEF Run
      <3> QED
        BY <3>1, <3>3, <3>4
    <2> QED
      BY <1>7, <2>1, <1>q DEF ResolveUserID, siteVars
  <1>8. CASE FetchPage
    BY <1>8, <1>q, FetchRun
  <1>9. CASE SkipTweet
    <2>1. run'.pc # "insert"
      BY <1>9, MinTodo, VisitRun DEF SkipTweet
    <2> QED
      BY <1>9, <2>1, <1>q DEF SkipTweet, siteVars
  <1>10. CASE StoreMedia
    <2>1. run'.todo = run.todo /\ \A i \in Posts : articles[i].url # Min(run.todo)
      BY <1>10, Typed DEF StoreMedia, Run, AlreadyHere
    <2>2. UNCHANGED <<articles, unlinked>>
      BY <1>10 DEF StoreMedia, siteVars
    <2> QED
      BY <2>1, <2>2
  <1>11. CASE InsertArticle
    <2> DEFINE t == Min(run.todo)
    <2>1. /\ t \in run.todo /\ unlinked' = unlinked /\ run' = Visit(t, "archive")
          /\ \A i \in Posts : t \in articles[i].tweets => t \in unlinked
      BY <1>11, MinTodo DEF InsertArticle, Types, RunTweets
    <2>2. run'.pc # "insert"
      BY <2>1, VisitRun
    <2>3. PICK i \in Posts : articles' = [articles EXCEPT ![i] = [slug |-> t, tweets |-> {t}, url |-> t]]
      BY <1>11 DEF InsertArticle
    <2> HIDE DEF t
    <2>4. /\ articles'[i].tweets = {t} /\ articles'[i].url = t
          /\ \A j \in Posts : j # i => articles'[j] = articles[j]
      BY <1>0, <2>3
    <2> QED
      BY <2>1, <2>2, <2>4
  <1>12. CASE LoopEnds
    <2>1. run'.pc # "insert"
      BY <1>12, Typed DEF LoopEnds, Run
    <2> QED
      BY <1>12, <2>1, <1>q DEF LoopEnds, siteVars
  <1>13. CASE Succeed \/ RunFails \/ Crash
    BY <1>13, <1>q DEF Succeed, RunFails, Crash, siteVars, NoRun
  <1>14. CASE InsertFails
    <2>1. run'.pc # "insert"
      BY <1>14, MinTodo, VisitRun DEF InsertFails, Types, RunTweets
    <2> QED
      BY <1>14, <2>1, <1>q DEF InsertFails, siteVars
  <1>15. CASE Cancel
    <2>1. run'.pc = run.pc /\ run'.todo = run.todo
      BY <1>15, Typed DEF Cancel, Run
    <2> QED
      BY <1>15, <2>1 DEF Cancel, siteVars
  <1> QED
    BY <1>1, <1>2, <1>3, <1>4, <1>5, <1>6, <1>7, <1>8, <1>9, <1>10, <1>11, <1>12, <1>13,
       <1>14, <1>15 DEF Next, RunStep

(* One article: no run gives a tweet a second article next to the one it    *)
(* was archived as or crossposted from, whatever crashes, cancelled runs,   *)
(* cursor resets and renames do, as long as the social_media_posts row of   *)
(* that article names it: not if its URL was never recorded, if an admin    *)
(* cleared or replaced it, or if a later post of the same article did.      *)
THEOREM OneArticle == Spec => []OneArticlePerTweet
  <1>1. Init => Types /\ OnRecord
    BY InitTypes, InitOnRecord
  <1>2. (Types /\ OnRecord) /\ [Next]_vars => (Types /\ OnRecord)'
    BY NextTypes, NextOnRecord
  <1>3. OnRecord => OneArticlePerTweet
    BY DEF OnRecord
  <1> QED
    BY <1>1, <1>2, <1>3, PTL DEF Spec

-----------------------------------------------------------------------------
(* Stored media.                                                           *)

LEMMA NextMedia ==
    ASSUME Types, StoredMediaIsAttached, [Next]_vars
    PROVE  StoredMediaIsAttached'
  <1> USE DEF StoredMediaIsAttached
  <1>s. ASSUME UNCHANGED <<run, loose, leaked>>
        PROVE  StoredMediaIsAttached'
    BY <1>s
  <1>q. ASSUME UNCHANGED <<loose, leaked>>, run.pc # "insert"
        PROVE  StoredMediaIsAttached'
    BY <1>q
  <1>1. CASE UNCHANGED vars
    BY <1>1, <1>s DEF vars
  <1>2. CASE \E u \in Accounts : PostTweet(u) \/ Crosspost(u)
    BY <1>2, <1>s DEF PostTweet, Crosspost
  <1>3. CASE RenameArticle \/ EditURL \/ DeleteArticle
    BY <1>3, <1>s DEF RenameArticle, EditURL, DeleteArticle
  <1>4. CASE \E a \in Admins : AskUpdate(a) \/ CommitUpdate(a) \/ RejectUpdate(a)
    BY <1>4, <1>s DEF AskUpdate, CommitUpdate, RejectUpdate
  <1>5. CASE StartRun \/ ResolveUserID \/ FetchPage \/ SkipTweet \/ LoopEnds \/ Succeed \/ RunFails
    BY <1>5, <1>q
       DEF StartRun, ResolveUserID, FetchPage, SkipTweet, LoopEnds, Succeed, RunFails
  <1>6. CASE StoreMedia
    <2>1. run'.pc = "insert" /\ run'.todo = run.todo
      BY <1>6, Typed DEF StoreMedia, Run
    <2> QED
      BY <1>6, <2>1 DEF StoreMedia
  <1>7. CASE InsertArticle
    BY <1>7 DEF InsertArticle
  <1>8. CASE InsertFails
    <2>1. CASE loose' = loose \ {Min(run.todo)} /\ UNCHANGED leaked
      BY <1>8, <2>1 DEF InsertFails
    <2>2. CASE UNCHANGED loose /\ leaked' = (leaked \/ loose # {})
      BY <2>2
    <2> QED
      BY <1>8, <2>1, <2>2 DEF InsertFails
  <1>9. CASE Cancel
    <2>1. run'.pc = run.pc /\ run'.todo = run.todo
      BY <1>9, Typed DEF Cancel, Run
    <2> QED
      BY <1>9, <2>1 DEF Cancel
  <1>10. CASE Crash
    BY <1>10 DEF Crash
  <1> QED
    BY <1>1, <1>2, <1>3, <1>4, <1>5, <1>6, <1>7, <1>8, <1>9, <1>10 DEF Next, RunStep

(* No media left behind: as long as the process did not die and every      *)
(* removal succeeded, the only stored media without an attachment row is   *)
(* that of the tweet whose transaction is to come.                         *)
THEOREM MediaAttached == Spec => []StoredMediaIsAttached
  <1>1. Init => Types /\ StoredMediaIsAttached
    BY InitTypes DEF Init, StoredMediaIsAttached
  <1>2. (Types /\ StoredMediaIsAttached) /\ [Next]_vars => (Types /\ StoredMediaIsAttached)'
    BY NextTypes, NextMedia
  <1> QED
    BY <1>1, <1>2, PTL DEF Spec

-----------------------------------------------------------------------------
(* With one settings request at a time, what the request read is in force  *)
(* until it commits.                                                       *)

OneAdmin == \A a, b \in Admins : a = b

LEMMA InitIdentity ==
    ASSUME Init
    PROVE  Identity
  BY DEF Init, Identity, ReadIsCurrent, UserIdMatchesUsername, NoRun, NoRequest, FreshRow

(* A step of the run keeps its account and its configuration. *)
LEMMA RunKeepsAccount ==
    ASSUME Types, FetchPage \/ SkipTweet \/ StoreMedia \/ InsertArticle \/ LoopEnds
                    \/ InsertFails \/ Cancel
    PROVE  /\ UNCHANGED <<row, req, author, covered>>
           /\ run'.uid = run.uid /\ run'.cfg = run.cfg
           /\ run'.pc = "idle" <=> run.pc = "idle"
           /\ run'.pc = "resolve" <=> run.pc = "resolve"
           /\ run.pc = "resolve" => run'.got = run.got
  <1>0. run \in Run
    BY Typed
  <1>1. CASE FetchPage
    BY <1>1, FetchRun
  <1>2. CASE SkipTweet
    <2>1. Min(run.todo) \in run.todo /\ run.pc = "archive" /\ run' = Visit(Min(run.todo), "archive")
      BY <1>2, MinTodo DEF SkipTweet
    <2> QED
      BY <1>2, <2>1, VisitRun DEF SkipTweet, siteVars
  <1>3. CASE StoreMedia
    BY <1>0, <1>3 DEF StoreMedia, siteVars, Run
  <1>4. CASE InsertArticle
    <2>1. Min(run.todo) \in run.todo /\ run.pc = "insert" /\ run' = Visit(Min(run.todo), "archive")
      BY <1>4, MinTodo DEF InsertArticle, Types, RunTweets
    <2> QED
      BY <1>4, <2>1, VisitRun DEF InsertArticle
  <1>5. CASE LoopEnds
    BY <1>0, <1>5 DEF LoopEnds, siteVars, Run
  <1>6. CASE InsertFails
    <2>1. Min(run.todo) \in run.todo /\ run.pc = "insert" /\ run' = Visit(Min(run.todo), "archive")
      BY <1>6, MinTodo DEF InsertFails, Types, RunTweets
    <2>2. UNCHANGED <<row, req, author, covered>>
      BY <1>6 DEF InsertFails, siteVars
    <2> QED
      BY <2>1, <2>2, VisitRun
  <1>7. CASE Cancel
    BY <1>0, <1>7 DEF Cancel, siteVars, Run
  <1> QED
    BY <1>1, <1>2, <1>3, <1>4, <1>5, <1>6, <1>7

(* Without a change of the settings in force a commit keeps the cursor;    *)
(* with one it resets it.                                                  *)
LEMMA CommitRow ==
    ASSUME OneAdmin, Types, Identity, NEW a \in Admins, CommitUpdate(a)
    PROVE  /\ \A b \in Admins : ~req'[b].open
           /\ UNCHANGED <<run, author>>
           /\ UserIdMatchesUsername'
           /\ \/ /\ row'.username = row.username /\ row'.start = row.start
                 /\ row'.since = row.since /\ covered' = covered
              \/ row'.since = 0
  <1>1. PICK enabled \in BOOLEAN, username \in Accounts \cup {NoAccount}, start \in StartDates :
          /\ row' = Overlay(req[a].read, enabled, username, start)
          /\ covered' = IF username = row.username /\ start = row.start THEN covered ELSE {}
    BY DEF CommitUpdate
  <1>2. /\ row'.username = username /\ row'.start = start
        /\ row'.userId = IF username # req[a].read.username THEN NoAccount ELSE row.userId
        /\ row'.since = IF username # req[a].read.username \/ start # req[a].read.start
                        THEN 0 ELSE row.since
    <2> DEFINE o == Overlay(req[a].read, enabled, username, start)
    <2>1. /\ o.username = username /\ o.start = start
          /\ o.userId = IF username # req[a].read.username THEN NoAccount ELSE row.userId
          /\ o.since = IF username # req[a].read.username \/ start # req[a].read.start
                       THEN 0 ELSE row.since
      BY DEF Overlay
    <2> HIDE DEF o
    <2>2. row' = o
      BY <1>1 DEF o
    <2> QED
      BY <2>1, <2>2
  <1>3. req[a].read.username = row.username /\ req[a].read.start = row.start
    BY DEF CommitUpdate, Identity, ReadIsCurrent
  <1>4. \A b \in Admins : ~req'[b].open
    <2>1. req' = [req EXCEPT ![a] = NoRequest] /\ req \in [Admins -> [open : BOOLEAN, read : Row]]
      BY Typed DEF CommitUpdate
    <2>2. \A b \in Admins : req'[b] = NoRequest
      BY <2>1 DEF OneAdmin
    <2> QED
      BY <2>2 DEF NoRequest
  <1>5. UNCHANGED <<run, author>>
    BY DEF CommitUpdate, siteVars
  <1>6. UserIdMatchesUsername'
    BY <1>2, <1>3 DEF UserIdMatchesUsername, Identity
  <1> QED
    BY <1>1, <1>2, <1>3, <1>4, <1>5, <1>6

LEMMA NextIdentity ==
    ASSUME OneAdmin, Types, Identity, [Next]_vars
    PROVE  Identity'
  <1> USE DEF Identity
  <1>0. row \in Row /\ run \in Run /\ req \in [Admins -> [open : BOOLEAN, read : Row]]
    BY Typed
  <1>s. ASSUME UNCHANGED <<row, req, run>>
        PROVE  Identity'
    BY <1>s DEF ReadIsCurrent, UserIdMatchesUsername
  <1>1. CASE UNCHANGED vars
    BY <1>1, <1>s DEF vars
  <1>2. CASE \E u \in Accounts : PostTweet(u) \/ Crosspost(u)
    BY <1>2, <1>s DEF PostTweet, Crosspost
  <1>3. CASE RenameArticle \/ EditURL \/ DeleteArticle
    BY <1>3, <1>s DEF RenameArticle, EditURL, DeleteArticle
  <1>4. ASSUME NEW a \in Admins, AskUpdate(a)
        PROVE  Identity'
    <2>1. req' = [req EXCEPT ![a] = [open |-> TRUE, read |-> row]] /\ UNCHANGED <<row, run>>
      BY <1>4 DEF AskUpdate
    <2>2. ReadIsCurrent'
      BY <1>0, <2>1 DEF ReadIsCurrent
    <2> QED
      BY <2>1, <2>2 DEF UserIdMatchesUsername
  <1>5. ASSUME NEW a \in Admins, CommitUpdate(a)
        PROVE  Identity'
    BY <1>5, CommitRow DEF ReadIsCurrent
  <1>6. ASSUME NEW a \in Admins, RejectUpdate(a)
        PROVE  Identity'
    <2>1. req' = [req EXCEPT ![a] = NoRequest] /\ UNCHANGED <<row, run>>
      BY <1>6 DEF RejectUpdate
    <2>2. ReadIsCurrent'
      BY <1>0, <2>1 DEF ReadIsCurrent, NoRequest
    <2> QED
      BY <2>1, <2>2 DEF UserIdMatchesUsername
  <1>7. CASE StartRun
    <2>1. UNCHANGED <<row, req>>
      BY <1>7 DEF StartRun
    <2>2. /\ run'.pc = (IF row.userId = NoAccount THEN "resolve" ELSE "fetch")
          /\ run'.uid = row.userId /\ run'.cfg = row /\ run'.got = {}
      BY <1>7 DEF StartRun, NoRun
    <2> QED
      BY <2>1, <2>2 DEF ReadIsCurrent, UserIdMatchesUsername
  <1>8. CASE ResolveUserID
    <2>1. CASE row.username = run.cfg.username
      <3>1. /\ row' = [row EXCEPT !.userId = run.cfg.username]
            /\ run' = [run EXCEPT !.pc = "fetch", !.uid = run.cfg.username]
            /\ UNCHANGED req
        BY <1>8, <2>1 DEF ResolveUserID
      <3>2. /\ row'.userId = row'.username /\ row'.username = row.username
            /\ row'.start = row.start
            /\ run'.pc = "fetch" /\ run'.uid = run'.cfg.username
        BY <1>0, <2>1, <3>1 DEF Row, Run
      <3> QED
        BY <3>1, <3>2 DEF ReadIsCurrent, UserIdMatchesUsername
    <2>2. CASE row.username # run.cfg.username
      BY <1>8, <2>2 DEF ResolveUserID, ReadIsCurrent, UserIdMatchesUsername, NoRun
    <2> QED
      BY <2>1, <2>2
  <1>9. CASE FetchPage \/ SkipTweet \/ StoreMedia \/ InsertArticle \/ LoopEnds
               \/ InsertFails \/ Cancel
    BY <1>9, RunKeepsAccount DEF ReadIsCurrent, UserIdMatchesUsername
  <1>10. CASE Succeed
    <2>1. row'.username = row.username /\ row'.start = row.start /\ row'.userId = row.userId
      <3>1. row' = row \/ row' = [row EXCEPT !.since = Latest(Limited(run.got, run.cfg))]
        BY <1>10 DEF Succeed
      <3> QED
        BY <1>0, <3>1 DEF Row
    <2>2. run' = NoRun /\ req' = req
      BY <1>10 DEF Succeed
    <2> QED
      BY <2>1, <2>2 DEF ReadIsCurrent, UserIdMatchesUsername, NoRun
  <1>11. CASE RunFails
    BY <1>11 DEF RunFails, ReadIsCurrent, UserIdMatchesUsername, NoRun
  <1>12. CASE Crash
    BY <1>12 DEF Crash, ReadIsCurrent, UserIdMatchesUsername, NoRun, NoRequest
  <1> QED
    BY <1>1, <1>2, <1>3, <1>4, <1>5, <1>6, <1>7, <1>8, <1>9, <1>10, <1>11, <1>12
       DEF Next, RunStep

(* The id belongs to the name: a run that resolves a username while an     *)
(* admin enters another one never stores the old account's id under the    *)
(* new name, as long as settings requests do not overlap one another.      *)
THEOREM IdMatches == OneAdmin /\ Spec => []UserIdMatchesUsername
  <1> SUFFICES ASSUME OneAdmin
               PROVE  Spec => []UserIdMatchesUsername
    OBVIOUS
  <1>1. Init => Types /\ Identity
    BY InitTypes, InitIdentity
  <1>2. (Types /\ Identity) /\ [Next]_vars => (Types /\ Identity)'
    BY NextTypes, NextIdentity
  <1>3. Identity => UserIdMatchesUsername
    BY DEF Identity
  <1> QED
    BY <1>1, <1>2, <1>3, PTL DEF Spec

-----------------------------------------------------------------------------
(* The cursor.                                                             *)

LEMMA InitCursor ==
    ASSUME Init
    PROVE  CursorInv
  BY DEF Init, CursorInv, CursorSkipsNothing, Tweets, NoRun, FreshRow, Archiving

(* A new tweet is newer than the cursor and than everything a run fetched. *)
LEMMA PostCursor ==
    ASSUME Types, CursorInv, NEW u \in Accounts, PostTweet(u) \/ Crosspost(u)
    PROVE  CursorInv'
  <1>1. PICK n \in Nat :
          /\ Tweets = 1..n /\ Tweets' = 1..(n + 1)
          /\ \A t \in Tweets : author'[t] = author[t]
          /\ UNCHANGED <<row, run, covered>>
    BY PostTypes
  <1>2. row \in Row /\ row.since \in Nat
    BY Typed, TwitterSyncAssumption DEF Row
  <1>3. /\ Tweets \subseteq Tweets' /\ row.since < n + 1 /\ run.got \subseteq 1..n
        /\ \A t \in Tweets' : t \in Tweets \/ t = n + 1
    BY <1>1, <1>2 DEF CursorInv, Types, RunTweets
  <1>4. \A t \in Scope' : t \in Scope \/ t = n + 1
    BY <1>1, <1>3 DEF Scope, InScope
  <1>5. \A w \in run.got : ~(n + 1 <= w)
    BY <1>1, <1>3
  <1>6. run.pc = "fetch" => NoGap'
    BY <1>1, <1>4, <1>5 DEF CursorInv, NoGap
  <1>7. run.pc \in Archiving /\ ~run.cancelled => Accounted'
    BY <1>1, <1>4, <1>5 DEF CursorInv, Accounted
  <1>8. CursorSkipsNothing'
    BY <1>1, <1>2, <1>3 DEF CursorInv, CursorSkipsNothing
  <1> QED
    BY <1>1, <1>3, <1>6, <1>7, <1>8 DEF CursorInv

(* A step that keeps the tweets, the cursor and the scope of the run. *)
LEMMA KeepCursor ==
    ASSUME CursorInv, UNCHANGED <<author, covered>>,
           row'.since = row.since, row'.username = row.username, row'.start = row.start,
           run'.pc = "fetch" => NoGap',
           run'.pc \in Archiving /\ ~run'.cancelled => Accounted',
           run'.pc = "finish" => run'.todo = {}
    PROVE  CursorInv'
  BY DEF CursorInv, CursorSkipsNothing, Tweets

(* The page carries the stretch on downwards. *)
LEMMA FetchCursor ==
    ASSUME Types, CursorInv, FetchPage
    PROVE  CursorInv'
  <1>0. /\ run.pc = "fetch" /\ ~run.cancelled
        /\ Page \subseteq Unfetched /\ Unfetched \subseteq Tweets
        /\ run' \in Run /\ run'.got = Got
        /\ run'.cfg = run.cfg /\ run'.uid = run.uid
        /\ run'.visited = run.visited /\ run'.cancelled = run.cancelled
        /\ \/ run'.pc = "fetch"
           \/ /\ run'.pc = "archive" /\ run'.todo = Limited(Got, run.cfg)
              /\ run'.dropped = Rest \cup (Got \ Limited(Got, run.cfg))
        /\ UNCHANGED <<row, author, covered>>
    BY FetchRun
  <1>1. PICK n \in Nat : Tweets = 1..n /\ n \in 0..MaxTweets
    BY TweetCount DEF Types
  <1>2. /\ Scope' = Scope /\ Scope \subseteq 1..n /\ run.got \subseteq 1..n
        /\ Unfetched \subseteq 1..n /\ Got \subseteq 1..n
    BY <1>0, <1>1 DEF Scope, InScope, Tweets, Types, RunTweets, Got
  <1>3. \A t \in Scope : (\A v \in run.got : t < v) => t \in Unfetched
    BY DEF Scope, Unfetched
  <1>4. \A t \in Unfetched, v \in run.got : t < v
    BY DEF Unfetched
  <1>5. ASSUME NEW v \in Page, NEW t \in Unfetched, v <= t
        PROVE  t \in Page
    BY <1>1, <1>2, <1>5, NewestIsUpper, TwitterSyncAssumption DEF Page
  <1>6. ASSUME NEW v \in Got, NEW w \in Got, NEW t \in Scope, v <= t, t <= w
        PROVE  t \in Got
    <2>0. v \in Int /\ w \in Int /\ t \in Int /\ \A x \in run.got : x \in Int
      BY <1>2, <1>6
    <2>1. CASE \A x \in run.got : t < x
      <3>1. t \in Unfetched
        BY <1>3, <1>6, <2>1
      <3>2. v \notin run.got
        BY <1>6, <2>0, <2>1
      <3> QED
        BY <1>5, <1>6, <3>1, <3>2 DEF Got
    <2>2. CASE ~(\A x \in run.got : t < x)
      <3>1. PICK x \in run.got : x <= t
        BY <2>0, <2>2
      <3>2. w \in run.got
        <4>1. SUFFICES ASSUME w \in Page
                       PROVE  FALSE
          BY <1>6 DEF Got
        <4>2. w < x
          BY <1>0, <1>4, <3>1, <4>1
        <4> QED
          BY <1>6, <2>0, <3>1, <4>2
      <3> QED
        BY <1>0, <1>6, <3>1, <3>2 DEF CursorInv, NoGap, Got
    <2> QED
      BY <2>1, <2>2
  <1>7. NoGap'
    BY <1>0, <1>2, <1>6 DEF NoGap
  <1>8. ASSUME run'.pc = "archive"
        PROVE  Accounted'
    <2>1. SUFFICES ASSUME NEW t \in Scope, NEW w \in Got, t <= w
                   PROVE  t \in Got \cup Rest
      BY <1>0, <1>2, <1>8 DEF Accounted
    <2>2. CASE \A x \in run.got : t < x
      BY <1>3, <2>1, <2>2 DEF Got, Rest
    <2>3. CASE ~(\A x \in run.got : t < x)
      <3>1. PICK x \in run.got : x <= t
        BY <1>2, <2>1, <2>3
      <3> QED
        BY <1>6, <2>1, <3>1 DEF Got
    <2> QED
      BY <2>2, <2>3
  <1> QED
    BY <1>0, <1>7, <1>8, KeepCursor DEF Archiving

LEMMA VisitCursor ==
    ASSUME Types, CursorInv, NEW t \in run.todo, run.pc \in Archiving,
           run' = Visit(t, "archive"), UNCHANGED <<row, author, covered>>
    PROVE  CursorInv'
  <1>1. /\ run'.pc = "archive" /\ run'.todo = run.todo \ {t}
        /\ run'.visited = IF run.cancelled THEN run.visited ELSE run.visited \cup {t}
        /\ run'.got = run.got /\ run'.dropped = run.dropped /\ run'.cfg = run.cfg
        /\ run'.uid = run.uid /\ run'.cancelled = run.cancelled
    BY VisitRun
  <1>2. Scope' = Scope
    BY <1>1 DEF Scope, Tweets
  <1>3. ~run.cancelled => Accounted'
    BY <1>1, <1>2 DEF CursorInv, Accounted
  <1> QED
    BY <1>1, <1>3, KeepCursor

(* SetTwitterSyncSuccess moves the cursor over tweets that are accounted   *)
(* for and over no others.                                                 *)
LEMMA SucceedCursor ==
    ASSUME Types, Identity, CursorInv, Succeed
    PROVE  CursorInv'
  <1>0. row \in Row /\ run \in Run /\ run' = NoRun /\ author' = author
        /\ run.pc = "finish" /\ ~run.cancelled
    BY Typed DEF Succeed, siteVars
  <1>1. CASE ~Unchanged
    <2>1. UNCHANGED <<row, covered>>
      BY <1>1 DEF Succeed
    <2> QED
      BY <1>0, <2>1, KeepCursor DEF NoRun, Archiving
  <1>2. CASE Unchanged
    <2> DEFINE S == Limited(run.got, run.cfg)
    <2>1. /\ row' = [row EXCEPT !.since = Latest(S)]
          /\ covered' = covered \cup run.visited \cup run.dropped
          /\ row.since = run.cfg.since /\ row.username = run.cfg.username
          /\ row.start = run.cfg.start
      BY <1>2 DEF Succeed, Unchanged
    <2>2. row'.since = Latest(S) /\ row'.username = row.username /\ row'.start = row.start
      BY <1>0, <2>1 DEF Row
    <2>3. S \subseteq run.got /\ run.got \subseteq Tweets /\ Tweets \subseteq Ids
          /\ MaxTweets \in Nat
      BY LimitedSubset, TweetCount, TwitterSyncAssumption DEF Types, RunTweets
    <2>4. S # {} => Max(S) \in S
      BY <2>3, MaxIsIn DEF Ids
    <2>5. \/ Latest(S) = row.since
          \/ Latest(S) \in run.got
      BY <2>1, <2>3, <2>4 DEF Latest
    <2>6. row'.since = 0 \/ row'.since \in Tweets
      BY <2>2, <2>3, <2>5 DEF CursorInv
    <2>7. ASSUME NEW t \in Tweets, author[t] = row.username, row.start <= t, t <= Latest(S)
          PROVE  t \in covered'
      <3>0. t \in Int /\ row.start \in Int /\ row.since \in Int
        <4>1. t \in Int
          <5>1. t \in Ids /\ MaxTweets \in Nat
            BY <2>3
          <5> QED
            BY <5>1 DEF Ids
        <4>2. row.start \in StartDates /\ row.since \in 0..MaxTweets
          BY <1>0 DEF Row
        <4>3. \A x \in StartDates : x \in Int
          BY TwitterSyncAssumption
        <4> QED
          BY <4>1, <4>2, <4>3
      <3>1. CASE t <= row.since
        BY <2>1, <2>7, <3>1 DEF CursorInv, CursorSkipsNothing
      <3>2. CASE ~(t <= row.since)
        <4>1. Latest(S) \in run.got
          BY <2>5, <2>7, <3>2
        <4>2. t \in Scope
          BY <1>0, <2>1, <2>7, <3>0, <3>2 DEF Scope, InScope, Identity
        <4>3. t \in run.todo \cup run.visited \cup run.dropped /\ run.todo = {}
          BY <1>0, <2>7, <4>1, <4>2 DEF CursorInv, Accounted, Archiving
        <4> QED
          BY <2>1, <4>3
      <3> QED
        BY <3>1, <3>2
    <2> HIDE DEF S
    <2>8. CursorSkipsNothing'
      BY <1>0, <2>2, <2>7 DEF CursorSkipsNothing, Tweets
    <2> QED
      BY <1>0, <2>6, <2>8 DEF CursorInv, NoRun, Archiving, Tweets
  <1> QED
    BY <1>1, <1>2

LEMMA NextCursor ==
    ASSUME OneAdmin, Types, Identity, CursorInv, [Next]_vars
    PROVE  CursorInv'
  <1>0. row \in Row /\ run \in Run
    BY Typed
  <1>s. ASSUME UNCHANGED <<author, row, run, covered>>
        PROVE  CursorInv'
    BY <1>s DEF CursorInv, CursorSkipsNothing, NoGap, Accounted, Scope, Tweets
  <1>e. ASSUME UNCHANGED <<author, covered>>, row'.since = row.since,
               row'.username = row.username, row'.start = row.start,
               run'.pc \in {"idle", "resolve"} \/ (run'.pc = "fetch" /\ run'.got = {})
        PROVE  CursorInv'
    BY <1>e, KeepCursor DEF NoGap, Archiving
  <1>1. CASE UNCHANGED vars
    BY <1>1, <1>s DEF vars
  <1>2. CASE \E u \in Accounts : PostTweet(u) \/ Crosspost(u)
    BY <1>2, PostCursor
  <1>3. CASE RenameArticle \/ EditURL \/ DeleteArticle
    BY <1>3, <1>s DEF RenameArticle, EditURL, DeleteArticle
  <1>4. CASE \E a \in Admins : AskUpdate(a) \/ RejectUpdate(a)
    BY <1>4, <1>s DEF AskUpdate, RejectUpdate, siteVars
  <1>5. ASSUME NEW a \in Admins, CommitUpdate(a)
        PROVE  CursorInv'
    <2>1. /\ UNCHANGED <<run, author>>
          /\ \/ /\ row'.username = row.username /\ row'.start = row.start
                /\ row'.since = row.since /\ covered' = covered
             \/ row'.since = 0
      BY <1>5, CommitRow
    <2>2. CursorSkipsNothing' /\ (row'.since = 0 \/ row'.since \in Tweets)
      <3>1. CASE row'.since = 0
        <4>1. \A t \in Tweets : t \in Nat /\ ~(t <= 0)
          BY TweetCount DEF Types, Ids
        <4> QED
          BY <2>1, <3>1, <4>1 DEF CursorSkipsNothing, Tweets
      <3>2. CASE row'.since # 0
        BY <2>1, <3>2 DEF CursorInv, CursorSkipsNothing, Tweets
      <3> QED
        BY <3>1, <3>2
    <2> QED
      BY <2>1, <2>2 DEF CursorInv, NoGap, Accounted, Scope, Tweets
  <1>6. CASE StartRun
    <2>1. run'.pc \in {"resolve", "fetch"} /\ run'.got = {}
      BY <1>6 DEF StartRun, NoRun
    <2> QED
      BY <1>6, <2>1, <1>e DEF StartRun, siteVars
  <1>7. CASE ResolveUserID
    <2>1. CASE row.username = run.cfg.username
      <3>1. /\ row' = [row EXCEPT !.userId = run.cfg.username]
            /\ run' = [run EXCEPT !.pc = "fetch", !.uid = run.cfg.username]
            /\ UNCHANGED <<author, covered>> /\ run.pc = "resolve"
        BY <1>7, <2>1 DEF ResolveUserID, siteVars
      <3>2. /\ row'.since = row.since /\ row'.username = row.username
            /\ row'.start = row.start
            /\ run'.pc = "fetch" /\ run'.got = {}
        BY <1>0, <3>1 DEF Row, Run, Identity
      <3> QED
        BY <1>e, <3>1, <3>2
    <2>2. CASE row.username # run.cfg.username
      <3>1. row' = row /\ run' = NoRun /\ UNCHANGED <<author, covered>>
        BY <1>7, <2>2 DEF ResolveUserID, siteVars
      <3> QED
        BY <1>e, <3>1 DEF NoRun
    <2> QED
      BY <2>1, <2>2
  <1>8. CASE FetchPage
    BY <1>8, FetchCursor
  <1>9. CASE SkipTweet \/ InsertArticle \/ InsertFails
    <2>1. /\ run.pc \in Archiving /\ run.todo # {}
          /\ run' = Visit(Min(run.todo), "archive") /\ UNCHANGED <<row, author, covered>>
      BY <1>9 DEF SkipTweet, InsertArticle, InsertFails, siteVars, Archiving, Types, RunTweets
    <2> QED
      BY <2>1, MinTodo, VisitCursor
  <1>10. CASE StoreMedia \/ LoopEnds \/ Cancel
    <2>1. UNCHANGED <<row, author, covered>>
      BY <1>10 DEF StoreMedia, LoopEnds, Cancel, siteVars
    <2>2. /\ run'.got = run.got /\ run'.todo = run.todo /\ run'.visited = run.visited
          /\ run'.dropped = run.dropped /\ run'.uid = run.uid /\ run'.cfg = run.cfg
      BY <1>0, <1>10 DEF StoreMedia, LoopEnds, Cancel, Run
    <2>3. /\ run'.pc = "fetch" => run.pc = "fetch"
          /\ run'.pc \in Archiving => run.pc \in Archiving
          /\ run.cancelled => run'.cancelled
          /\ run'.pc = "finish" => run.pc = "finish" \/ run.todo = {}
      BY <1>0, <1>10 DEF StoreMedia, LoopEnds, Cancel, Run, Archiving
    <2>4. Scope' = Scope
      BY <2>1, <2>2 DEF Scope, Tweets
    <2> QED
      BY <2>1, <2>2, <2>3, <2>4, KeepCursor DEF CursorInv, NoGap, Accounted
  <1>11. CASE Succeed
    BY <1>11, SucceedCursor
  <1>12. CASE RunFails \/ Crash
    <2>1. run' = NoRun /\ UNCHANGED <<row, author, covered>>
      BY <1>12 DEF RunFails, Crash, siteVars
    <2> QED
      BY <1>e, <2>1 DEF NoRun
  <1> QED
    BY <1>1, <1>2, <1>3, <1>4, <1>5, <1>6, <1>7, <1>8, <1>9, <1>10, <1>11, <1>12
       DEF Next, RunStep

(* Nothing skipped: every tweet of the account between the start date and  *)
(* the cursor was come to by a run of the settings in force or cut off by  *)
(* its limits, for every page size, page cap and first-run limit, whatever *)
(* is posted between two pages, cancelled, retried or reset meanwhile, as  *)
(* long as settings requests do not overlap one another.                   *)
THEOREM NothingSkipped == OneAdmin /\ Spec => []CursorSkipsNothing
  <1> SUFFICES ASSUME OneAdmin
               PROVE  Spec => []CursorSkipsNothing
    OBVIOUS
  <1>1. Init => Types /\ Identity /\ CursorInv
    BY InitTypes, InitIdentity, InitCursor
  <1>2. (Types /\ Identity /\ CursorInv) /\ [Next]_vars => (Types /\ Identity /\ CursorInv)'
    BY NextTypes, NextIdentity, NextCursor
  <1>3. CursorInv => CursorSkipsNothing
    BY DEF CursorInv
  <1> QED
    BY <1>1, <1>2, <1>3, PTL DEF Spec
=============================================================================
