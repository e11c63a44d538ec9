-------------------------- MODULE PublishingProofs --------------------------
(***************************************************************************)
(* Proofs about Publishing: its types, that a schedule's selections act at *)
(* most once, and that a scheduled article keeps a row that publishes it.  *)
(* Proofs about PagePublishing, on the same worker: the same for a page,   *)
(* as far as its saves without a transaction allow.  Proofs about          *)
(* Crosspost: a retry repeats no post whose URL could be recorded.         *)
(***************************************************************************)
EXTENDS Publishing, PagePublishing, Crosspost, HandlerRunsProofs, FiniteSetTheorems

Types == RunInv /\ TypeOK

LEMMA IdleRequest == NoArticle \in Article /\ Idle \in Request
  BY PublishRowsAssumption, PublishingAssumption DEF NoArticle, Article, ArticleStatus, Row, Idle, Request

LEMMA EnqueuedType ==
    ASSUME TypeOK, NEW n, NEW sel
    PROVE  Enqueued(n, sel) \in [1..MaxSaves -> [Effects -> Nat]]
  <1> DEFINE v == [e \in Effects |-> IF e \in sel THEN queued[n][e] + 1 ELSE queued[n][e]]
  <1>1. queued \in [1..MaxSaves -> [Effects -> Nat]] /\ Enqueued(n, sel) = [queued EXCEPT ![n] = v]
    BY DEF TypeOK, Enqueued
  <1>2. n \in 1..MaxSaves => v \in [Effects -> Nat]
    BY <1>1
  <1> HIDE DEF v
  <1> QED
    BY <1>1, <1>2

LEMMA CancelledRows ==
    ASSUME NEW T \in JobTable, NEW k
    PROVE  /\ CancelQueuedPublishJobs(T, k) \in JobTable
           /\ \A i \in JobIds :
                \/ CancelQueuedPublishJobs(T, k)[i] = T[i]
                \/ Queued(T, i) /\ CancelQueuedPublishJobs(T, k)[i] = NoRow
  BY DEF CancelQueuedPublishJobs, JobTable

(* The statements of the admin requests on job_runs. *)
LEMMA CancelInv ==
    ASSUME RunInv, jobs' = CancelQueuedPublishJobs(jobs, Publish),
           UNCHANGED <<clock, runner, faults, crashes>>
    PROVE  RunInv'
  <1>1. jobs \in JobTable /\ faults' \in 0..MaxFaults
    BY DEF RunInv, RunTypeOK
  <1>2. /\ jobs' \in JobTable
        /\ \A i \in JobIds : jobs'[i] = jobs[i] \/ (Queued(jobs, i) /\ jobs'[i] = NoRow)
    BY <1>1, CancelledRows
  <1>3. AttemptLeft'
    BY <1>2, JobRunsAssumption DEF RunInv, AttemptLeft, NoRow
  <1>4. \A i \in JobIds : jobs[i].status = "running" => jobs'[i].status = "running"
    BY <1>2 DEF Queued
  <1> QED
    BY <1>1, <1>2, <1>3, <1>4, WriterInv

LEMMA SaveScheduleRows ==
    ASSUME Types, NEW a \in Admins, SaveSchedule(a)
    PROVE  /\ RunInv'
           /\ \E at \in Nat \ {0}, sel \in SUBSET Effects, i \in JobIds :
                /\ art' = Row("schedule", at, sel, saves + 1)
                /\ jobs'[i].status = "queued" /\ jobs'[i].runAt = at
  <1> DEFINE T == CancelQueuedPublishJobs(jobs, Publish)
  <1>1. PICK at \in 1..MaxTime, sel \in SUBSET Effects, i \in JobIds :
          /\ IsNextRowId(T, i)
          /\ jobs' = EnqueueJobRun(T, i, Publish, at, clock)
          /\ art' = Row("schedule", at, sel, saves + 1)
    BY DEF SaveSchedule
  <1>2. jobs \in JobTable /\ clock \in Nat /\ at \in Nat \ {0} /\ faults \in 0..MaxFaults
        /\ UNCHANGED <<clock, runner, faults, crashes>>
    BY HandlerRunsAssumption DEF Types, RunInv, RunTypeOK, SaveSchedule
  <1>3. /\ T \in JobTable
        /\ \A j \in JobIds : T[j] = jobs[j] \/ (Queued(jobs, j) /\ T[j] = NoRow)
    BY <1>2, CancelledRows
  <1> HIDE DEF T
  <1>4. /\ jobs' \in JobTable /\ T[i] = NoRow
        /\ jobs'[i] = [kind |-> Publish, status |-> "queued", runAt |-> at,
                       attempts |-> 0, updatedAt |-> clock]
        /\ \A j \in JobIds \ {i} : jobs'[j] = T[j]
    BY <1>1, <1>2, <1>3, EnqueueRows, PublishRowsAssumption, PublishingAssumption
  <1>5. AttemptLeft'
    BY <1>3, <1>4, JobRunsAssumption DEF Types, RunInv, AttemptLeft, NoRow
  <1>6. \A j \in JobIds : jobs[j].status = "running" => jobs'[j].status = "running"
    BY <1>3, <1>4 DEF Queued, NoRow
  <1>7. RunInv'
    BY <1>2, <1>4, <1>5, <1>6, WriterInv DEF Types
  <1> QED
    BY <1>1, <1>2, <1>4, <1>7

LEMMA InitTypes ==
    ASSUME Init
    PROVE  Types
  <1>1. RunInv
    BY RunInitInv DEF Init
  <1> QED
    BY <1>1, IdleRequest, PublishRowsAssumption, PublishingAssumption DEF Init, Types, TypeOK, RunInv

LEMMA AdminTypes ==
    ASSUME Types, NEW a \in Admins, AdminStep(a)
    PROVE  Types'
  <1> USE DEF Types
  <1>0. /\ RunInv /\ art \in Article /\ seen \in Article /\ req \in [Admins -> Request]
        /\ saves \in 0..MaxSaves /\ queued \in [1..MaxSaves -> [Effects -> Nat]]
    BY DEF TypeOK
  <1>1. CASE SavePlain(a)
    <2>1. art' \in Article
      BY <1>1, PublishRowsAssumption, PublishingAssumption, HandlerRunsAssumption
         DEF SavePlain, Article, ArticleStatus, Row
    <2> QED
      BY <1>0, <1>1, <2>1 DEF SavePlain, TypeOK, RunInv, RunTypeOK, AttemptLeft, HeldRowRuns
  <1>2. CASE SaveSchedule(a)
    <2>1. RunInv'
      BY <1>2, SaveScheduleRows
    <2>2. PICK at \in Nat \ {0}, sel \in SUBSET Effects :
            art' = Row("schedule", at, sel, saves + 1)
      BY <1>2, SaveScheduleRows
    <2>3. saves' \in 0..MaxSaves /\ saves + 1 \in 0..MaxSaves
      BY <1>0, <1>2, PublishRowsAssumption, PublishingAssumption DEF SaveSchedule
    <2>4. art' \in Article
      BY <2>2, <2>3 DEF Row, Article, ArticleStatus
    <2> QED
      BY <1>0, <1>2, <2>1, <2>3, <2>4 DEF SaveSchedule, TypeOK, RunInv
  <1>3. CASE AskTransition(a)
    BY <1>0, <1>3
       DEF AskTransition, TypeOK, Request, runVars, RunInv, RunTypeOK, AttemptLeft, HeldRowRuns
  <1>4. CASE CommitTransition(a)
    <2>1. UNCHANGED <<clock, jobs, runner, faults, crashes, seen, saves>>
          /\ req' = [req EXCEPT ![a] = Idle] /\ req[a].op \in Targets
      BY <1>4 DEF CommitTransition, runVars
    <2>2. RunInv'
      BY <1>0, <2>1 DEF RunInv, RunTypeOK, AttemptLeft, HeldRowRuns
    <2>3. art' \in Article
      <3>1. art' = art \/ art' = Row(req[a].op, art.at, {}, 0)
        BY <1>4 DEF CommitTransition
      <3>2. Row(req[a].op, art.at, {}, 0) \in Article
        <4>1. art.at \in Nat
          BY <1>0 DEF Article
        <4>2. req[a].op \in ArticleStatus
          BY <2>1, PublishRowsAssumption, PublishingAssumption DEF ArticleStatus
        <4>3. 0 \in 0..MaxSaves /\ {} \in SUBSET Effects
          BY PublishRowsAssumption, PublishingAssumption
        <4> QED
          BY <4>1, <4>2, <4>3 DEF Article, Row
      <3> QED
        BY <1>0, <3>1, <3>2
    <2>4. \/ queued' = queued
          \/ \E n, ready : queued' = Enqueued(n, ready)
      BY <1>4 DEF CommitTransition
    <2>5. queued' \in [1..MaxSaves -> [Effects -> Nat]]
      BY <1>0, <2>4, EnqueuedType
    <2>6. req' \in [Admins -> Request]
      BY <1>0, <2>1, IdleRequest
    <2> QED
      BY <1>0, <2>1, <2>2, <2>3, <2>5, <2>6 DEF TypeOK, RunInv
  <1>5. CASE AskDestroy(a)
    BY <1>0, <1>5
       DEF AskDestroy, TypeOK, Request, runVars, RunInv, RunTypeOK, AttemptLeft, HeldRowRuns
  <1>6. CASE Destroy(a)
    <2>1. RunInv'
      BY <1>0, <1>6, CancelInv DEF Destroy
    <2>2. art' \in Article /\ req' \in [Admins -> Request]
      BY <1>0, <1>6, IdleRequest DEF Destroy
    <2> QED
      BY <1>0, <1>6, <2>1, <2>2 DEF Destroy, TypeOK, RunInv
  <1> QED
    BY <1>1, <1>2, <1>3, <1>4, <1>5, <1>6 DEF AdminStep

LEMMA WorkerTypes ==
    ASSUME Types, RunStep \/ Load \/ Flip \/ CrashProcess \/ PassTime
    PROVE  Types'
  <1> USE DEF Types
  <1>0. /\ RunInv /\ art \in Article /\ seen \in Article /\ req \in [Admins -> Request]
        /\ saves \in 0..MaxSaves /\ queued \in [1..MaxSaves -> [Effects -> Nat]]
    BY DEF TypeOK
  <1>r. KeepRequests => req' \in [Admins -> Request]
    BY <1>0, IdleRequest DEF KeepRequests
  <1>1. CASE RunStep
    <2>1. CASE GetDue /\ UNCHANGED artVars
      BY <1>0, <2>1, GetDueInv DEF artVars, TypeOK, RunInv
    <2>2. CASE Claim /\ UNCHANGED artVars
      BY <1>0, <2>2, ClaimInv DEF artVars, TypeOK, RunInv
    <2>3. CASE LostRace /\ UNCHANGED artVars
      BY <1>0, <2>3, LostRaceInv DEF artVars, TypeOK, RunInv
    <2>4. CASE Book /\ KeepRequests /\ UNCHANGED <<art, seen, saves, queued>>
      BY <1>0, <1>r, <2>4, BookInv DEF TypeOK, RunInv
    <2>5. CASE HandlerError /\ seen' = NoArticle /\ UNCHANGED <<art, req, saves, queued>>
      <3>1. RunInv'
        BY <1>0, <2>5, ReturnErrorInv DEF HandlerError, Holds
      <3> QED
        BY <1>0, <2>5, <3>1, IdleRequest DEF TypeOK, RunInv
    <2>6. CASE Restart /\ UNCHANGED artVars
      BY <1>0, <2>6, RestartInv DEF artVars, TypeOK, RunInv
    <2> QED
      BY <1>1, <2>1, <2>2, <2>3, <2>4, <2>5, <2>6 DEF RunStep
  <1>2. CASE Load
    <2>1. RunInv'
      <3>1. Proceed("write") \/ Proceed("book")
        BY <1>2 DEF Load
      <3> QED
        BY <1>0, <1>2, <3>1, ProceedInv DEF Load, Holds
    <2> QED
      BY <1>0, <1>2, <2>1 DEF Load, TypeOK, RunInv
  <1>3. CASE Flip
    <2>1. RunInv'
      BY <1>0, <1>3, ProceedInv DEF Flip, Holds
    <2>2. art' \in Article /\ queued' \in [1..MaxSaves -> [Effects -> Nat]]
      BY <1>0, <1>3, EnqueuedType, PublishRowsAssumption, PublishingAssumption
         DEF Flip, Row, Article, ArticleStatus
    <2> QED
      BY <1>0, <1>3, <2>1, <2>2, IdleRequest DEF Flip, TypeOK, RunInv
  <1>4. CASE CrashProcess
    BY <1>0, <1>r, <1>4, CrashInv, IdleRequest DEF CrashProcess, TypeOK, RunInv
  <1>5. CASE PassTime
    BY <1>0, <1>5, TickInv DEF PassTime, artVars, TypeOK, RunInv
  <1> QED
    BY <1>1, <1>2, <1>3, <1>4, <1>5

LEMMA StutterTypes ==
    ASSUME Types, UNCHANGED vars
    PROVE  Types'
  BY DEF vars, Types, TypeOK, RunInv, RunTypeOK, AttemptLeft, HeldRowRuns

LEMMA NextTypes ==
    ASSUME Types, [Next]_vars
    PROVE  Types'
  BY AdminTypes, WorkerTypes, StutterTypes DEF Next

(* Types: the article, the requests and the rows of job_runs keep their    *)
(* types, and a row the worker executes stays running under its hands,     *)
(* whatever articles.Save, TransitionStatus, Destroy and the publish       *)
(* handler do.                                                             *)
THEOREM TypesHold == Spec => []Types
  BY InitTypes, NextTypes, PTL DEF Spec

-----------------------------------------------------------------------------
(* Consumed once.                                                          *)

(* No selection of schedule n has become a job. *)
Fresh(n) == \A e \in Effects : queued[n][e] = 0

(* A schedule is fresh as long as a flip can still act on it: before it is *)
(* saved, while the article carries its token, and while the handler that  *)
(* read it has not flipped the article.                                    *)
OnceInv ==
    /\ SnapshotConsumedOnce
    /\ \A n \in 1..MaxSaves : n > saves => Fresh(n)
    /\ art.status = "schedule" => art.token \in 1..MaxSaves /\ Fresh(art.token)
    /\ art.token <= saves
    /\ runner.pc = "write" =>
        seen.token \in 1..MaxSaves /\ seen.token <= saves /\ Fresh(seen.token)

LEMMA EnqueuedOnce ==
    ASSUME TypeOK, OnceInv, NEW n \in 1..MaxSaves, Fresh(n), NEW sel
    PROVE  /\ \A m \in 1..MaxSaves, e \in Effects : Enqueued(n, sel)[m][e] <= 1
           /\ \A m \in 1..MaxSaves \ {n} : Enqueued(n, sel)[m] = queued[m]
  <1> DEFINE v == [e \in Effects |-> IF e \in sel THEN queued[n][e] + 1 ELSE queued[n][e]]
  <1>1. queued \in [1..MaxSaves -> [Effects -> Nat]] /\ Enqueued(n, sel) = [queued EXCEPT ![n] = v]
    BY DEF TypeOK, Enqueued
  <1>2. \A e \in Effects : v[e] <= 1
    BY DEF Fresh
  <1> HIDE DEF v
  <1>3. Enqueued(n, sel)[n] = v /\ \A m \in 1..MaxSaves \ {n} : Enqueued(n, sel)[m] = queued[m]
    BY <1>1
  <1> QED
    BY <1>2, <1>3 DEF OnceInv, SnapshotConsumedOnce

LEMMA InitOnce ==
    ASSUME Init
    PROVE  OnceInv
  BY PublishRowsAssumption, PublishingAssumption
     DEF Init, RunInit, At, OnceInv, SnapshotConsumedOnce, Fresh, NoArticle, Row

LEMMA AdminOnce ==
    ASSUME "publish" \notin Targets, Types, OnceInv, NEW a \in Admins, AdminStep(a)
    PROVE  OnceInv'
  <1>0. /\ saves \in 0..MaxSaves /\ saves \in Nat /\ MaxSaves \in Nat
        /\ art \in Article /\ art.token \in Nat
    BY PublishRowsAssumption, PublishingAssumption DEF Types, TypeOK, Article
  <1>1. CASE SavePlain(a)
    BY <1>0, <1>1 DEF SavePlain, OnceInv, SnapshotConsumedOnce, Fresh, Row
  <1>2. CASE SaveSchedule(a)
    <2>1. /\ art'.token = saves + 1 /\ saves' = saves + 1 /\ saves + 1 \in 1..MaxSaves
          /\ UNCHANGED <<runner, seen, queued>>
      BY <1>0, <1>2 DEF SaveSchedule, Row
    <2> QED
      BY <1>0, <2>1 DEF OnceInv, SnapshotConsumedOnce, Fresh
  <1>3. CASE AskTransition(a)
    BY <1>3 DEF AskTransition, runVars, OnceInv, SnapshotConsumedOnce, Fresh
  <1>4. CASE CommitTransition(a)
    <2>1. /\ UNCHANGED <<runner, seen, saves>> /\ req[a].op \in Targets
          /\ \/ art' = art
             \/ art' = Row(req[a].op, art.at, {}, 0)
      BY <1>4 DEF CommitTransition, runVars
    <2>2. queued' = queued
      BY <1>4, <2>1 DEF CommitTransition
    <2>3. art' = art \/ (art'.status # "schedule" /\ art'.token = 0)
      BY <2>1, PublishRowsAssumption, PublishingAssumption DEF Row
    <2> QED
      BY <1>0, <2>1, <2>2, <2>3 DEF OnceInv, SnapshotConsumedOnce, Fresh
  <1>5. CASE AskDestroy(a)
    BY <1>5 DEF AskDestroy, runVars, OnceInv, SnapshotConsumedOnce, Fresh
  <1>6. CASE Destroy(a)
    BY <1>0, <1>6 DEF Destroy, OnceInv, SnapshotConsumedOnce, Fresh, NoArticle, Row
  <1> QED
    BY <1>1, <1>2, <1>3, <1>4, <1>5, <1>6 DEF AdminStep

LEMMA WorkerOnce ==
    ASSUME Types, OnceInv, RunStep \/ Load \/ Flip \/ CrashProcess \/ PassTime
    PROVE  OnceInv'
  <1>0. /\ RunInv /\ TypeOK /\ saves \in 0..MaxSaves /\ MaxSaves \in Nat
        /\ art \in Article /\ seen \in Article
    BY PublishRowsAssumption, PublishingAssumption DEF Types, TypeOK
  <1>k. ASSUME UNCHANGED <<art, saves, queued>>,
               runner'.pc = "write" => runner.pc = "write" /\ seen' = seen
        PROVE  OnceInv'
    BY <1>k DEF OnceInv, SnapshotConsumedOnce, Fresh
  <1>1. CASE RunStep
    <2>1. UNCHANGED <<art, saves, queued>>
      BY <1>1 DEF RunStep, artVars
    <2>2. runner'.pc # "write"
      <3>1. CASE GetDue
        BY <1>0, <3>1, GetDueInv
      <3>2. CASE Claim
        BY <1>0, <3>2, ClaimInv
      <3>3. CASE LostRace
        BY <1>0, <3>3, LostRaceInv
      <3>4. CASE Book
        BY <1>0, <3>4, BookInv
      <3>5. CASE HandlerError
        BY <1>0, <3>5, ReturnErrorInv DEF HandlerError, Holds
      <3>6. CASE Restart
        BY <1>0, <3>6, RestartInv
      <3> QED
        BY <1>1, <3>1, <3>2, <3>3, <3>4, <3>5, <3>6 DEF RunStep
    <2> QED
      BY <1>k, <2>1, <2>2
  <1>2. CASE Load
    <2>1. UNCHANGED <<art, saves, queued>>
      BY <1>2 DEF Load
    <2>2. CASE DueNow(art)
      BY <1>2, <2>1, <2>2 DEF Load, DueNow, OnceInv, SnapshotConsumedOnce, Fresh
    <2>3. CASE ~DueNow(art)
      <3>1. runner'.pc = "book"
        BY <1>0, <1>2, <2>3, ProceedInv DEF Load, Holds
      <3> QED
        BY <1>k, <2>1, <3>1
    <2> QED
      BY <2>2, <2>3
  <1>3. CASE Flip
    <2>1. runner'.pc = "book" /\ runner.pc = "write" /\ saves' = saves
      BY <1>0, <1>3, ProceedInv DEF Flip, Holds
    <2>2. CASE art.status = "schedule"
      <3>1. /\ art'.status = "publish" /\ art'.token = 0
            /\ queued' = Enqueued(seen.token, seen.sel)
        BY <1>3, <2>2 DEF Flip, Row
      <3>2. seen.token \in 1..MaxSaves /\ seen.token <= saves /\ Fresh(seen.token)
        BY <2>1 DEF OnceInv
      <3>3. /\ \A m \in 1..MaxSaves, e \in Effects : queued'[m][e] <= 1
            /\ \A m \in 1..MaxSaves \ {seen.token} : queued'[m] = queued[m]
        BY <1>0, <3>1, <3>2, EnqueuedOnce
      <3> QED
        BY <1>0, <2>1, <3>1, <3>2, <3>3 DEF OnceInv, SnapshotConsumedOnce, Fresh
    <2>3. CASE art.status # "schedule"
      <3>1. UNCHANGED <<art, queued>>
        BY <1>3, <2>3 DEF Flip
      <3> QED
        BY <1>k, <2>1, <3>1
    <2> QED
      BY <2>2, <2>3
  <1>4. CASE CrashProcess
    BY <1>0, <1>4, <1>k, CrashInv DEF CrashProcess
  <1>5. CASE PassTime
    BY <1>5, <1>k DEF PassTime, Tick, artVars
  <1> QED
    BY <1>1, <1>2, <1>3, <1>4, <1>5

LEMMA NextOnce ==
    ASSUME "publish" \notin Targets, Types, OnceInv, [Next]_vars
    PROVE  OnceInv'
  <1>1. CASE UNCHANGED vars
    BY <1>1 DEF vars, OnceInv, SnapshotConsumedOnce, Fresh
  <1> QED
    BY <1>1, AdminOnce, WorkerOnce DEF Next

(* Consumed once: no selection saved with a schedule becomes more than one *)
(* job, for any number of admins, retries, crashes and reschedules, as     *)
(* long as nobody presses Publish on a scheduled article: TransitionStatus *)
(* acts on the selections it read before its transaction.                  *)
THEOREM ConsumedOnce ==
    ("publish" \notin Targets) /\ Spec => []SnapshotConsumedOnce
  <1> SUFFICES ASSUME "publish" \notin Targets
               PROVE  Spec => []SnapshotConsumedOnce
    OBVIOUS
  <1>1. Init => Types /\ OnceInv
    BY InitTypes, InitOnce
  <1>2. (Types /\ OnceInv) /\ [Next]_vars => (Types /\ OnceInv)'
    BY NextTypes, NextOnce
  <1>3. OnceInv => SnapshotConsumedOnce
    BY DEF OnceInv
  <1> QED
    BY <1>1, <1>2, <1>3, PTL DEF Spec

-----------------------------------------------------------------------------
(* A schedule keeps its row.                                               *)

(* Row i will still bring the article to its publication: it is to run at  *)
(* scheduled_at or later, or it used up its attempts.  A row whose handler *)
(* returned without an error is about to be done and covers nothing.       *)
Covers(i) ==
    /\ \/ jobs[i].status \in {"queued", "running"} /\ jobs[i].runAt >= art.at
       \/ jobs[i].status = "failed" /\ jobs[i].attempts >= MaxAttempts
    /\ ~(runner.pc = "book" /\ runner.outcome = "ok" /\ runner.id = i)

(* The row the worker picked was due when it was picked. *)
PickedWasDue ==
    /\ runner.pc \in {"claim"} \cup Holds => jobs[runner.id].runAt <= runner.now
    /\ runner.now <= clock

CoverInv ==
    /\ PickedWasDue
    /\ art.status = "schedule" => art.at # 0 /\ \E i \in JobIds : Covers(i)

LEMMA InitCover ==
    ASSUME Init
    PROVE  CoverInv
  BY DEF Init, RunInit, At, CoverInv, PickedWasDue, Holds, NoArticle, Row

(* With Races FALSE a request finds the worker idle. *)
LEMMA AdminCover ==
    ASSUME ~Races, Types, CoverInv, NEW a \in Admins, AdminStep(a)
    PROVE  CoverInv'
  <1>i. runner.pc = "idle" /\ UNCHANGED <<runner, clock>>
    BY DEF AdminStep, SavePlain, SaveSchedule, AskTransition, CommitTransition,
           AskDestroy, Destroy, May, Undisturbed, runVars
  <1>p. PickedWasDue'
    BY <1>i DEF CoverInv, PickedWasDue, Holds
  <1>1. CASE SavePlain(a)
    BY <1>p, <1>1 DEF SavePlain, CoverInv, Row
  <1>2. CASE SaveSchedule(a)
    <2>1. PICK at \in Nat \ {0}, sel \in SUBSET Effects, i \in JobIds :
            /\ art' = Row("schedule", at, sel, saves + 1)
            /\ jobs'[i].status = "queued" /\ jobs'[i].runAt = at
      BY <1>2, SaveScheduleRows
    <2>2. art'.at = at
      BY <2>1 DEF Row
    <2>3. Covers(i)'
      BY <1>i, <2>1, <2>2 DEF Covers
    <2> QED
      BY <1>p, <2>2, <2>3 DEF CoverInv
  <1>3. CASE AskTransition(a)
    BY <1>p, <1>3 DEF AskTransition, runVars, CoverInv, Covers
  <1>4. CASE CommitTransition(a)
    <2>1. /\ UNCHANGED <<jobs, runner>> /\ req[a].op \in Targets
          /\ \/ art' = art
             \/ art' = Row(req[a].op, art.at, {}, 0)
      BY <1>4 DEF CommitTransition, runVars
    <2>2. art' = art \/ art'.status # "schedule"
      BY <2>1, PublishRowsAssumption, PublishingAssumption DEF Row
    <2> QED
      BY <1>p, <2>1, <2>2 DEF CoverInv, Covers
  <1>5. CASE AskDestroy(a)
    BY <1>p, <1>5 DEF AskDestroy, runVars, CoverInv, Covers
  <1>6. CASE Destroy(a)
    BY <1>p, <1>6 DEF Destroy, CoverInv, NoArticle, Row
  <1> QED
    BY <1>1, <1>2, <1>3, <1>4, <1>5, <1>6 DEF AdminStep

LEMMA WorkerCover ==
    ASSUME Types, CoverInv, RunStep \/ Load \/ Flip \/ CrashProcess \/ PassTime
    PROVE  CoverInv'
  <1>0. /\ RunInv /\ TypeOK /\ art \in Article /\ art.at \in Nat /\ jobs \in JobTable
        /\ clock \in Nat /\ runner \in Runner /\ runner.now \in Nat /\ PickedWasDue
    BY DEF Types, TypeOK, RunInv, RunTypeOK, Article, Runner, CoverInv
  <1>t. \A i \in JobIds : jobs[i].runAt \in Nat
    BY <1>0, RowTypes
  <1>k. ASSUME art' = art, PickedWasDue',
               \A i \in JobIds : art.status = "schedule" /\ Covers(i) => Covers(i)'
        PROVE  CoverInv'
    BY <1>k DEF CoverInv
  <1>1. CASE GetDue /\ UNCHANGED artVars
    <2>1. /\ runner'.pc = "claim" /\ runner'.id \in Due(jobs, clock)
          /\ runner'.now = clock /\ UNCHANGED <<clock, jobs>> /\ art' = art
      BY <1>0, <1>1, GetDueInv DEF artVars
    <2>2. PickedWasDue'
      BY <1>0, <2>1 DEF PickedWasDue, Due
    <2> QED
      BY <1>k, <2>1, <2>2 DEF Covers
  <1>2. CASE Claim /\ UNCHANGED artVars
    <2> DEFINE h == runner.id
    <2>1. /\ runner'.pc = "load" /\ runner'.id = h /\ h \in JobIds /\ Queued(jobs, h)
          /\ jobs'[h].runAt = jobs[h].runAt
          /\ \A i \in JobIds \ {h} : jobs'[i] = jobs[i]
          /\ RunInv' /\ clock' = clock /\ art' = art
      BY <1>0, <1>2, ClaimInv DEF artVars, Claim
    <2>2. jobs'[h].status = "running" /\ runner'.now = runner.now /\ runner.pc = "claim"
      BY <1>0, <1>2, <2>1 DEF Claim, Runner, RunInv, HeldRowRuns, Holds
    <2>3. PickedWasDue'
      BY <1>0, <2>1, <2>2 DEF PickedWasDue
    <2> QED
      BY <1>k, <2>1, <2>2, <2>3 DEF Covers, Queued
  <1>3. CASE LostRace /\ UNCHANGED artVars
    <2>1. runner' = At("idle") /\ UNCHANGED <<clock, jobs, art>>
      BY <1>3 DEF LostRace, artVars
    <2> QED
      BY <1>0, <1>k, <2>1 DEF At, PickedWasDue, Covers, Holds
  <1>4. CASE Book /\ KeepRequests /\ UNCHANGED <<art, seen, saves, queued>>
    <2> DEFINE h == runner.id
    <2>1. /\ runner.pc = "book" /\ h \in JobIds /\ jobs[h].status = "running"
          /\ runner'.pc \in {"down", "idle"} /\ runner'.now = 0 /\ clock' = clock /\ art' = art
          /\ \A i \in JobIds \ {h} : jobs'[i] = jobs[i]
      BY <1>0, <1>4, BookInv DEF Book, At
    <2>2. \/ runner.outcome = "ok" /\ jobs'[h].status = "done"
          \/ /\ runner.outcome = "canceled" /\ jobs'[h].status = "queued"
             /\ jobs'[h].runAt = runner.now
          \/ /\ runner.outcome = "error" /\ jobs'[h].status = "queued"
             /\ jobs'[h].runAt = runner.now + RetryDelay
          \/ /\ runner.outcome = "error" /\ jobs'[h].status = "failed"
             /\ jobs'[h].attempts >= MaxAttempts
      BY <1>0, <1>4, BookInv
    <2>3. PickedWasDue'
      BY <1>0, <2>1 DEF PickedWasDue, Holds
    <2>4. jobs[h].runAt <= runner.now
      BY <1>0, <2>1 DEF PickedWasDue, Holds
    <2>5. ASSUME NEW i \in JobIds, Covers(i)
          PROVE  Covers(i)'
      <3>1. CASE i # h
        BY <2>1, <2>5, <3>1 DEF Covers
      <3>2. CASE i = h
        <4>1. runner.outcome # "ok" /\ jobs[h].runAt >= art.at
          BY <2>1, <2>5, <3>2 DEF Covers
        <4>2. runner.now >= art.at /\ runner.now + RetryDelay >= art.at
          BY <1>0, <1>t, <2>1, <2>4, <4>1, HandlerRunsAssumption
        <4> QED
          BY <2>1, <2>2, <3>2, <4>1, <4>2 DEF Covers
      <3> QED
        BY <3>1, <3>2
    <2> QED
      BY <1>k, <2>1, <2>3, <2>5
  <1>5. CASE HandlerError /\ seen' = NoArticle /\ UNCHANGED <<art, req, saves, queued>>
    <2>1. /\ runner.pc \in Holds /\ runner'.pc = "book" /\ runner'.id = runner.id
          /\ UNCHANGED <<clock, jobs, art>>
      BY <1>0, <1>5, ReturnErrorInv DEF HandlerError, ReturnError, Holds
    <2>2. runner'.outcome # "ok" /\ runner'.now = runner.now
      BY <1>0, <1>5 DEF HandlerError, ReturnError, Runner
    <2>3. PickedWasDue'
      BY <1>0, <2>1, <2>2 DEF PickedWasDue, Holds
    <2> QED
      BY <1>k, <2>1, <2>2, <2>3 DEF Covers
  <1>6. CASE Restart /\ UNCHANGED artVars
    <2>1. /\ runner' = At("idle") /\ clock' = clock /\ art' = art
          /\ \A i \in JobIds :
                \/ jobs'[i] = jobs[i]
                \/ /\ jobs[i].status = "running" /\ jobs'[i].runAt = jobs[i].runAt
                   /\ \/ jobs'[i].status = "queued"
                      \/ jobs'[i].status = "failed" /\ jobs'[i].attempts >= MaxAttempts
      BY <1>0, <1>6, RestartInv DEF artVars, Restart
    <2>2. runner'.pc = "idle" /\ PickedWasDue'
      BY <1>0, <2>1 DEF PickedWasDue, Holds, At
    <2>3. \A i \in JobIds : Covers(i) => Covers(i)'
      BY <2>1, <2>2 DEF Covers
    <2> QED
      BY <1>k, <2>1, <2>2, <2>3
  <1>7. CASE Load
    <2>0. /\ runner.pc = "load" /\ UNCHANGED <<clock, jobs, art>>
          /\ runner'.now = runner.now /\ runner'.id = runner.id
          /\ runner'.pc = (IF DueNow(art) THEN "write" ELSE "book")
      BY <1>0, <1>7 DEF Load, Proceed, Runner
    <2>1. PickedWasDue'
      BY <1>0, <2>0 DEF PickedWasDue, Holds
    <2>2. ASSUME NEW i \in JobIds, Covers(i), art.status = "schedule"
          PROVE  Covers(i)'
      <3>1. CASE i # runner.id
        BY <2>0, <2>2, <3>1 DEF Covers
      <3>2. CASE i = runner.id
        <4>1. jobs[i].status = "running" /\ jobs[i].runAt >= art.at
          BY <1>0, <2>0, <2>2, <3>2 DEF RunInv, HeldRowRuns, Holds, Covers
        <4>2. jobs[i].runAt <= runner.now /\ runner.now <= clock
          BY <1>0, <2>0, <3>2 DEF PickedWasDue, Holds
        <4>3. art.at <= clock /\ art.at # 0
          BY <1>0, <1>t, <2>2, <4>1, <4>2 DEF CoverInv
        <4>4. runner'.pc = "write"
          BY <2>0, <2>2, <4>3 DEF DueNow
        <4> QED
          BY <2>0, <2>2, <4>4 DEF Covers
      <3> QED
        BY <3>1, <3>2
    <2> QED
      BY <1>k, <2>0, <2>1, <2>2
  <1>8. CASE Flip
    <2>1. /\ runner.pc = "write" /\ UNCHANGED <<clock, jobs>>
          /\ runner'.now = runner.now /\ runner'.id = runner.id
          /\ art'.status # "schedule"
      BY <1>0, <1>8 DEF Flip, Proceed, Runner, Row
    <2> QED
      BY <1>0, <2>1 DEF CoverInv, PickedWasDue, Holds
  <1>9. CASE CrashProcess
    <2>1. runner' = At("down") /\ UNCHANGED <<clock, jobs, art>>
      BY <1>9 DEF CrashProcess, Crash
    <2> QED
      BY <1>0, <1>k, <2>1 DEF At, PickedWasDue, Covers, Holds
  <1>10. CASE PassTime
    <2>1. clock' = clock + 1 /\ UNCHANGED <<runner, jobs, art>>
      BY <1>10 DEF PassTime, Tick, artVars
    <2> QED
      BY <1>0, <1>k, <2>1 DEF PickedWasDue, Covers
  <1> QED
    BY <1>1, <1>2, <1>3, <1>4, <1>5, <1>6, <1>7, <1>8, <1>9, <1>10 DEF RunStep

LEMMA NextCover ==
    ASSUME ~Races, Types, CoverInv, [Next]_vars
    PROVE  CoverInv'
  <1>1. CASE UNCHANGED vars
    BY <1>1 DEF vars, CoverInv, PickedWasDue, Covers
  <1> QED
    BY <1>1, AdminCover, WorkerCover DEF Next

(* Covered: whenever an article is scheduled, a row of job_runs will still *)
(* run at its scheduled_at or later, runs, or used up its attempts, after  *)
(* any number of saves, failing runs, crashes and recoveries, provided no  *)
(* request overlaps a publication that is due.  Without that, a save can   *)
(* give a new row the id the worker is about to claim (see the README).    *)
THEOREM Covered == ~Races /\ Spec => []ScheduledArticleHasJob
  <1> SUFFICES ASSUME ~Races
               PROVE  Spec => []ScheduledArticleHasJob
    OBVIOUS
  <1>1. Init => Types /\ CoverInv
    BY InitTypes, InitCover
  <1>2. (Types /\ CoverInv) /\ [Next]_vars => (Types /\ CoverInv)'
    BY NextTypes, NextCover
  <1>3. CoverInv => ScheduledArticleHasJob
    BY DEF CoverInv, Covers, ScheduledArticleHasJob, Queued
  <1> QED
    BY <1>1, <1>2, <1>3, PTL DEF Spec

-----------------------------------------------------------------------------
(* Pages.                                                                  *)

PageTypes ==
    /\ RunInv
    /\ page \in Page /\ pageReq \in [Admins -> PageRequest]
    /\ pageSaves \in 0..MaxSaves /\ broken \in BOOLEAN

LEMMA PageRows ==
    /\ PageIdle \in PageRequest /\ PageIdle.next = "idle" /\ NoPage \in Page
    /\ \A s, at : PageRow(s, at).status = s /\ PageRow(s, at).at = at
    /\ \A s \in {"none", "draft", "publish", "schedule", "trash"}, at \in Nat : PageRow(s, at) \in Page
  BY DEF PageIdle, PageRequest, NoPage, PageRow, Page

(* The queued rows that a save marks failed stay in the table.             *)
LEMMA MarkedRows ==
    ASSUME RunInv, jobs' = CancelQueuedPublishPageJobs(jobs, Publish, clock), UNCHANGED <<clock, runner, crashes>>,
           faults' \in 0..MaxFaults
    PROVE  /\ RunInv'
           /\ \A i \in JobIds : jobs'[i].runAt = jobs[i].runAt /\ (Exists(jobs, i) => Exists(jobs', i))
  <1>1. jobs \in JobTable /\ clock \in Nat
    BY DEF RunInv, RunTypeOK
  <1>2. ASSUME NEW i \in JobIds
        PROVE  /\ jobs'[i] \in JobRow \cup {NoRow} /\ jobs'[i].runAt = jobs[i].runAt
               /\ jobs'[i].status \in {"queued", "running"} => jobs'[i] = jobs[i]
               /\ jobs[i].status = "running" => jobs'[i] = jobs[i]
               /\ Exists(jobs, i) => Exists(jobs', i)
    <2>1. CASE Queued(jobs, i) /\ jobs[i].kind = Publish
      <3>1. jobs[i] \in JobRow /\ jobs[i].status = "queued"
        BY <1>1, <2>1, RowTypes DEF Queued
      <3>2. jobs'[i] = [jobs[i] EXCEPT !.status = "failed", !.updatedAt = clock]
        BY <2>1 DEF CancelQueuedPublishPageJobs
      <3>3. jobs'[i] \in JobRow /\ jobs'[i].status = "failed" /\ jobs'[i].runAt = jobs[i].runAt
        BY <1>1, <3>1, <3>2 DEF JobRow, Status
      <3> QED
        BY <3>1, <3>3 DEF Exists
    <2>2. CASE ~(Queued(jobs, i) /\ jobs[i].kind = Publish)
      <3>1. jobs'[i] = jobs[i]
        BY <2>2 DEF CancelQueuedPublishPageJobs
      <3> QED
        BY <1>1, <3>1, RowTypes DEF Exists
    <2> QED
      BY <2>1, <2>2
  <1>3. jobs' \in JobTable
    BY <1>2 DEF CancelQueuedPublishPageJobs, JobTable
  <1>4. AttemptLeft'
    BY <1>2 DEF RunInv, AttemptLeft
  <1>5. \A i \in JobIds : jobs[i].status = "running" => jobs'[i].status = "running"
    BY <1>2
  <1> QED
    BY <1>2, <1>3, <1>4, <1>5, WriterInv

(* The new publish row of a save. *)
LEMMA NewPageRow ==
    ASSUME PageTypes, NEW a \in Admins, EnqueueJob(a), faults' = faults
    PROVE  /\ RunInv'
           /\ \E i \in JobIds :
                /\ ~Exists(jobs, i) /\ jobs'[i].status = "queued" /\ jobs'[i].runAt = pageReq[a].at
                /\ \A j \in JobIds \ {i} : jobs'[j] = jobs[j]
  <1>0. RunInv /\ jobs \in JobTable /\ clock \in Nat /\ faults \in 0..MaxFaults /\ pageReq[a].at \in Nat
    BY DEF PageTypes, RunInv, RunTypeOK, PageRequest
  <1>1. UNCHANGED <<clock, runner, crashes>>
    BY DEF EnqueueJob
  <1>2. PICK i \in JobIds : IsNextRowId(jobs, i) /\ jobs' = EnqueueJobRun(jobs, i, Publish, pageReq[a].at, clock)
    BY <1>0 DEF EnqueueJob
  <1>p. Publish \in Kinds /\ faults' \in 0..MaxFaults
    BY <1>0, PublishRowsAssumption
  <1>3. RunInv'
    BY <1>0, <1>1, <1>2, <1>p, EnqueueInv
  <1>4. /\ jobs[i] = NoRow /\ jobs'[i] = [kind |-> Publish, status |-> "queued", runAt |-> pageReq[a].at, attempts |-> 0,
                                         updatedAt |-> clock]
        /\ \A j \in JobIds \ {i} : jobs'[j] = jobs[j]
    BY <1>0, <1>2, <1>p, EnqueueRows
  <1>5. ~Exists(jobs, i)
    BY <1>4 DEF NoRow, Exists
  <1> QED
    BY <1>3, <1>4, <1>5

LEMMA InitPageTypes ==
    ASSUME PageInit
    PROVE  PageTypes
  <1>1. RunInv
    BY RunInitInv DEF PageInit
  <1>2. page \in Page /\ broken \in BOOLEAN
    BY PageRows DEF PageInit
  <1>3. pageReq \in [Admins -> PageRequest] /\ pageSaves \in 0..MaxSaves
    BY PageRows, PublishRowsAssumption DEF PageInit
  <1> QED
    BY <1>1, <1>2, <1>3 DEF PageTypes

LEMMA AdminPageTypes ==
    ASSUME PageTypes, NEW a \in Admins, PageAdminStep(a)
    PROVE  PageTypes'
  <1>0. /\ RunInv /\ page \in Page /\ pageReq \in [Admins -> PageRequest] /\ pageReq[a] \in PageRequest
        /\ pageSaves \in 0..MaxSaves /\ broken \in BOOLEAN /\ faults \in 0..MaxFaults
    BY DEF PageTypes, RunInv, RunTypeOK
  <1>k. UNCHANGED <<clock, jobs, runner, faults, crashes>> => RunInv'
    BY <1>0 DEF RunInv, RunTypeOK, AttemptLeft, HeldRowRuns
  <1>1. CASE SavePagePlain(a)
    <2>1. page' \in Page
      BY <1>1, PageRows, HandlerRunsAssumption DEF SavePagePlain
    <2> QED
      BY <1>0, <1>1, <1>k, <2>1 DEF SavePagePlain, runVars, PageTypes
  <1>2. CASE SavePageSchedule(a)
    <2>1. PICK at \in 1..MaxTime : /\ page' = PageRow("schedule", at)
                                   /\ pageReq' = [pageReq EXCEPT ![a] = [next |-> "cancel", at |-> at]]
      BY <1>2 DEF SavePageSchedule
    <2>2. at \in Nat
      BY HandlerRunsAssumption
    <2>3. page' \in Page /\ [next |-> "cancel", at |-> at] \in PageRequest
      BY <2>1, <2>2, PageRows DEF PageRequest
    <2>4. pageSaves' \in 0..MaxSaves
      BY <1>0, <1>2, PublishRowsAssumption DEF SavePageSchedule
    <2> QED
      BY <1>0, <1>2, <1>k, <2>1, <2>3, <2>4 DEF SavePageSchedule, runVars, PageTypes
  <1>3. CASE CancelJobs(a)
    <2>1. faults' \in 0..MaxFaults /\ UNCHANGED <<clock, runner, crashes, page, pageSaves>> /\ broken' \in BOOLEAN
      BY <1>0, <1>3, HandlerRunsAssumption DEF CancelJobs
    <2>2. RunInv'
      <3>1. CASE jobs' = CancelQueuedPublishPageJobs(jobs, Publish, clock)
        BY <1>0, <2>1, <3>1, MarkedRows
      <3>2. CASE jobs' = jobs
        BY <1>0, <2>1, <3>2 DEF RunInv, RunTypeOK, AttemptLeft, HeldRowRuns
      <3> QED
        BY <1>3, <3>1, <3>2 DEF CancelJobs
    <2>3. pageReq' \in [Admins -> PageRequest]
      BY <1>0, <1>3 DEF CancelJobs, PageRequest
    <2> QED
      BY <1>0, <2>1, <2>2, <2>3 DEF PageTypes
  <1>4. CASE EnqueueJob(a)
    <2>1. faults' \in 0..MaxFaults /\ UNCHANGED <<clock, runner, crashes, page, pageSaves>> /\ broken' \in BOOLEAN
      BY <1>0, <1>4, HandlerRunsAssumption DEF EnqueueJob
    <2>2. RunInv'
      <3>1. CASE faults' = faults
        BY <1>4, <3>1, NewPageRow
      <3>2. CASE jobs' = jobs
        BY <1>0, <2>1, <3>2 DEF RunInv, RunTypeOK, AttemptLeft, HeldRowRuns
      <3> QED
        BY <1>4, <3>1, <3>2 DEF EnqueueJob
    <2>3. pageReq' \in [Admins -> PageRequest]
      BY <1>0, <1>4, PageRows DEF EnqueueJob
    <2> QED
      BY <1>0, <2>1, <2>2, <2>3 DEF PageTypes
  <1>5. CASE SetStatus(a)
    <2>1. page' \in Page
      BY <1>0, <1>5, PageRows DEF SetStatus, Page
    <2> QED
      BY <1>0, <1>5, <1>k, <2>1 DEF SetStatus, runVars, PageTypes
  <1>6. CASE AskDelete(a)
    <2>1. pageReq' \in [Admins -> PageRequest]
      BY <1>0, <1>6 DEF AskDelete, PageRequest
    <2> QED
      BY <1>0, <1>6, <1>k, <2>1 DEF AskDelete, runVars, PageTypes
  <1>7. CASE Delete(a)
    BY <1>0, <1>7, <1>k, PageRows DEF Delete, runVars, PageTypes
  <1> QED
    BY <1>1, <1>2, <1>3, <1>4, <1>5, <1>6, <1>7 DEF PageAdminStep, SaveStep

LEMMA WorkerPageTypes ==
    ASSUME PageTypes, PageRunStep \/ LoadPage \/ FlipPage \/ PageCrash \/ (Tick /\ UNCHANGED pageVars)
    PROVE  PageTypes'
  <1>0. /\ RunInv /\ page \in Page /\ pageReq \in [Admins -> PageRequest]
        /\ pageSaves \in 0..MaxSaves /\ broken \in BOOLEAN
    BY DEF PageTypes
  <1>r. KeepPageRequests => pageReq' \in [Admins -> PageRequest] /\ broken' \in BOOLEAN
    BY <1>0, PageRows DEF KeepPageRequests
  <1>1. CASE PageRunStep
    <2>1. RunInv'
      BY <1>0, <1>1, GetDueInv, ClaimInv, LostRaceInv, ReturnErrorInv, BookInv, RestartInv
         DEF PageRunStep, HandlerError, Holds
    <2> QED
      BY <1>0, <1>1, <1>r, <2>1 DEF PageRunStep, PageTypes
  <1>2. CASE LoadPage
    <2>1. runner.pc = "load" /\ (Proceed("write") \/ Proceed("book")) /\ UNCHANGED pageVars
      BY <1>2 DEF LoadPage
    <2>2. RunInv'
      BY <1>0, <2>1, ProceedInv DEF Holds
    <2> QED
      BY <1>0, <2>1, <2>2 DEF pageVars, PageTypes
  <1>3. CASE FlipPage
    <2>1. RunInv'
      BY <1>0, <1>3, ProceedInv DEF FlipPage, Holds
    <2>2. page' \in Page
      BY <1>0, <1>3, PageRows DEF FlipPage
    <2> QED
      BY <1>0, <1>3, <2>1, <2>2 DEF FlipPage, PageTypes
  <1>4. CASE PageCrash
    BY <1>0, <1>r, <1>4, CrashInv DEF PageCrash, PageTypes
  <1>5. CASE Tick /\ UNCHANGED pageVars
    BY <1>0, <1>5, TickInv DEF pageVars, PageTypes
  <1> QED
    BY <1>1, <1>2, <1>3, <1>4, <1>5

LEMMA NextPageTypes ==
    ASSUME PageTypes, [PageNext]_pageAndRunVars
    PROVE  PageTypes'
  <1>1. CASE UNCHANGED pageAndRunVars
    BY <1>1 DEF pageAndRunVars, PageTypes, RunInv, RunTypeOK, AttemptLeft, HeldRowRuns
  <1> QED
    BY <1>1, AdminPageTypes, WorkerPageTypes DEF PageNext

(* Types: the page, the saves under way and the rows of job_runs keep      *)
(* their types, whatever the page handlers, UpdatePageStatus, the deletion *)
(* and publishPageHandler do.                                              *)
THEOREM PageTypesHold == PageSpec => []PageTypes
  BY InitPageTypes, NextPageTypes, PTL DEF PageSpec

-----------------------------------------------------------------------------
(* A scheduled page keeps its row.  A save that is half-way says nothing   *)
(* yet, but it works for the schedule that the page has.                   *)

Between == \A a \in Admins : pageReq[a].next \in {"idle", "delete"}

PageCovers(i) ==
    /\ \/ jobs[i].status \in {"queued", "running"} /\ jobs[i].runAt >= page.at
       \/ jobs[i].status = "failed" /\ jobs[i].attempts >= MaxAttempts
    /\ ~(runner.pc = "book" /\ runner.outcome = "ok" /\ runner.id = i)

(* The row the worker picked was due when it was picked, and is still there. *)
PickedStays ==
    /\ runner.pc \in {"claim"} \cup Holds => Exists(jobs, runner.id) /\ jobs[runner.id].runAt <= runner.now
    /\ runner.now <= clock

SavesAgree ==
    \A a \in Admins :
        pageReq[a].next \in {"cancel", "enqueue"} =>
            pageReq[a].at # 0 /\ (page.status = "schedule" => page.at = pageReq[a].at)

PageCoverInv ==
    /\ PickedStays /\ SavesAgree
    /\ page.status = "schedule" => page.at # 0
    /\ page.status = "schedule" /\ ~broken /\ Between => \E i \in JobIds : PageCovers(i)

LEMMA InitPageCover ==
    ASSUME PageInit
    PROVE  PageCoverInv
  <1>1. runner = At("idle") /\ clock = 1
    BY DEF PageInit, RunInit
  <1>2. page.status = "none"
    BY PageRows DEF PageInit, NoPage
  <1>3. SavesAgree
    BY PageRows DEF PageInit, SavesAgree
  <1> QED
    BY <1>1, <1>2, <1>3 DEF At, PageCoverInv, PickedStays, Holds

LEMMA AdminPageCover ==
    ASSUME \A a, b \in Admins : a = b, PageTypes, PageCoverInv, NEW a \in Admins, PageAdminStep(a)
    PROVE  PageCoverInv'
  <1>0. /\ RunInv /\ pageReq \in [Admins -> PageRequest] /\ page \in Page /\ broken \in BOOLEAN
        /\ faults \in 0..MaxFaults /\ PickedStays /\ SavesAgree
    BY DEF PageTypes, RunInv, RunTypeOK, PageCoverInv
  <1>a. Admins = {a} /\ (Between <=> pageReq[a].next \in {"idle", "delete"})
    BY DEF Between
  <1>k. UNCHANGED <<clock, jobs, runner>> => PickedStays' /\ \A i \in JobIds : PageCovers(i) /\ page'.at = page.at => PageCovers(i)'
    BY <1>0 DEF PickedStays, PageCovers, Exists
  <1>1. CASE SavePagePlain(a)
    <2>1. page'.status # "schedule" /\ UNCHANGED <<clock, jobs, runner, pageReq>>
      BY <1>1, PageRows DEF SavePagePlain, runVars
    <2>2. SavesAgree'
      BY <1>0, <2>1 DEF SavesAgree
    <2> QED
      BY <1>k, <2>1, <2>2 DEF PageCoverInv
  <1>2. CASE SavePageSchedule(a)
    <2>1. PICK at \in 1..MaxTime : /\ page' = PageRow("schedule", at)
                                   /\ pageReq' = [pageReq EXCEPT ![a] = [next |-> "cancel", at |-> at]]
      BY <1>2 DEF SavePageSchedule
    <2>2. page'.at = at /\ at # 0
      BY <2>1, PageRows
    <2>3. pageReq'[a].next = "cancel" /\ pageReq'[a].at = at
      BY <1>0, <2>1
    <2>4. SavesAgree' /\ ~Between'
      BY <1>a, <2>2, <2>3 DEF SavesAgree, Between
    <2>5. UNCHANGED <<clock, jobs, runner>>
      BY <1>2 DEF SavePageSchedule, runVars
    <2> QED
      BY <1>k, <2>2, <2>4, <2>5 DEF PageCoverInv
  <1>3. CASE CancelJobs(a)
    <2>1. /\ UNCHANGED <<clock, runner, crashes, page>> /\ pageReq[a].next = "cancel"
          /\ pageReq' = [pageReq EXCEPT ![a].next = "enqueue"]
          /\ jobs' = CancelQueuedPublishPageJobs(jobs, Publish, clock) \/ jobs' = jobs
      BY <1>3 DEF CancelJobs
    <2>2. pageReq'[a].next = "enqueue" /\ pageReq'[a].at = pageReq[a].at
      BY <1>0, <2>1 DEF PageRequest
    <2>3. SavesAgree' /\ ~Between'
      BY <1>0, <1>a, <2>1, <2>2 DEF SavesAgree, Between
    <2>4. \A i \in JobIds : jobs'[i].runAt = jobs[i].runAt /\ (Exists(jobs, i) => Exists(jobs', i))
      <3>1. faults' \in 0..MaxFaults
        BY <1>0, <1>3, HandlerRunsAssumption DEF CancelJobs
      <3> QED
        BY <1>0, <2>1, <3>1, MarkedRows
    <2>5. PickedStays'
      <3>1. runner.pc \in {"claim"} \cup Holds => runner.id \in JobIds
        BY <1>0 DEF RunInv, HeldRowRuns
      <3> QED
        BY <1>0, <2>1, <2>4, <3>1 DEF PickedStays, Exists
    <2> QED
      BY <2>1, <2>3, <2>5 DEF PageCoverInv
  <1>4. CASE EnqueueJob(a)
    <2>1. /\ UNCHANGED <<clock, runner, crashes, page>> /\ pageReq[a].next = "enqueue"
          /\ pageReq' = [pageReq EXCEPT ![a] = PageIdle] /\ broken' = (broken \/ faults' # faults)
      BY <1>4 DEF EnqueueJob
    <2>2. SavesAgree'
      <3>1. pageReq'[a].next = "idle"
        BY <1>0, <2>1, PageRows
      <3> QED
        BY <1>a, <3>1 DEF SavesAgree
    <2>3. CASE faults' # faults
      <3>1. UNCHANGED <<clock, jobs, runner>>
        BY <1>4, <2>1, <2>3 DEF EnqueueJob
      <3> QED
        BY <1>k, <2>1, <2>2, <2>3, <3>1 DEF PageCoverInv
    <2>4. CASE faults' = faults
      <3>1. PICK i \in JobIds :
              /\ ~Exists(jobs, i) /\ jobs'[i].status = "queued" /\ jobs'[i].runAt = pageReq[a].at
              /\ \A j \in JobIds \ {i} : jobs'[j] = jobs[j]
        BY <1>4, <2>4, NewPageRow
      <3>2. PickedStays'
        <4>1. runner.pc \in {"claim"} \cup Holds => runner.id \in JobIds /\ runner.id # i
          BY <1>0, <3>1 DEF RunInv, HeldRowRuns, PickedStays
        <4> QED
          BY <1>0, <2>1, <3>1, <4>1 DEF PickedStays, Exists
      <3>3. page.status = "schedule" => page.at = pageReq[a].at
        BY <1>0, <2>1 DEF SavesAgree
      <3>4. ~(runner.pc = "book" /\ runner.id = i)
        BY <1>0, <3>1 DEF PickedStays, Holds
      <3>5. page.status = "schedule" => PageCovers(i)'
        <4>1. pageReq[a].at \in Nat
          BY <1>0 DEF PageRequest
        <4> QED
          BY <2>1, <3>1, <3>3, <3>4, <4>1 DEF PageCovers
      <3> QED
        BY <2>1, <2>2, <3>2, <3>5 DEF PageCoverInv
    <2> QED
      BY <2>3, <2>4
  <1>5. CASE SetStatus(a)
    <2>1. page'.status # "schedule" /\ UNCHANGED <<clock, jobs, runner, pageReq>>
      BY <1>5, PageRows DEF SetStatus, runVars
    <2>2. SavesAgree'
      BY <1>0, <2>1 DEF SavesAgree
    <2> QED
      BY <1>k, <2>1, <2>2 DEF PageCoverInv
  <1>6. CASE AskDelete(a)
    <2>1. /\ UNCHANGED <<clock, jobs, runner, page, broken>> /\ pageReq[a].next = "idle"
          /\ pageReq' = [pageReq EXCEPT ![a].next = "delete"]
      BY <1>6 DEF AskDelete, runVars
    <2>2. pageReq'[a].next = "delete"
      BY <1>0, <2>1 DEF PageRequest
    <2>3. SavesAgree' /\ Between
      BY <1>a, <2>1, <2>2 DEF SavesAgree
    <2> QED
      BY <1>k, <2>1, <2>3 DEF PageCoverInv
  <1>7. CASE Delete(a)
    <2>1. /\ UNCHANGED <<clock, jobs, runner>> /\ page' = NoPage
          /\ pageReq' = [pageReq EXCEPT ![a] = PageIdle]
      BY <1>7 DEF Delete, runVars
    <2>2. page'.status = "none" /\ pageReq'[a].next = "idle"
      BY <1>0, <2>1, PageRows DEF NoPage
    <2>3. SavesAgree'
      BY <1>a, <2>2 DEF SavesAgree
    <2> QED
      BY <1>k, <2>1, <2>2, <2>3 DEF PageCoverInv
  <1> QED
    BY <1>1, <1>2, <1>3, <1>4, <1>5, <1>6, <1>7 DEF PageAdminStep, SaveStep

LEMMA WorkerPageCover ==
    ASSUME PageTypes, PageCoverInv,
           PageRunStep \/ LoadPage \/ FlipPage \/ PageCrash \/ (Tick /\ UNCHANGED pageVars)
    PROVE  PageCoverInv'
  <1>0. /\ RunInv /\ page \in Page /\ page.at \in Nat /\ jobs \in JobTable /\ broken \in BOOLEAN
        /\ pageReq \in [Admins -> PageRequest]
        /\ clock \in Nat /\ runner \in Runner /\ runner.now \in Nat /\ PickedStays /\ SavesAgree
    BY DEF PageTypes, RunInv, RunTypeOK, Runner, PageCoverInv, Page
  <1>t. \A i \in JobIds : jobs[i].runAt \in Nat
    BY <1>0, RowTypes
  <1>p. runner.pc \in {"claim"} \cup Holds => runner.id \in JobIds
    BY <1>0 DEF RunInv, HeldRowRuns
  <1>r. ASSUME KeepPageRequests, page' = page
        PROVE  SavesAgree' /\ (~broken' /\ Between' => ~broken /\ Between)
    <2>1. CASE runner'.pc = "down"
      <3>1. \A a \in Admins : pageReq'[a].next = "idle"
        BY <1>r, <2>1, PageRows DEF KeepPageRequests
      <3>2. \A a \in Admins : pageReq[a].next \in {"idle", "cancel", "enqueue", "delete"}
        BY <1>0 DEF PageRequest
      <3> QED
        BY <1>0, <1>r, <2>1, <3>1, <3>2 DEF KeepPageRequests, SavesAgree, Between
    <2>2. CASE runner'.pc # "down"
      BY <1>0, <1>r, <2>2 DEF KeepPageRequests, SavesAgree, Between
    <2> QED
      BY <2>1, <2>2
  <1>k. ASSUME page' = page, PickedStays', SavesAgree', ~broken' /\ Between' => ~broken /\ Between,
               \A i \in JobIds : page.status = "schedule" /\ PageCovers(i) => PageCovers(i)'
        PROVE  PageCoverInv'
    BY <1>k DEF PageCoverInv
  <1>1. CASE GetDue /\ KeepPageRequests /\ page' = page
    <2>1. /\ runner'.pc = "claim" /\ runner'.id \in Due(jobs, clock)
          /\ runner'.now = clock /\ UNCHANGED <<clock, jobs>>
      BY <1>0, <1>1, GetDueInv
    <2>2. PickedStays'
      BY <1>0, <2>1 DEF PickedStays, Due, Queued, Exists
    <2> QED
      BY <1>1, <1>k, <1>r, <2>1, <2>2 DEF PageCovers
  <1>2. CASE Claim /\ KeepPageRequests /\ page' = page
    <2> DEFINE h == runner.id
    <2>1. /\ runner'.pc = "load" /\ runner'.id = h /\ h \in JobIds /\ Queued(jobs, h)
          /\ jobs'[h].runAt = jobs[h].runAt
          /\ \A i \in JobIds \ {h} : jobs'[i] = jobs[i]
          /\ RunInv' /\ clock' = clock
      BY <1>0, <1>2, ClaimInv DEF Claim
    <2>2. jobs'[h].status = "running" /\ runner'.now = runner.now /\ runner.pc = "claim"
      BY <1>0, <1>2, <2>1 DEF Claim, Runner, RunInv, HeldRowRuns, Holds
    <2>3. PickedStays'
      BY <1>0, <2>1, <2>2 DEF PickedStays, Exists
    <2> QED
      BY <1>2, <1>k, <1>r, <2>1, <2>2, <2>3 DEF PageCovers, Queued
  <1>3. CASE LostRace /\ KeepPageRequests /\ page' = page
    <2>1. runner' = At("idle") /\ UNCHANGED <<clock, jobs>>
      BY <1>3 DEF LostRace
    <2>2. PickedStays'
      BY <1>0, <2>1 DEF At, PickedStays, Holds
    <2> QED
      BY <1>0, <1>3, <1>k, <1>r, <2>1, <2>2 DEF At, PageCovers
  <1>4. CASE Book /\ KeepPageRequests /\ page' = page
    <2> DEFINE h == runner.id
    <2>1. /\ runner.pc = "book" /\ h \in JobIds /\ jobs[h].status = "running"
          /\ runner'.pc \in {"down", "idle"} /\ runner'.now = 0 /\ clock' = clock
          /\ \A i \in JobIds \ {h} : jobs'[i] = jobs[i]
      BY <1>0, <1>4, BookInv DEF Book, At
    <2>2. \/ runner.outcome = "ok" /\ jobs'[h].status = "done"
          \/ /\ runner.outcome = "canceled" /\ jobs'[h].status = "queued"
             /\ jobs'[h].runAt = runner.now
          \/ /\ runner.outcome = "error" /\ jobs'[h].status = "queued"
             /\ jobs'[h].runAt = runner.now + RetryDelay
          \/ /\ runner.outcome = "error" /\ jobs'[h].status = "failed"
             /\ jobs'[h].attempts >= MaxAttempts
      BY <1>0, <1>4, BookInv
    <2>3. PickedStays'
      BY <1>0, <2>1 DEF PickedStays, Holds
    <2>4. jobs[h].runAt <= runner.now
      BY <1>0, <2>1 DEF PickedStays, Holds
    <2>5. ASSUME NEW i \in JobIds, PageCovers(i)
          PROVE  PageCovers(i)'
      <3>1. CASE i # h
        BY <1>4, <2>1, <2>5, <3>1 DEF PageCovers
      <3>2. CASE i = h
        <4>1. runner.outcome # "ok" /\ jobs[h].runAt >= page.at
          BY <2>1, <2>5, <3>2 DEF PageCovers
        <4>2. runner.now >= page.at /\ runner.now + RetryDelay >= page.at
          BY <1>0, <1>t, <2>1, <2>4, <4>1, HandlerRunsAssumption
        <4> QED
          BY <1>4, <2>1, <2>2, <3>2, <4>1, <4>2 DEF PageCovers
      <3> QED
        BY <3>1, <3>2
    <2> QED
      BY <1>4, <1>k, <1>r, <2>1, <2>3, <2>5
  <1>5. CASE HandlerError /\ KeepPageRequests /\ page' = page
    <2>1. /\ runner.pc \in Holds /\ runner'.pc = "book" /\ runner'.id = runner.id
          /\ UNCHANGED <<clock, jobs>>
      BY <1>0, <1>5, ReturnErrorInv DEF HandlerError, ReturnError, Holds
    <2>2. runner'.outcome # "ok" /\ runner'.now = runner.now
      BY <1>0, <1>5 DEF HandlerError, ReturnError, Runner
    <2>3. PickedStays'
      BY <1>0, <2>1, <2>2 DEF PickedStays, Holds
    <2> QED
      BY <1>5, <1>k, <1>r, <2>1, <2>2, <2>3 DEF PageCovers
  <1>6. CASE Restart /\ KeepPageRequests /\ page' = page
    <2>1. /\ runner' = At("idle") /\ clock' = clock
          /\ \A i \in JobIds :
                \/ jobs'[i] = jobs[i]
                \/ /\ jobs[i].status = "running" /\ jobs'[i].runAt = jobs[i].runAt
                   /\ \/ jobs'[i].status = "queued"
                      \/ jobs'[i].status = "failed" /\ jobs'[i].attempts >= MaxAttempts
      BY <1>0, <1>6, RestartInv DEF Restart
    <2>2. runner'.pc = "idle" /\ PickedStays'
      BY <1>0, <2>1 DEF PickedStays, Holds, At
    <2>3. \A i \in JobIds : PageCovers(i) => PageCovers(i)'
      BY <1>6, <2>1, <2>2 DEF PageCovers
    <2> QED
      BY <1>6, <1>k, <1>r, <2>1, <2>2, <2>3
  <1>7. CASE LoadPage
    <2>0. /\ runner.pc = "load" /\ UNCHANGED <<clock, jobs, page, pageReq, broken>>
          /\ runner'.now = runner.now /\ runner'.id = runner.id
          /\ runner'.pc = (IF DueNow(page) THEN "write" ELSE "book")
      BY <1>0, <1>7 DEF LoadPage, pageVars, Proceed, Runner
    <2>1. PickedStays' /\ SavesAgree' /\ (~broken' /\ Between' => ~broken /\ Between)
      BY <1>0, <2>0 DEF PickedStays, Holds, SavesAgree, Between
    <2>2. ASSUME NEW i \in JobIds, PageCovers(i), page.status = "schedule"
          PROVE  PageCovers(i)'
      <3>1. CASE i # runner.id
        BY <2>0, <2>2, <3>1 DEF PageCovers
      <3>2. CASE i = runner.id
        <4>1. jobs[i].status = "running" /\ jobs[i].runAt >= page.at
          BY <1>0, <2>0, <2>2, <3>2 DEF RunInv, HeldRowRuns, Holds, PageCovers
        <4>2. jobs[i].runAt <= runner.now /\ runner.now <= clock
          BY <1>0, <2>0, <3>2 DEF PickedStays, Holds
        <4>3. page.at <= clock /\ page.at # 0
          BY <1>0, <1>t, <2>2, <4>1, <4>2 DEF PageCoverInv
        <4>4. runner'.pc = "write"
          BY <2>0, <2>2, <4>3 DEF DueNow
        <4> QED
          BY <2>0, <2>2, <4>4 DEF PageCovers
      <3> QED
        BY <3>1, <3>2
    <2> QED
      BY <1>k, <2>0, <2>1, <2>2
  <1>8. CASE FlipPage
    <2>1. /\ runner.pc = "write" /\ UNCHANGED <<clock, jobs, pageReq, broken>>
          /\ runner'.now = runner.now /\ runner'.id = runner.id
      BY <1>0, <1>8 DEF FlipPage, Proceed, Runner
    <2>2. page'.status # "schedule"
      BY <1>8, PageRows DEF FlipPage
    <2>3. PickedStays' /\ SavesAgree'
      BY <1>0, <2>1, <2>2 DEF PickedStays, Holds, SavesAgree
    <2> QED
      BY <2>2, <2>3 DEF PageCoverInv
  <1>9. CASE Crash /\ KeepPageRequests /\ page' = page
    <2>1. runner' = At("down") /\ UNCHANGED <<clock, jobs>>
      BY <1>9 DEF Crash
    <2>2. PickedStays'
      BY <1>0, <2>1 DEF At, PickedStays, Holds
    <2> QED
      BY <1>9, <1>k, <1>r, <2>1, <2>2 DEF At, PageCovers
  <1>10. CASE Tick /\ UNCHANGED pageVars
    <2>1. clock' = clock + 1 /\ UNCHANGED <<runner, jobs, page, pageReq, broken>>
      BY <1>10 DEF Tick, pageVars
    <2>2. PickedStays' /\ SavesAgree' /\ (~broken' /\ Between' => ~broken /\ Between)
      BY <1>0, <2>1 DEF PickedStays, SavesAgree, Between, Exists
    <2> QED
      BY <1>k, <2>1, <2>2 DEF PageCovers
  <1> QED
    BY <1>1, <1>2, <1>3, <1>4, <1>5, <1>6, <1>7, <1>8, <1>9, <1>10 DEF PageRunStep, PageCrash

LEMMA NextPageCover ==
    ASSUME \A a, b \in Admins : a = b, PageTypes, PageCoverInv, [PageNext]_pageAndRunVars
    PROVE  PageCoverInv'
  <1>1. CASE UNCHANGED pageAndRunVars
    BY <1>1 DEF pageAndRunVars, PageCoverInv, PickedStays, SavesAgree, Between, PageCovers
  <1> QED
    BY <1>1, AdminPageCover, WorkerPageCover DEF PageNext

(* Covered: between two requests of one admin, a page that is scheduled    *)
(* and whose save did not stop half-way has a row of job_runs that will    *)
(* run at its scheduled_at or later, runs, or used up its attempts, though *)
(* the three statements of a save interleave with the worker.  Two admins  *)
(* saving at once can leave the earlier schedule's row only.               *)
THEOREM PageCovered == (\A a, b \in Admins : a = b) /\ PageSpec => []ScheduledPageHasJob
  <1> SUFFICES ASSUME \A a, b \in Admins : a = b
               PROVE  PageSpec => []ScheduledPageHasJob
    OBVIOUS
  <1>1. PageInit => PageTypes /\ PageCoverInv
    BY InitPageTypes, InitPageCover
  <1>2. (PageTypes /\ PageCoverInv) /\ [PageNext]_pageAndRunVars => (PageTypes /\ PageCoverInv)'
    BY NextPageTypes, NextPageCover
  <1>3. PageCoverInv => ScheduledPageHasJob
    BY DEF PageCoverInv, PageCovers, Between, ScheduledPageHasJob, Queued
  <1> QED
    BY <1>1, <1>2, <1>3, PTL DEF PageSpec

(* The publish handler writes a page only from schedule to publish: what   *)
(* an admin unpublished, trashed or deleted after it read the page stays.  *)
THEOREM HandlerYields == PageSpec => HandlerRespectsAdmins
  <1> DEFINE A == runner.pc = "write" /\ runner'.pc = "book" =>
                    page' = page \/ (page.status = "schedule" /\ page'.status = "publish")
  <1>1. ASSUME PageTypes, [PageNext]_pageAndRunVars PROVE [A]_pageAndRunVars
    <2> SUFFICES ASSUME runner.pc = "write", runner'.pc = "book"
                 PROVE  page' = page \/ (page.status = "schedule" /\ page'.status = "publish")
      OBVIOUS
    <2>1. CASE FlipPage
      BY <2>1, PageRows DEF FlipPage
    <2>2. ~(\E a \in Admins : PageAdminStep(a))
      <3> SUFFICES ASSUME NEW a \in Admins, PageAdminStep(a) PROVE runner' = runner
        OBVIOUS
      <3> QED
        BY DEF PageAdminStep, SaveStep, SavePagePlain, SavePageSchedule, CancelJobs, EnqueueJob,
               SetStatus, AskDelete, Delete, runVars
    <2>3. CASE PageRunStep \/ LoadPage \/ PageCrash \/ (Tick /\ UNCHANGED pageVars)
      BY <2>3 DEF PageRunStep, LoadPage, PageCrash, pageVars
    <2>4. CASE UNCHANGED pageAndRunVars
      BY <2>4 DEF pageAndRunVars
    <2> QED
      BY <1>1, <2>1, <2>2, <2>3, <2>4 DEF PageNext
  <1> QED
    BY <1>1, PageTypesHold, PTL DEF PageSpec, HandlerRespectsAdmins

-----------------------------------------------------------------------------
(* Crossposts.  A post is counted once its platform made it public; it is  *)
(* either in the worker's hand, or recorded, or among those that left no   *)
(* URL behind.                                                             *)

PostTypes ==
    /\ RunInv /\ clock >= 1
    /\ social \in [Platforms -> Nat]
    /\ public \in Counts /\ lost \in Counts /\ blind \in Counts

RowsArePrefix == \E k \in 0..MaxRows : \A i \in JobIds : Exists(jobs, i) <=> i <= k

RequestsArePast ==
    \A i \in JobIds :
        /\ payload[i].requestedAt \in 0..clock
        /\ \A p \in Platforms : public[i][p] # 0 => Exists(jobs, i)

(* What an open form shows is what it would write back. *)
FormIsCurrent == form.open /\ exists => form.shows = {p \in Platforms : social[p] # 0}

Unrecorded(i, p) == lost[i][p] + blind[i][p]

AtHand(i, p) == runner.id = i /\ Head(todo) = p

(* A post that is not among the unrecorded ones is the only one, and stops *)
(* any further: by its URL, or because the worker is about to record it.   *)
OnceEach ==
    exists => \A i \in JobIds, p \in Platforms :
        /\ public[i][p] <= 1 + Unrecorded(i, p)
        /\ public[i][p] > Unrecorded(i, p) =>
              \/ runner.pc = "write" /\ AtHand(i, p)
              \/ UrlRecordedSince(p, payload[i].requestedAt)
        /\ runner.pc = "act" /\ AtHand(i, p) => public[i][p] <= Unrecorded(i, p)

PostInv == RowsArePrefix /\ RequestsArePast /\ FormIsCurrent /\ OnceEach

LEMMA InitPosts ==
    ASSUME CrosspostInit
    PROVE  PostTypes /\ PostInv
  <1>1. RunInv /\ clock = 1 /\ runner.pc = "idle" /\ jobs = EmptyTable
    BY RunInitInv DEF CrosspostInit, RunInit, At
  <1>2. None \in Counts /\ \A i \in JobIds, p \in Platforms : None[i][p] = 0
    BY DEF None, Counts
  <1>3. PostTypes
    BY <1>1, <1>2 DEF CrosspostInit, PostTypes
  <1>4. RowsArePrefix
    <2>1. \A i \in JobIds : ~Exists(jobs, i) /\ ~(i <= 0)
      BY <1>1 DEF EmptyTable, NoRow, Exists, JobIds
    <2> QED
      BY <2>1, JobRunsAssumption DEF RowsArePrefix
  <1>5. RequestsArePast
    BY <1>1, <1>2 DEF CrosspostInit, RequestsArePast
  <1>6. FormIsCurrent
    BY DEF CrosspostInit, Closed, FormIsCurrent
  <1>7. OnceEach
    BY <1>1, <1>2 DEF CrosspostInit, OnceEach, Unrecorded
  <1> QED
    BY <1>3, <1>4, <1>5, <1>6, <1>7 DEF PostInv

-----------------------------------------------------------------------------
(* Requests.                                                               *)

(* New rows come after the old ones and carry a request of now at most.    *)
LEMMA EnqueueAllRows ==
    ASSUME PostTypes, PostInv, NEW ps, Len(ps) \in Nat, NEW at \in 0..clock, EnqueueAll(ps, at),
           UNCHANGED <<clock, runner, faults, crashes, public>>
    PROVE  /\ RunInv' /\ RowsArePrefix' /\ RequestsArePast'
           /\ \A i \in JobIds : Exists(jobs, i) => payload'[i] = payload[i]
  <1> DEFINE old == {i \in JobIds : Exists(jobs, i)}
             used == Cardinality(old)
             new == {i \in JobIds : i > used /\ i <= used + Len(ps)}
  <1>1. PICK k \in 0..MaxRows : \A i \in JobIds : Exists(jobs, i) <=> i <= k
    BY DEF PostInv, RowsArePrefix
  <1>2. old = 1..k
    BY <1>1, JobRunsAssumption DEF JobIds
  <1> HIDE DEF old
  <1>3. used = k
    <2>1. k \in Nat /\ 1 \in Int /\ k \in Int
      BY <1>1, JobRunsAssumption
    <2>2. Cardinality(1..k) = IF 1 > k THEN 0 ELSE k - 1 + 1
      BY <2>1, FS_Interval
    <2> QED
      BY <1>2, <2>1, <2>2
  <1>4. /\ k + Len(ps) <= MaxRows
        /\ jobs' = [i \in JobIds |-> IF i \in new THEN EnqueueJobRun(jobs, i, Kind, clock, clock)[i] ELSE jobs[i]]
        /\ payload' = [i \in JobIds |-> IF i \in new THEN [platforms |-> ps[i - used], requestedAt |-> at] ELSE payload[i]]
    BY <1>3 DEF EnqueueAll, old
  <1> HIDE DEF used
  <1>0. /\ jobs \in JobTable /\ clock \in Nat /\ AttemptLeft /\ Kind \in Kinds /\ faults \in 0..MaxFaults
        /\ MaxRows \in Nat /\ MaxAttempts \in Nat \ {0}
    BY CrosspostAssumption, JobRunsAssumption DEF PostTypes, RunInv, RunTypeOK
  <1>5. ASSUME NEW i \in new
        PROVE  /\ i \in JobIds /\ ~Exists(jobs, i) /\ jobs'[i] \in JobRow /\ jobs'[i].status = "queued" /\ jobs'[i].attempts = 0
               /\ payload'[i].requestedAt = at
    <2>1. i \in JobIds /\ i > k
      BY <1>1, <1>3
    <2>2. jobs'[i] = [kind |-> Kind, status |-> "queued", runAt |-> clock, attempts |-> 0, updatedAt |-> clock]
      BY <1>0, <1>4, <2>1 DEF EnqueueJobRun, JobTable
    <2>3. ~Exists(jobs, i)
      BY <1>1, <2>1 DEF JobIds
    <2> QED
      BY <1>0, <1>4, <2>1, <2>2, <2>3 DEF JobRow, Status
  <1>6. ASSUME NEW i \in JobIds \ new
        PROVE  jobs'[i] = jobs[i] /\ payload'[i] = payload[i]
    BY <1>4, <1>6
  <1>7. RunInv'
    <2>1. jobs' \in JobTable
      BY <1>0, <1>4, <1>5, <1>6 DEF JobTable
    <2>2. AttemptLeft'
      BY <1>0, <1>5, <1>6 DEF AttemptLeft
    <2>3. \A i \in JobIds : jobs[i].status = "running" => jobs'[i].status = "running"
      BY <1>5, <1>6 DEF Exists
    <2> QED
      BY <1>0, <2>1, <2>2, <2>3, WriterInv DEF PostTypes
  <1>8. RowsArePrefix'
    <2>1. \A i \in JobIds : Exists(jobs', i) <=> i <= k + Len(ps)
      <3> TAKE i \in JobIds
      <3>1. CASE i \in new
        BY <1>0, <1>1, <1>3, <1>5, <3>1 DEF Exists, JobIds
      <3>2. CASE i \notin new
        <4>1. jobs'[i] = jobs[i] /\ (Exists(jobs, i) <=> i <= k)
          BY <1>1, <1>6, <3>2
        <4>2. i \in Nat /\ k \in Nat /\ ~(i > k /\ i <= k + Len(ps))
          BY <1>0, <1>1, <1>3, <3>2 DEF JobIds
        <4> QED
          BY <4>1, <4>2 DEF Exists
      <3> QED
        BY <3>1, <3>2
    <2> QED
      BY <1>0, <1>1, <1>4, <2>1 DEF RowsArePrefix
  <1>9. RequestsArePast'
    <2>1. \A i \in JobIds : Exists(jobs, i) => Exists(jobs', i)
      BY <1>5, <1>6 DEF Exists
    <2>2. \A i \in JobIds : payload'[i].requestedAt \in 0..clock
      BY <1>5, <1>6 DEF PostInv, RequestsArePast
    <2> QED
      BY <2>1, <2>2 DEF PostInv, RequestsArePast
  <1> QED
    BY <1>5, <1>6, <1>7, <1>8, <1>9

(* A request never takes a recorded URL away, nor makes it older. *)
LEMMA RequestKeepsPosts ==
    ASSUME PostTypes, PostInv, UNCHANGED <<clock, runner, todo, public, lost, blind>>,
           exists' => exists /\ \A p \in Platforms : social[p] # 0 => social'[p] \in {social[p], clock},
           \A i \in JobIds : Exists(jobs, i) => payload'[i] = payload[i]
    PROVE  OnceEach'
  <1> SUFFICES ASSUME exists', NEW i \in JobIds, NEW p \in Platforms
               PROVE  /\ public[i][p] <= 1 + Unrecorded(i, p)
                      /\ public[i][p] > Unrecorded(i, p) =>
                            \/ runner.pc = "write" /\ AtHand(i, p)
                            \/ UrlRecordedSince(p, payload[i].requestedAt)'
                      /\ runner.pc = "act" /\ AtHand(i, p) => public[i][p] <= Unrecorded(i, p)
    BY DEF OnceEach, Unrecorded, AtHand
  <1>1. /\ public[i][p] \in Nat /\ lost[i][p] \in Nat /\ blind[i][p] \in Nat /\ clock \in Nat /\ clock >= 1 /\ social[p] \in Nat
    BY DEF PostTypes, Counts, RunInv, RunTypeOK
  <1>2. public[i][p] > Unrecorded(i, p) => Exists(jobs, i)
    BY <1>1 DEF PostInv, RequestsArePast, Unrecorded
  <1>3. UrlRecordedSince(p, payload[i].requestedAt) /\ Exists(jobs, i) => UrlRecordedSince(p, payload[i].requestedAt)'
    BY <1>1 DEF UrlRecordedSince, PostInv, RequestsArePast
  <1> QED
    BY <1>2, <1>3 DEF PostInv, OnceEach

(* A request that neither enqueues nor touches a URL of the article. *)
LEMMA QuietRequest ==
    ASSUME PostTypes, PostInv, UNCHANGED <<runVars, payload, todo, public, lost, blind>>, exists' => exists /\ social' = social,
           social' \in [Platforms -> Nat], FormIsCurrent'
    PROVE  PostTypes' /\ PostInv'
  <1>1. PostTypes'
    BY DEF runVars, PostTypes, RunInv, RunTypeOK, AttemptLeft, HeldRowRuns
  <1>2. RowsArePrefix' /\ RequestsArePast'
    BY DEF runVars, PostInv, RowsArePrefix, RequestsArePast
  <1>3. OnceEach'
    BY RequestKeepsPosts DEF runVars
  <1> QED
    BY <1>1, <1>2, <1>3 DEF PostInv

LEMMA RequestPosts ==
    ASSUME PostTypes, PostInv, RequestStep
    PROVE  PostTypes' /\ PostInv'
  <1>0. /\ clock \in Nat /\ clock >= 1 /\ social \in [Platforms -> Nat]
    BY DEF PostTypes, RunInv, RunTypeOK
  <1>1. CASE OpenForm
    BY <1>0, <1>1, QuietRequest DEF OpenForm, FormIsCurrent
  <1>2. CASE SaveForm
    <2>1. PICK selected \in SUBSET Platforms :
            LET rows == [p \in Platforms |-> IF p \in form.shows THEN clock ELSE 0] IN
            IF exists
            THEN /\ social' = rows
                 /\ EnqueueAll([n \in 1..Cardinality(Wanted(selected, rows)) |-> <<SetToSeq(Wanted(selected, rows))[n]>>], clock)
            ELSE UNCHANGED <<social, jobs, payload>>
      BY <1>2 DEF SaveForm
    <2>2. /\ UNCHANGED <<clock, runner, faults, crashes, exists, enabled, todo, public, lost, blind>>
          /\ form.open /\ form' = Closed
      BY <1>2 DEF SaveForm
    <2>3. FormIsCurrent'
      BY <2>2 DEF FormIsCurrent, Closed
    <2>4. CASE ~exists
      BY <1>0, <2>1, <2>2, <2>3, <2>4, QuietRequest DEF runVars
    <2>5. CASE exists
      <3> DEFINE rows == [p \in Platforms |-> IF p \in form.shows THEN clock ELSE 0]
                 wanted == Wanted(selected, rows)
                 ps == [n \in 1..Cardinality(wanted) |-> <<SetToSeq(wanted)[n]>>]
      <3>1. social' = rows /\ EnqueueAll(ps, clock)
        BY <2>1, <2>5
      <3>2. Cardinality(wanted) \in Nat
        BY CrosspostAssumption, FS_Subset, FS_CardinalityType DEF Wanted
      <3> HIDE DEF wanted
      <3>3. Len(ps) \in Nat
        BY <3>2
      <3>4. /\ RunInv' /\ RowsArePrefix' /\ RequestsArePast'
            /\ \A i \in JobIds : Exists(jobs, i) => payload'[i] = payload[i]
        BY <1>0, <2>2, <3>1, <3>3, EnqueueAllRows
      <3>5. social' \in [Platforms -> Nat] /\ \A p \in Platforms : social[p] # 0 => social'[p] = clock
        BY <1>0, <2>2, <2>5, <3>1 DEF PostInv, FormIsCurrent
      <3>6. OnceEach'
        BY <2>2, <2>5, <3>4, <3>5, RequestKeepsPosts
      <3> QED
        BY <2>2, <2>3, <3>4, <3>5, <3>6 DEF PostTypes, PostInv
    <2> QED
      BY <2>4, <2>5
  <1>3. ASSUME UNCHANGED <<clock, runner, faults, crashes, exists, social, form, todo, public, lost, blind>>,
               NEW ps, Len(ps) \in Nat, NEW at \in 0..clock, EnqueueAll(ps, at)
        PROVE  PostTypes' /\ PostInv'
    <2>1. /\ RunInv' /\ RowsArePrefix' /\ RequestsArePast'
          /\ \A i \in JobIds : Exists(jobs, i) => payload'[i] = payload[i]
      BY <1>3, EnqueueAllRows
    <2>2. OnceEach'
      BY <1>3, <2>1, RequestKeepsPosts
    <2> QED
      BY <1>3, <2>1, <2>2 DEF PostTypes, PostInv, FormIsCurrent
  <1>4. CASE PublishScheduled
    <2>1. Len(<<SetToSeq(Platforms)>>) \in Nat /\ 0 \in 0..clock
      BY <1>0
    <2> QED
      BY <1>3, <1>4, <2>1 DEF PublishScheduled
  <1>5. CASE BatchCrosspost
    <2>1. PICK p \in enabled : EnqueueAll(<<<<p>>>>, clock)
      BY <1>5 DEF BatchCrosspost
    <2>2. Len(<<<<p>>>>) \in Nat /\ clock \in 0..clock
      BY <1>0
    <2> QED
      BY <1>3, <1>5, <2>1, <2>2 DEF BatchCrosspost
  <1>6. CASE Toggle
    BY <1>0, <1>6, QuietRequest DEF Toggle, PostInv, FormIsCurrent
  <1>7. CASE DestroyArticle
    BY <1>0, <1>7, QuietRequest DEF DestroyArticle, FormIsCurrent
  <1> QED
    BY <1>1, <1>2, <1>4, <1>5, <1>6, <1>7 DEF RequestStep

-----------------------------------------------------------------------------
(* The worker.                                                             *)

LEMMA CountTypes ==
    ASSUME PostTypes, NEW i \in JobIds, NEW p \in Platforms
    PROVE  public[i][p] \in Nat /\ lost[i][p] \in Nat /\ blind[i][p] \in Nat /\ Unrecorded(i, p) \in Nat
  BY DEF PostTypes, Counts, Unrecorded

(* One more post of the row in hand to the platform it is at. *)
LEMMA OneMore ==
    ASSUME NEW c \in Counts
    PROVE  /\ [c EXCEPT ![runner.id][Head(todo)] = @ + 1] \in Counts
           /\ \A i \in JobIds, p \in Platforms :
                [c EXCEPT ![runner.id][Head(todo)] = @ + 1][i][p] = IF AtHand(i, p) THEN c[i][p] + 1 ELSE c[i][p]
  <1> DEFINE r == runner.id
             h == Head(todo)
             d == [c EXCEPT ![r][h] = @ + 1]
  <1>1. \A i \in JobIds, p \in Platforms : AtHand(i, p) <=> r = i /\ h = p
    BY DEF AtHand
  <1> HIDE DEF r, h
  <1>2. d \in Counts /\ \A i \in JobIds, p \in Platforms : d[i][p] = IF r = i /\ h = p THEN c[i][p] + 1 ELSE c[i][p]
    <2>1. CASE r \notin JobIds
      <3>1. d = c
        BY <2>1 DEF Counts
      <3> QED
        BY <2>1, <3>1
    <2>2. CASE r \in JobIds
      <3> DEFINE f == c[r]
                 e == [f EXCEPT ![h] = f[h] + 1]
      <3>1. f \in [Platforms -> Nat] /\ d = [c EXCEPT ![r] = e]
        BY <2>2 DEF Counts
      <3> HIDE DEF f
      <3>2. e \in [Platforms -> Nat] /\ \A p \in Platforms : e[p] = IF h = p THEN f[p] + 1 ELSE f[p]
        <4>1. CASE h \in Platforms
          BY <3>1, <4>1
        <4>2. CASE h \notin Platforms
          BY <3>1, <4>2
        <4> QED
          BY <4>1, <4>2
      <3> HIDE DEF e
      <3> USE DEF f
      <3> QED
        BY <2>2, <3>1, <3>2 DEF Counts
    <2> QED
      BY <2>1, <2>2
  <1> QED
    BY <1>1, <1>2 DEF r, h

(* ... or one more that left no URL behind.                                *)
LEMMA OneMoreUnrecorded ==
    ASSUME PostTypes,
           \/ blind' = [blind EXCEPT ![runner.id][Head(todo)] = @ + 1] /\ lost' = lost
           \/ lost' = [lost EXCEPT ![runner.id][Head(todo)] = @ + 1] /\ blind' = blind
    PROVE  /\ blind' \in Counts /\ lost' \in Counts
           /\ \A i \in JobIds, p \in Platforms :
                Unrecorded(i, p)' = IF AtHand(i, p) THEN Unrecorded(i, p) + 1 ELSE Unrecorded(i, p)
  <1>0. lost \in Counts /\ blind \in Counts
    BY DEF PostTypes
  <1>1. CASE blind' = [blind EXCEPT ![runner.id][Head(todo)] = @ + 1] /\ lost' = lost
    <2>1. /\ blind' \in Counts
          /\ \A i \in JobIds, p \in Platforms : blind'[i][p] = IF AtHand(i, p) THEN blind[i][p] + 1 ELSE blind[i][p]
      BY <1>0, <1>1, OneMore
    <2> QED
      BY <1>0, <1>1, <2>1, CountTypes DEF Unrecorded
  <1>2. CASE lost' = [lost EXCEPT ![runner.id][Head(todo)] = @ + 1] /\ blind' = blind
    <2>1. /\ lost' \in Counts
          /\ \A i \in JobIds, p \in Platforms : lost'[i][p] = IF AtHand(i, p) THEN lost[i][p] + 1 ELSE lost[i][p]
      BY <1>0, <1>2, OneMore
    <2> QED
      BY <1>0, <1>2, <2>1, CountTypes DEF Unrecorded
  <1> QED
    BY <1>1, <1>2

(* A step of the worker that leaves the URLs and the requests alone.       *)
LEMMA WorkerFrame ==
    ASSUME PostTypes, PostInv, RunInv', ~form.open,
           \A i \in JobIds : Exists(jobs', i) <=> Exists(jobs, i),
           \/ clock' = clock
           \/ clock' = clock + 1,
           UNCHANGED <<exists, social, form, payload>>,
           public' \in Counts, lost' \in Counts, blind' \in Counts,
           \A i \in JobIds, p \in Platforms : public[i][p] = 0 => public'[i][p] = 0 \/ Exists(jobs, i),
           OnceEach'
    PROVE  PostTypes' /\ PostInv'
  <1>1. clock \in Nat /\ clock' \in Nat /\ clock >= 1
    BY DEF PostTypes, RunInv, RunTypeOK
  <1>2. PostTypes'
    BY <1>1 DEF PostTypes
  <1>3. RowsArePrefix'
    BY DEF PostInv, RowsArePrefix
  <1>4. RequestsArePast'
    BY <1>1 DEF PostInv, RequestsArePast
  <1>5. FormIsCurrent'
    BY DEF FormIsCurrent
  <1> QED
    BY <1>2, <1>3, <1>4, <1>5 DEF PostInv

(* ... and makes no post, with nothing in hand afterwards.                 *)
LEMMA IdleFrame ==
    ASSUME PostTypes, PostInv, RunInv', ~form.open,
           \A i \in JobIds : Exists(jobs', i) <=> Exists(jobs, i),
           \/ clock' = clock
           \/ clock' = clock + 1,
           UNCHANGED <<exists, social, form, payload, public, lost, blind>>,
           \/ runner.pc # "write" /\ runner'.pc \notin {"act", "write"}
           \/ UNCHANGED <<runner, todo>>
    PROVE  PostTypes' /\ PostInv'
  <1>1. OnceEach'
    BY DEF PostInv, OnceEach, Unrecorded, AtHand, UrlRecordedSince
  <1> QED
    BY <1>1, WorkerFrame DEF PostTypes

LEMMA RunStepPosts ==
    ASSUME PostTypes, PostInv, ~form.open, CrosspostRunStep \/ CrosspostTime
    PROVE  PostTypes' /\ PostInv'
  <1>0. RunInv /\ UNCHANGED postVars
    BY DEF PostTypes, CrosspostRunStep, CrosspostTime
  <1>1. CASE GetDue
    <2>1. RunInv' /\ runner'.pc = "claim" /\ UNCHANGED <<clock, jobs>>
      BY <1>0, <1>1, GetDueInv
    <2>2. runner.pc # "write"
      BY <1>1 DEF GetDue
    <2> QED
      BY <1>0, <2>1, <2>2, IdleFrame DEF postVars
  <1>2. CASE Claim
    <2>1. /\ RunInv' /\ runner'.pc = "load" /\ runner'.id = runner.id /\ runner.id \in JobIds /\ Queued(jobs, runner.id)
          /\ \A i \in JobIds \ {runner.id} : jobs'[i] = jobs[i]
      BY <1>0, <1>2, ClaimInv
    <2>2. runner.pc # "write" /\ clock' = clock
      BY <1>2 DEF Claim
    <2>3. jobs'[runner.id].status = "running"
      BY <2>1 DEF RunInv, HeldRowRuns, Holds
    <2>4. \A i \in JobIds : Exists(jobs', i) <=> Exists(jobs, i)
      BY <2>1, <2>3 DEF Exists, Queued
    <2> QED
      BY <1>0, <2>1, <2>2, <2>4, IdleFrame DEF postVars
  <1>3. CASE Book
    <2>1. /\ RunInv' /\ runner'.pc \in {"down", "idle"} /\ jobs[runner.id].status = "running"
          /\ jobs'[runner.id].status \in {"done", "queued", "failed"}
          /\ \A i \in JobIds \ {runner.id} : jobs'[i] = jobs[i]
      BY <1>0, <1>3, BookInv
    <2>2. runner.pc # "write" /\ clock' = clock
      BY <1>3 DEF Book
    <2>3. \A i \in JobIds : Exists(jobs', i) <=> Exists(jobs, i)
      BY <2>1 DEF Exists
    <2> QED
      BY <1>0, <2>1, <2>2, <2>3, IdleFrame DEF postVars
  <1>4. CASE Restart
    <2>1. /\ RunInv' /\ runner'.pc = "idle"
          /\ \A i \in JobIds :
               \/ jobs'[i] = jobs[i]
               \/ jobs[i].status = "running" /\ jobs'[i].status \in {"queued", "failed"}
      BY <1>0, <1>4, RestartInv
    <2>2. runner.pc # "write" /\ clock' = clock
      BY <1>4 DEF Restart
    <2>3. \A i \in JobIds : Exists(jobs', i) <=> Exists(jobs, i)
      BY <2>1 DEF Exists
    <2> QED
      BY <1>0, <2>1, <2>2, <2>3, IdleFrame DEF postVars
  <1>5. CASE Tick
    <2>1. RunInv' /\ clock' = clock + 1 /\ UNCHANGED <<jobs, runner>>
      BY <1>0, <1>5, TickInv DEF Tick
    <2> QED
      BY <1>0, <2>1, IdleFrame DEF postVars
  <1> QED
    BY <1>1, <1>2, <1>3, <1>4, <1>5 DEF CrosspostRunStep, CrosspostTime

(* What a step of the handler leaves alone.                                *)
LEMMA HandlerFrame ==
    ASSUME PostTypes, runner.pc \in Holds,
           \/ \E pc \in Holds : Proceed(pc)
           \/ ReturnError
           \/ /\ runner' = [runner EXCEPT !.pc = "visit"]
              /\ faults' \in {faults} \cup {f \in {faults + 1} : faults < MaxFaults}
              /\ UNCHANGED <<clock, jobs, crashes>>
    PROVE  /\ RunInv' /\ runner'.id = runner.id /\ UNCHANGED <<clock, jobs>>
           /\ runner.id \in JobIds /\ Exists(jobs, runner.id)
  <1>0. RunInv /\ runner.id \in JobIds /\ Exists(jobs, runner.id)
    BY DEF PostTypes, RunInv, HeldRowRuns, Exists
  <1>1. CASE \E pc \in Holds : Proceed(pc)
    BY <1>0, <1>1, ProceedInv DEF Proceed
  <1>2. CASE ReturnError
    BY <1>0, <1>2, ReturnErrorInv DEF ReturnError
  <1>3. CASE /\ runner' = [runner EXCEPT !.pc = "visit"]
             /\ faults' \in {faults} \cup {f \in {faults + 1} : faults < MaxFaults}
             /\ UNCHANGED <<clock, jobs, crashes>>
    <2>1. runner' \in Runner /\ runner'.pc = "visit" /\ runner'.id = runner.id
      BY <1>0, <1>3, Moved DEF Holds
    <2>2. faults' \in 0..MaxFaults /\ crashes' \in 0..MaxCrashes
      BY <1>0, <1>3, HandlerRunsAssumption DEF RunInv, RunTypeOK
    <2>3. RunInv'
      BY <1>0, <1>3, <2>1, <2>2, HandlerStepInv DEF Holds
    <2> QED
      BY <1>0, <1>3, <2>1, <2>3
  <1> QED
    BY <1>1, <1>2, <1>3

(* The post in hand joins those that left no URL behind.                   *)
LEMMA LetGo ==
    ASSUME PostTypes, PostInv, runner.pc = "write", runner'.pc \notin {"act", "write"},
           UNCHANGED <<exists, social, payload, public>>,
           \/ blind' = [blind EXCEPT ![runner.id][Head(todo)] = @ + 1] /\ lost' = lost
           \/ lost' = [lost EXCEPT ![runner.id][Head(todo)] = @ + 1] /\ blind' = blind
    PROVE  lost' \in Counts /\ blind' \in Counts /\ OnceEach'
  <1>1. /\ blind' \in Counts /\ lost' \in Counts
        /\ \A i \in JobIds, p \in Platforms :
             Unrecorded(i, p)' = IF AtHand(i, p) THEN Unrecorded(i, p) + 1 ELSE Unrecorded(i, p)
    BY OneMoreUnrecorded
  <1>2. OnceEach'
    <2> SUFFICES ASSUME exists, NEW i \in JobIds, NEW p \in Platforms
                 PROVE  /\ public[i][p] <= 1 + Unrecorded(i, p)'
                        /\ public[i][p] > Unrecorded(i, p)' => UrlRecordedSince(p, payload[i].requestedAt)
      BY DEF OnceEach, UrlRecordedSince
    <2>1. /\ public[i][p] <= 1 + Unrecorded(i, p)
          /\ public[i][p] > Unrecorded(i, p) => AtHand(i, p) \/ UrlRecordedSince(p, payload[i].requestedAt)
      BY DEF PostInv, OnceEach
    <2> QED
      BY <1>1, <2>1, CountTypes
  <1> QED
    BY <1>1, <1>2

(* The steps that end in a post, or in nothing.                            *)
LEMMA HandlerPosts ==
    ASSUME PostTypes, PostInv, ~form.open, HandlerStep
    PROVE  PostTypes' /\ PostInv'
  <1>0. /\ public \in Counts /\ lost \in Counts /\ blind \in Counts /\ clock \in Nat /\ clock >= 1
        /\ social \in [Platforms -> Nat]
    BY DEF PostTypes, RunInv, RunTypeOK
  <1>1. CASE LookUpArticle \/ Finish \/ Skip \/ Rejected \/ Fails
    <2>1. /\ runner.pc \in {"load", "visit", "act"} /\ UNCHANGED <<exists, social, form, payload, public, lost, blind>>
          /\ \/ Proceed("visit") \/ Proceed("book") \/ ReturnError
      BY <1>1 DEF LookUpArticle, Finish, Skip, Rejected, Fails, postVars
    <2>2. RunInv' /\ UNCHANGED <<clock, jobs>>
      BY <2>1, HandlerFrame DEF Holds
    <2>3. runner'.pc \in {"visit", "book"}
      <3>1. runner.pc \in Holds /\ RunInv
        BY <2>1 DEF Holds, PostTypes
      <3>2. Proceed("visit") \/ Proceed("book") => runner'.pc \in {"visit", "book"}
        BY <3>1, ProceedInv DEF Holds
      <3>3. ReturnError => runner'.pc = "book"
        BY <3>1, ReturnErrorInv
      <3> QED
        BY <2>1, <3>2, <3>3
    <2> QED
      BY <2>1, <2>2, <2>3, IdleFrame
  <1>2. CASE BuildInput
    <2>1. /\ runner.pc = "visit" /\ Proceed("act") /\ UNCHANGED postVars
          /\ ~UrlRecordedSince(Head(todo), payload[runner.id].requestedAt)
      BY <1>2 DEF BuildInput, Now
    <2>2. RunInv' /\ UNCHANGED <<clock, jobs>> /\ runner'.id = runner.id
      BY <2>1, HandlerFrame DEF Holds
    <2>3. runner'.pc = "act"
      BY <2>1, Moved DEF Proceed, PostTypes, Holds
    <2>4. OnceEach'
      <3> SUFFICES ASSUME exists, NEW i \in JobIds, NEW p \in Platforms
                   PROVE  /\ public[i][p] <= 1 + Unrecorded(i, p)
                          /\ public[i][p] > Unrecorded(i, p) => UrlRecordedSince(p, payload[i].requestedAt)
                          /\ AtHand(i, p) => public[i][p] <= Unrecorded(i, p)
        BY <2>1, <2>2, <2>3 DEF OnceEach, Unrecorded, AtHand, UrlRecordedSince, postVars
      <3>1. /\ public[i][p] <= 1 + Unrecorded(i, p)
            /\ public[i][p] > Unrecorded(i, p) => UrlRecordedSince(p, payload[i].requestedAt)
        BY <2>1 DEF PostInv, OnceEach
      <3>2. AtHand(i, p) => ~UrlRecordedSince(p, payload[i].requestedAt)
        BY <2>1 DEF AtHand
      <3> QED
        BY <3>1, <3>2, CountTypes
    <2> QED
      BY <1>0, <2>1, <2>2, <2>4, WorkerFrame DEF postVars
  <1>3. CASE Posted
    <2>1. /\ runner.pc = "act" /\ Visible /\ Proceed("write")
          /\ UNCHANGED <<exists, social, form, payload, todo, lost, blind>>
      BY <1>3 DEF Posted
    <2>2. RunInv' /\ UNCHANGED <<clock, jobs>> /\ runner'.id = runner.id /\ runner.id \in JobIds /\ Exists(jobs, runner.id)
      BY <2>1, HandlerFrame DEF Holds
    <2>3. runner'.pc = "write"
      BY <2>1, Moved DEF Proceed, PostTypes, Holds
    <2>4. /\ public' \in Counts
          /\ \A i \in JobIds, p \in Platforms : public'[i][p] = IF AtHand(i, p) THEN public[i][p] + 1 ELSE public[i][p]
      BY <1>0, <2>1, OneMore DEF Visible
    <2>5. OnceEach'
      <3> SUFFICES ASSUME exists, NEW i \in JobIds, NEW p \in Platforms
                   PROVE  /\ public'[i][p] <= 1 + Unrecorded(i, p)
                          /\ public'[i][p] > Unrecorded(i, p) => AtHand(i, p) \/ UrlRecordedSince(p, payload[i].requestedAt)
        BY <2>1, <2>2, <2>3 DEF OnceEach, Unrecorded, AtHand, UrlRecordedSince
      <3>1. /\ public[i][p] <= 1 + Unrecorded(i, p)
            /\ public[i][p] > Unrecorded(i, p) => UrlRecordedSince(p, payload[i].requestedAt)
            /\ AtHand(i, p) => public[i][p] <= Unrecorded(i, p)
        BY <2>1 DEF PostInv, OnceEach
      <3> QED
        BY <2>4, <3>1, CountTypes
    <2>6. \A i \in JobIds, p \in Platforms : public[i][p] = 0 => public'[i][p] = 0 \/ Exists(jobs, i)
      BY <2>2, <2>4 DEF AtHand
    <2> QED
      BY <1>0, <2>1, <2>2, <2>4, <2>5, <2>6, WorkerFrame
  <1>4. CASE PostedBlind \/ PostedLost
    <2>1. /\ runner.pc = "act" /\ Visible /\ UNCHANGED <<exists, social, form, payload>>
          /\ \/ blind' = [blind EXCEPT ![runner.id][Head(todo)] = @ + 1] /\ lost' = lost
             \/ lost' = [lost EXCEPT ![runner.id][Head(todo)] = @ + 1] /\ blind' = blind
      BY <1>4 DEF PostedBlind, PostedLost
    <2>2. RunInv' /\ UNCHANGED <<clock, jobs>> /\ runner'.id = runner.id /\ runner.id \in JobIds /\ Exists(jobs, runner.id)
      BY <1>4, <2>1, HandlerFrame DEF Holds, PostedBlind, PostedLost
    <2>3. runner'.pc \in {"visit", "book"}
      <3>1. runner.pc \in Holds /\ RunInv
        BY <2>1 DEF Holds, PostTypes
      <3>2. CASE runner' = [runner EXCEPT !.pc = "visit"]
        BY <3>1, <3>2 DEF RunInv, RunTypeOK, Runner
      <3>3. CASE ReturnError
        BY <3>1, <3>3, ReturnErrorInv
      <3> QED
        BY <1>4, <3>2, <3>3 DEF PostedBlind, PostedLost
    <2>4. /\ public' \in Counts /\ blind' \in Counts /\ lost' \in Counts
          /\ \A i \in JobIds, p \in Platforms :
               /\ public'[i][p] = IF AtHand(i, p) THEN public[i][p] + 1 ELSE public[i][p]
               /\ Unrecorded(i, p)' = IF AtHand(i, p) THEN Unrecorded(i, p) + 1 ELSE Unrecorded(i, p)
      <3>0. public \in Counts
        BY <1>0
      <3>1. public' = [public EXCEPT ![runner.id][Head(todo)] = @ + 1]
        BY <2>1 DEF Visible
      <3>2. /\ public' \in Counts
            /\ \A i \in JobIds, p \in Platforms : public'[i][p] = IF AtHand(i, p) THEN public[i][p] + 1 ELSE public[i][p]
        BY <3>0, <3>1, OneMore
      <3>3. /\ blind' \in Counts /\ lost' \in Counts
            /\ \A i \in JobIds, p \in Platforms :
                 Unrecorded(i, p)' = IF AtHand(i, p) THEN Unrecorded(i, p) + 1 ELSE Unrecorded(i, p)
        BY <2>1, OneMoreUnrecorded
      <3> QED
        BY <3>2, <3>3
    <2>5. OnceEach'
      <3> SUFFICES ASSUME exists, NEW i \in JobIds, NEW p \in Platforms
                   PROVE  /\ public'[i][p] <= 1 + Unrecorded(i, p)'
                          /\ public'[i][p] > Unrecorded(i, p)' => UrlRecordedSince(p, payload[i].requestedAt)
        BY <2>1, <2>3 DEF OnceEach, UrlRecordedSince
      <3>1. /\ public[i][p] <= 1 + Unrecorded(i, p)
            /\ public[i][p] > Unrecorded(i, p) => UrlRecordedSince(p, payload[i].requestedAt)
        BY <2>1 DEF PostInv, OnceEach
      <3> QED
        BY <2>4, <3>1, CountTypes
    <2>6. \A i \in JobIds, p \in Platforms : public[i][p] = 0 => public'[i][p] = 0 \/ Exists(jobs, i)
      BY <2>2, <2>4 DEF AtHand
    <2> QED
      BY <2>1, <2>2, <2>4, <2>5, <2>6, WorkerFrame
  <1>5. CASE Record
    <2>1. /\ runner.pc = "write" /\ exists /\ Proceed("visit") /\ social' = [social EXCEPT ![Head(todo)] = clock]
          /\ UNCHANGED <<exists, form, payload, public, lost, blind>>
      BY <1>5 DEF Record
    <2>2. RunInv' /\ UNCHANGED <<clock, jobs>> /\ runner'.id = runner.id
      BY <2>1, HandlerFrame DEF Holds
    <2>3. runner'.pc = "visit"
      BY <2>1, Moved DEF Proceed, PostTypes, Holds
    <2>4. social' \in [Platforms -> Nat] /\ \A p \in Platforms : social'[p] = IF p = Head(todo) THEN clock ELSE social[p]
      BY <1>0, <2>1
    <2>5. OnceEach'
      <3> SUFFICES ASSUME NEW i \in JobIds, NEW p \in Platforms
                   PROVE  /\ public[i][p] <= 1 + Unrecorded(i, p)
                          /\ public[i][p] > Unrecorded(i, p) => UrlRecordedSince(p, payload[i].requestedAt)'
        BY <2>1, <2>3 DEF OnceEach, Unrecorded
      <3>1. /\ public[i][p] <= 1 + Unrecorded(i, p)
            /\ public[i][p] > Unrecorded(i, p) => p = Head(todo) \/ UrlRecordedSince(p, payload[i].requestedAt)
        BY <2>1 DEF PostInv, OnceEach, AtHand
      <3>2. payload[i].requestedAt \in 0..clock
        BY DEF PostInv, RequestsArePast
      <3>3. p = Head(todo) \/ UrlRecordedSince(p, payload[i].requestedAt) => UrlRecordedSince(p, payload[i].requestedAt)'
        BY <1>0, <2>1, <2>4, <3>2 DEF UrlRecordedSince
      <3> QED
        BY <3>1, <3>3
    <2>6. PostTypes'
      BY <1>0, <2>1, <2>2, <2>4 DEF PostTypes
    <2>7. RowsArePrefix' /\ RequestsArePast' /\ FormIsCurrent'
      BY <2>1, <2>2 DEF PostInv, RowsArePrefix, RequestsArePast, FormIsCurrent
    <2> QED
      BY <2>5, <2>6, <2>7 DEF PostInv
  <1>6. CASE RecordFails
    <2>1. /\ runner.pc = "write" /\ runner' = [runner EXCEPT !.pc = "visit"]
          /\ blind' = [blind EXCEPT ![runner.id][Head(todo)] = @ + 1]
          /\ faults' \in {faults} \cup {f \in {faults + 1} : faults < MaxFaults}
          /\ UNCHANGED <<clock, jobs, crashes, exists, social, form, payload, public, lost>>
      BY <1>6 DEF RecordFails
    <2>2. RunInv'
      BY <2>1, HandlerFrame DEF Holds
    <2>3. runner'.pc = "visit"
      BY <2>1, Moved DEF PostTypes, Holds
    <2>4. lost' \in Counts /\ blind' \in Counts /\ OnceEach'
      BY <2>1, <2>3, LetGo
    <2> QED
      BY <1>0, <2>1, <2>2, <2>4, WorkerFrame
  <1> QED
    BY <1>1, <1>2, <1>3, <1>4, <1>5, <1>6 DEF HandlerStep

LEMMA CrashPosts ==
    ASSUME PostTypes, PostInv, ~form.open, CrosspostCrash
    PROVE  PostTypes' /\ PostInv'
  <1>1. RunInv' /\ runner'.pc = "down" /\ UNCHANGED <<clock, jobs, exists, social, form, payload, public, blind>>
    BY CrashInv DEF CrosspostCrash, Crash, PostTypes
  <1>2. CASE runner.pc = "write"
    <2>1. lost' \in Counts /\ blind' \in Counts /\ OnceEach'
      BY <1>1, <1>2, LetGo DEF CrosspostCrash
    <2> QED
      BY <1>1, <2>1, WorkerFrame DEF PostTypes
  <1>3. CASE runner.pc # "write"
    BY <1>1, <1>3, IdleFrame DEF CrosspostCrash
  <1> QED
    BY <1>2, <1>3

(* One post: with StaleForms FALSE, a request makes one public post per    *)
(* platform, plus at most one for every post that left no URL behind,      *)
(* whatever retries, crashes, restarts, saves and other requests come      *)
(* between (crosspost.go:304).  A form opened before a run and saved after *)
(* it takes the recorded URL away, and breaks it.                          *)
THEOREM OnePost == ~StaleForms /\ CrosspostSpec => []RetriesRepeatOnlyUnrecorded
  <1> SUFFICES ASSUME ~StaleForms
               PROVE  CrosspostSpec => []RetriesRepeatOnlyUnrecorded
    OBVIOUS
  <1>1. CrosspostInit => PostTypes /\ PostInv
    BY InitPosts
  <1>2. (PostTypes /\ PostInv) /\ [CrosspostNext]_crosspostVars => (PostTypes /\ PostInv)'
    <2> SUFFICES ASSUME PostTypes, PostInv, [CrosspostNext]_crosspostVars
                 PROVE  PostTypes' /\ PostInv'
      OBVIOUS
    <2>1. CASE UNCHANGED crosspostVars
      BY <2>1 DEF crosspostVars, PostTypes, RunInv, RunTypeOK, AttemptLeft, HeldRowRuns, PostInv, RowsArePrefix,
         RequestsArePast, FormIsCurrent, OnceEach, Unrecorded, AtHand, UrlRecordedSince
    <2> QED
      BY <2>1, RequestPosts, HandlerPosts, RunStepPosts, CrashPosts DEF CrosspostNext
  <1>3. PostTypes /\ PostInv => RetriesRepeatOnlyUnrecorded
    BY CountTypes DEF PostInv, OnceEach, RetriesRepeatOnlyUnrecorded, Unrecorded
  <1> QED
    BY <1>1, <1>2, <1>3, PTL DEF CrosspostSpec
=============================================================================
