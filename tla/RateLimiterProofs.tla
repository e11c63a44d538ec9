------------------------- MODULE RateLimiterProofs -------------------------
(***************************************************************************)
(* For every number of requests, clients and tokens: if the idle time      *)
(* leaves room for the longest call in progress, the limiter decides like  *)
(* one bucket per client that is never swept.                              *)
(***************************************************************************)
EXTENDS RateLimiter, TLAPS

Roomy == MaxIdle >= Full + 2 * MaxStall

(* A call read the clock at most MaxStall ago. *)
CallsAreRecent ==
    \A t \in Threads : call[t].pc # "idle" =>
        call[t].now <= clock /\ clock - call[t].now <= MaxStall

(* A call that passed the check under the mutex holds the key's entry, whose *)
(* stamp is too young to be swept before the token is spent.                 *)
CheckedEntryStays ==
    \A t \in Threads : call[t].pc \in {"sweep", "spend"} =>
        /\ call[t].vis # None
        /\ visitors[call[t].key] = call[t].vis
        /\ heap[call[t].vis].lastSeen >= call[t].now - MaxStall

(* An object belongs to one key. *)
OneKeyPerVisitor ==
    /\ \A k, l \in Keys : visitors[k] # None /\ visitors[k] = visitors[l] => k = l
    /\ \A t \in Threads : call[t].pc = "stamp" =>
        call[t].vis # None /\ \A k \in Keys : visitors[k] = call[t].vis => k = call[t].key

(* An entry has the credit of the ideal bucket, which is full again by the   *)
(* time the entry may be swept; a key without an entry has a full bucket.    *)
EntriesFollowIdeal ==
    \A k \in Keys :
        IF visitors[k] = None THEN ideal[k] = Full
        ELSE /\ heap[visitors[k]].credit = ideal[k]
             /\ \/ ideal[k] = Full
                \/ ideal[k] >= clock - heap[visitors[k]].lastSeen - 2 * MaxStall

IInv ==
    /\ TypeOK
    /\ CallsAreRecent
    /\ CheckedEntryStays
    /\ OneKeyPerVisitor
    /\ EntriesFollowIdeal

-----------------------------------------------------------------------------
LEMMA FullIsPositive == Full \in Nat /\ Full >= Cost /\ Cost \in Nat \ {0}
<1>1. Burst \in Nat /\ Cost \in Nat /\ Burst >= 1 /\ Cost >= 1
  BY RateLimiterAssumption
<1>2. \A c \in Nat, d \in Nat : c >= 1 => c * d \in Nat /\ c * d >= d
  <2> TAKE c \in Nat, d \in Nat
  <2> HAVE c >= 1
  <2>1. c * d = (c - 1) * d + d /\ (c - 1) * d \in Nat
    BY Z3
  <2> QED BY <2>1
<1> QED BY <1>1, <1>2 DEF Full

LEMMA InitIInv == Init => IInv
<1> SUFFICES ASSUME Init PROVE IInv
  OBVIOUS
<1>1. TypeOK
  BY FullIsPositive DEF Init, TypeOK, Call, Visitor, NoCall
<1> QED BY <1>1 DEF IInv, Init, NoCall, CallsAreRecent, CheckedEntryStays,
                    OneKeyPerVisitor, EntriesFollowIdeal

LEMMA ArriveIInv ==
    ASSUME IInv, NEW t \in Threads, Arrive(t) PROVE IInv'
<1> USE DEF IInv
<1> PICK k \in Keys :
        call' = [call EXCEPT ![t] = [pc |-> "publish", key |-> k, now |-> clock, vis |-> None]]
  BY DEF Arrive
<1>0. UNCHANGED <<clock, visitors, heap, lastSweep, ideal>>
  BY DEF Arrive
<1>1. TypeOK'
  BY <1>0 DEF TypeOK, Call
<1>2. CallsAreRecent'
  BY <1>0, RateLimiterAssumption DEF TypeOK, Call, CallsAreRecent
<1>3. CheckedEntryStays'
  BY <1>0 DEF TypeOK, Call, CheckedEntryStays
<1>4. OneKeyPerVisitor'
  BY <1>0 DEF TypeOK, Call, OneKeyPerVisitor
<1>5. EntriesFollowIdeal'
  BY <1>0 DEF EntriesFollowIdeal
<1> QED BY <1>1, <1>2, <1>3, <1>4, <1>5

LEMMA JoinIInv ==
    ASSUME IInv, NEW t \in Threads, Join(t) PROVE IInv'
<1> USE DEF IInv
<1>0. UNCHANGED <<clock, visitors, heap, lastSweep, ideal>>
  BY DEF Join
<1>a. call[t].key \in Keys /\ visitors[call[t].key] \in Visitors
  BY DEF Join, TypeOK, Call
<1>1. TypeOK'
  <2> DEFINE c == [call[t] EXCEPT !.pc = "stamp", !.vis = visitors[call[t].key]]
  <2>1. call \in [Threads -> Call] /\ call[t] \in Call
    BY DEF TypeOK
  <2>2. c \in Call /\ c.key = call[t].key
    BY <1>a, <2>1 DEF Call
  <2>3. call' = [call EXCEPT ![t] = c]
    BY <2>1 DEF Join
  <2> HIDE DEF c
  <2>4. call' \in [Threads -> Call] /\ call'[t] = c /\ \A u \in Threads \ {t} : call'[u] = call[u]
    BY <2>1, <2>2, <2>3
  <2> QED
    BY <1>0, <1>a, <2>2, <2>4 DEF TypeOK
<1>2. CallsAreRecent'
  BY <1>0 DEF Join, TypeOK, Call, CallsAreRecent
<1>3. CheckedEntryStays'
  BY <1>0 DEF Join, TypeOK, Call, CheckedEntryStays
<1>4. OneKeyPerVisitor'
  BY <1>0, <1>a DEF Join, TypeOK, Call, OneKeyPerVisitor
<1>5. EntriesFollowIdeal'
  BY <1>0 DEF EntriesFollowIdeal
<1> QED BY <1>1, <1>2, <1>3, <1>4, <1>5

LEMMA PublishIInv ==
    ASSUME IInv, NEW t \in Threads, Publish(t) PROVE IInv'
<1> USE DEF IInv
<1> PICK v \in Visitors :
        /\ Free(v)
        /\ visitors' = [visitors EXCEPT ![call[t].key] = v]
        /\ heap' = [heap EXCEPT ![v] = [credit |-> Full, lastSeen |-> call[t].now]]
        /\ call' = [call EXCEPT ![t].pc = "stamp", ![t].vis = v]
  BY DEF Publish
<1>0. UNCHANGED <<clock, lastSweep, ideal>> /\ call[t].pc = "publish" /\ visitors[call[t].key] = None
  BY DEF Publish
<1>a. call[t].key \in Keys /\ call[t].now \in Nat /\ v # None
  BY <1>0, RateLimiterAssumption DEF TypeOK, Call
<1>b. heap'[v] = [credit |-> Full, lastSeen |-> call[t].now]
  BY DEF TypeOK
<1>c. \A w \in Visitors : w # v => heap'[w] = heap[w]
  BY DEF TypeOK
<1>d. heap' \in [Visitors -> Visitor]
  BY <1>a, FullIsPositive DEF TypeOK, Visitor
<1>e. call' \in [Threads -> Call] /\ \A u \in Threads : call'[u].key = call[u].key
  <2> DEFINE c == [call[t] EXCEPT !.pc = "stamp", !.vis = v]
  <2>1. call \in [Threads -> Call] /\ call[t] \in Call
    BY DEF TypeOK
  <2>2. c \in Call /\ c.key = call[t].key
    BY <2>1 DEF Call
  <2>3. call' = [call EXCEPT ![t] = c]
    BY <2>1
  <2> HIDE DEF c
  <2> QED
    BY <2>1, <2>2, <2>3
<1>f. visitors' \in [Keys -> Visitors \cup {None}]
  BY DEF TypeOK
<1>1. TypeOK'
  <2>1. \A u \in Threads : call'[u].pc # "idle" => call[u].pc # "idle"
    BY <1>0 DEF TypeOK, Call
  <2> QED BY <2>1, <1>0, <1>d, <1>e, <1>f DEF TypeOK
<1>2. CallsAreRecent'
  BY <1>0 DEF TypeOK, Call, CallsAreRecent
<1>3. CheckedEntryStays'
  BY <1>0, <1>a, <1>c DEF TypeOK, Call, CheckedEntryStays, Free
<1>4. OneKeyPerVisitor'
  BY <1>0, <1>a DEF TypeOK, Call, OneKeyPerVisitor, Free
<1>5. EntriesFollowIdeal'
  BY <1>0, <1>a, <1>b, <1>c DEF TypeOK, EntriesFollowIdeal, Free
<1> QED BY <1>1, <1>2, <1>3, <1>4, <1>5

LEMMA StampIInv ==
    ASSUME IInv, NEW t \in Threads, Stamp(t) PROVE IInv'
<1> USE DEF IInv
<1> DEFINE v == call[t].vis
<1>0. UNCHANGED <<clock, visitors, lastSweep, ideal>> /\ call[t].pc = "stamp"
  BY DEF Stamp
<1>a. /\ call[t].key \in Keys /\ call[t].now \in Nat /\ v \in Visitors
      /\ call[t].now <= clock /\ clock - call[t].now <= MaxStall
  BY <1>0 DEF TypeOK, Call, OneKeyPerVisitor, CallsAreRecent
<1>b. heap'[v].lastSeen = call[t].now /\ heap'[v].credit = heap[v].credit
  BY <1>a DEF Stamp, TypeOK, Visitor
<1>c. \A w \in Visitors : w # v => heap'[w] = heap[w]
  BY DEF Stamp, TypeOK
<1>d. heap' \in [Visitors -> Visitor]
  BY <1>a DEF Stamp, TypeOK, Visitor
<1>e. \A u \in Threads : u # t => call'[u] = call[u]
  BY DEF Stamp, TypeOK
<1>f. /\ call'[t].key = call[t].key
      /\ \/ /\ visitors[call[t].key] = v /\ call'[t].pc = "sweep"
            /\ call'[t].now = call[t].now /\ call'[t].vis = v
         \/ call'[t].pc = "publish" /\ call'[t].now = clock
  <2>1. CASE visitors[call[t].key] = v
    BY <2>1 DEF Stamp, TypeOK, Call
  <2>2. CASE visitors[call[t].key] # v
    BY <2>2 DEF Stamp, TypeOK, Call
  <2> QED BY <2>1, <2>2
<1>1. TypeOK'
  <2>1. call \in [Threads -> Call] /\ call[t] \in Call /\ clock \in Nat
    BY DEF TypeOK
  <2>2. PICK c \in Call : call' = [call EXCEPT ![t] = c] /\ c.key = call[t].key
    <3>1. CASE visitors[call[t].key] = v
      <4>1. [call[t] EXCEPT !.pc = "sweep"] \in Call /\ [call[t] EXCEPT !.pc = "sweep"].key = call[t].key
        BY <2>1 DEF Call
      <4> QED
        BY <2>1, <3>1, <4>1 DEF Stamp
    <3>2. CASE visitors[call[t].key] # v
      <4>1. /\ [call[t] EXCEPT !.pc = "publish", !.now = clock, !.vis = None] \in Call
            /\ [call[t] EXCEPT !.pc = "publish", !.now = clock, !.vis = None].key = call[t].key
        BY <2>1 DEF Call
      <4> QED
        BY <2>1, <3>2, <4>1 DEF Stamp
    <3> QED
      BY <3>1, <3>2
  <2>3. call' \in [Threads -> Call] /\ \A u \in Threads : call'[u].key = call[u].key
    BY <2>1, <2>2
  <2> QED
    BY <1>0, <1>a, <1>d, <1>e, <2>3 DEF TypeOK
<1>2. CallsAreRecent'
  BY <1>0, <1>a, <1>e, <1>f, RateLimiterAssumption DEF TypeOK, CallsAreRecent
<1>3. CheckedEntryStays'
  <2> SUFFICES ASSUME NEW u \in Threads, call'[u].pc \in {"sweep", "spend"}
               PROVE  /\ call'[u].vis # None
                      /\ visitors[call'[u].key] = call'[u].vis
                      /\ heap'[call'[u].vis].lastSeen >= call'[u].now - MaxStall
    BY <1>0 DEF CheckedEntryStays
  <2>1. CASE u = t
    BY <2>1, <1>a, <1>b, <1>f, RateLimiterAssumption
  <2>2. CASE u # t
    <3>1. call'[u] = call[u] /\ call[u].vis \in Visitors
      BY <2>2, <1>e DEF TypeOK, Call, CheckedEntryStays
    <3>2. call[u].now \in Nat /\ call[u].now <= clock
      BY <3>1 DEF TypeOK, Call, CallsAreRecent
    <3> QED BY <3>1, <3>2, <1>a, <1>b, <1>c, RateLimiterAssumption
            DEF TypeOK, CheckedEntryStays
  <2> QED BY <2>1, <2>2
<1>4. OneKeyPerVisitor'
  BY <1>0, <1>e, <1>f DEF OneKeyPerVisitor
<1>5. EntriesFollowIdeal'
  <2> SUFFICES ASSUME NEW k \in Keys, visitors[k] # None
               PROVE  /\ heap'[visitors[k]].credit = ideal[k]
                      /\ \/ ideal[k] = Full
                         \/ ideal[k] >= clock - heap'[visitors[k]].lastSeen - 2 * MaxStall
    BY <1>0 DEF EntriesFollowIdeal
  <2>1. CASE visitors[k] = v
    BY <2>1, <1>a, <1>b, RateLimiterAssumption DEF TypeOK, EntriesFollowIdeal
  <2>2. CASE visitors[k] # v
    BY <2>2, <1>c DEF TypeOK, EntriesFollowIdeal
  <2> QED BY <2>1, <2>2
<1> QED BY <1>1, <1>2, <1>3, <1>4, <1>5

LEMMA SweepIInv ==
    ASSUME IInv, Roomy, NEW t \in Threads, Sweep(t) PROVE IInv'
<1> USE DEF IInv
<1>0. UNCHANGED <<clock, heap, ideal>> /\ call[t].pc = "sweep"
      /\ call' = [call EXCEPT ![t].pc = "spend"]
  BY DEF Sweep
<1>a. call[t].now \in Nat /\ call[t].now <= clock /\ clock \in Nat
  BY <1>0 DEF TypeOK, Call, CallsAreRecent
<1>b. \A k \in Keys : \/ visitors'[k] = visitors[k]
                      \/ visitors'[k] = None /\ Condemned(k, call[t].now)
  <2>1. CASE call[t].now - lastSweep < SweepEvery
    BY <2>1 DEF Sweep
  <2>2. CASE ~(call[t].now - lastSweep < SweepEvery)
    BY <2>2 DEF Sweep, Condemned
  <2> QED BY <2>1, <2>2
<1>c. visitors' \in [Keys -> Visitors \cup {None}] /\ lastSweep' \in Nat
  BY <1>a DEF Sweep, TypeOK
<1>d. Full \in Nat /\ MaxStall \in Nat /\ MaxIdle \in Nat
  BY FullIsPositive, RateLimiterAssumption
<1>1. TypeOK'
  BY <1>0, <1>c DEF TypeOK, Call
<1>2. CallsAreRecent'
  BY <1>0 DEF TypeOK, Call, CallsAreRecent
<1>3. CheckedEntryStays'
  <2> SUFFICES ASSUME NEW u \in Threads, call[u].pc \in {"sweep", "spend"}
               PROVE  visitors'[call[u].key] = visitors[call[u].key]
    BY <1>0 DEF TypeOK, Call, CheckedEntryStays
  <2>1. /\ call[u].key \in Keys /\ call[u].now \in Nat /\ clock - call[u].now <= MaxStall
        /\ visitors[call[u].key] = call[u].vis /\ call[u].vis \in Visitors
        /\ heap[call[u].vis].lastSeen >= call[u].now - MaxStall
        /\ heap[call[u].vis].lastSeen \in Nat
    BY DEF TypeOK, Call, Visitor, CallsAreRecent, CheckedEntryStays
  <2>2. ~Condemned(call[u].key, call[t].now)
    BY <2>1, <1>a, <1>d DEF Condemned, Roomy
  <2> QED BY <2>1, <2>2, <1>b
<1>4. OneKeyPerVisitor'
  <2>1. \A k \in Keys : visitors'[k] # None => visitors'[k] = visitors[k]
    BY <1>b
  <2> QED BY <2>1, <1>0 DEF TypeOK, Call, OneKeyPerVisitor
<1>5. EntriesFollowIdeal'
  <2> SUFFICES ASSUME NEW k \in Keys, visitors'[k] = None, Condemned(k, call[t].now)
               PROVE  ideal[k] = Full
    BY <1>0, <1>b DEF EntriesFollowIdeal
  <2>1. /\ visitors[k] \in Visitors /\ heap[visitors[k]].lastSeen \in Nat
        /\ heap[visitors[k]].lastSeen < call[t].now - MaxIdle
        /\ ideal[k] \in 0..Full
    BY DEF Condemned, TypeOK, Visitor
  <2> QED BY <2>1, <1>a, <1>d DEF EntriesFollowIdeal, Condemned, Roomy
<1> QED BY <1>1, <1>2, <1>3, <1>4, <1>5

LEMMA SpendIInv ==
    ASSUME IInv, NEW t \in Threads, Spend(t) PROVE IInv'
<1> USE DEF IInv
<1> DEFINE v == call[t].vis
           k == call[t].key
<1>0. UNCHANGED <<clock, visitors, lastSweep>> /\ call[t].pc = "spend"
      /\ call' = [call EXCEPT ![t] = NoCall]
  BY DEF Spend
<1>a. /\ k \in Keys /\ v \in Visitors /\ visitors[k] = v /\ v # None
      /\ heap[v].credit = ideal[k] /\ ideal[k] \in 0..Full
      /\ heap[v].lastSeen \in Nat
  BY <1>0 DEF TypeOK, Call, Visitor, CheckedEntryStays, EntriesFollowIdeal
<1>b. /\ call[t].now \in Nat /\ clock \in Nat /\ clock - call[t].now <= MaxStall
      /\ heap[v].lastSeen >= call[t].now - MaxStall
  BY <1>0 DEF TypeOK, Call, CallsAreRecent, CheckedEntryStays
<1>c. Spent(ideal[k]) \in 0..Full
  BY <1>a, FullIsPositive DEF Spent, Enough
<1>d. /\ heap'[v].credit = Spent(ideal[k]) /\ heap'[v].lastSeen = heap[v].lastSeen
      /\ \A w \in Visitors : w # v => heap'[w] = heap[w]
      /\ \A w \in Visitors : heap'[w].lastSeen = heap[w].lastSeen
  BY <1>a DEF Spend, TypeOK, Visitor
<1>e. ideal'[k] = Spent(ideal[k]) /\ \A l \in Keys : l # k => ideal'[l] = ideal[l]
  BY <1>a DEF Spend, TypeOK
<1>f. heap' \in [Visitors -> Visitor]
  BY <1>a, <1>c DEF Spend, TypeOK, Visitor
<1>g. ideal' \in [Keys -> 0..Full]
  BY <1>a, <1>c DEF Spend, TypeOK
<1>1. TypeOK'
  BY <1>0, <1>f, <1>g DEF TypeOK, Call, NoCall
<1>2. CallsAreRecent'
  BY <1>0 DEF TypeOK, Call, NoCall, CallsAreRecent
<1>3. CheckedEntryStays'
  BY <1>0, <1>d DEF TypeOK, Call, NoCall, CheckedEntryStays
<1>4. OneKeyPerVisitor'
  BY <1>0 DEF TypeOK, Call, NoCall, OneKeyPerVisitor
<1>5. EntriesFollowIdeal'
  <2> SUFFICES ASSUME NEW l \in Keys
               PROVE  IF visitors[l] = None THEN ideal'[l] = Full
                      ELSE /\ heap'[visitors[l]].credit = ideal'[l]
                           /\ \/ ideal'[l] = Full
                              \/ ideal'[l] >= clock - heap'[visitors[l]].lastSeen - 2 * MaxStall
    BY <1>0 DEF EntriesFollowIdeal
  <2>1. CASE l = k
    BY <2>1, <1>a, <1>b, <1>c, <1>d, <1>e, FullIsPositive, RateLimiterAssumption
  <2>2. CASE l # k
    <3>1. visitors[l] # None => visitors[l] \in Visitors /\ visitors[l] # v
      BY <2>2, <1>a DEF TypeOK, OneKeyPerVisitor
    <3> QED BY <2>2, <3>1, <1>d, <1>e DEF EntriesFollowIdeal
  <2> QED BY <2>1, <2>2
<1> QED BY <1>1, <1>2, <1>3, <1>4, <1>5

LEMMA TickIInv ==
    ASSUME IInv, Tick PROVE IInv'
<1> USE DEF IInv
<1>0. UNCHANGED <<visitors, lastSweep, call>> /\ clock' = clock + 1
  BY DEF Tick
<1>a. \A c \in 0..Full : Refilled(c) \in 0..Full /\ (Refilled(c) = c + 1 \/ Refilled(c) = Full)
  BY FullIsPositive DEF Refilled
<1>b. \A v \in Visitors : heap'[v].credit = Refilled(heap[v].credit)
                          /\ heap'[v].lastSeen = heap[v].lastSeen
  BY DEF Tick, TypeOK, Visitor
<1>c. \A k \in Keys : ideal'[k] = Refilled(ideal[k])
  BY DEF Tick
<1>d. heap' \in [Visitors -> Visitor] /\ ideal' \in [Keys -> 0..Full]
  BY <1>a DEF Tick, TypeOK, Visitor
<1>1. TypeOK'
  BY <1>0, <1>d DEF TypeOK
<1>2. CallsAreRecent'
  BY <1>0, RateLimiterAssumption DEF Tick, TypeOK, Call, CallsAreRecent
<1>3. CheckedEntryStays'
  BY <1>0, <1>b DEF TypeOK, Call, CheckedEntryStays
<1>4. OneKeyPerVisitor'
  BY <1>0 DEF OneKeyPerVisitor
<1>5. EntriesFollowIdeal'
  <2> SUFFICES ASSUME NEW k \in Keys
               PROVE  IF visitors[k] = None THEN ideal'[k] = Full
                      ELSE /\ heap'[visitors[k]].credit = ideal'[k]
                           /\ \/ ideal'[k] = Full
                              \/ ideal'[k] >= clock' - heap'[visitors[k]].lastSeen - 2 * MaxStall
    BY <1>0 DEF EntriesFollowIdeal
  <2>1. ideal[k] \in 0..Full
    BY DEF TypeOK
  <2>2. CASE visitors[k] = None
    BY <2>1, <2>2, <1>c, FullIsPositive DEF EntriesFollowIdeal, Refilled
  <2>3. CASE visitors[k] # None
    <3>1. visitors[k] \in Visitors /\ heap[visitors[k]].lastSeen \in Nat /\ clock \in Nat
      BY <2>3 DEF TypeOK, Visitor
    <3> QED BY <2>1, <2>3, <3>1, <1>0, <1>a, <1>b, <1>c, FullIsPositive, RateLimiterAssumption
            DEF EntriesFollowIdeal
  <2> QED BY <2>2, <2>3
<1> QED BY <1>1, <1>2, <1>3, <1>4, <1>5

LEMMA StutterIInv == ASSUME IInv, UNCHANGED vars PROVE IInv'
BY DEF vars, IInv, TypeOK, CallsAreRecent, CheckedEntryStays, OneKeyPerVisitor, EntriesFollowIdeal

(* The inductive invariant of Allow holds in every state of a limiter whose *)
(* idle time leaves room for the longest call.                              *)
THEOREM LimiterInvariant == Roomy => (Spec => []IInv)
<1> SUFFICES ASSUME Roomy PROVE Spec => []IInv
  OBVIOUS
<1>1. Init => IInv
  BY InitIInv
<1>2. IInv /\ [Next]_vars => IInv'
  <2> SUFFICES ASSUME IInv, [Next]_vars PROVE IInv'
    OBVIOUS
  <2>1. CASE Tick
    BY <2>1, TickIInv
  <2>2. ASSUME NEW t \in Threads, Allow(t) PROVE IInv'
    BY <2>2, ArriveIInv, JoinIInv, PublishIInv, StampIInv, SweepIInv, SpendIInv DEF Allow
  <2>3. CASE UNCHANGED vars
    BY <2>3, StutterIInv
  <2> QED BY <2>1, <2>2, <2>3 DEF Next
<1> QED BY <1>1, <1>2, PTL DEF Spec

(* ratelimit.go decides every request like one bucket per client that is    *)
(* never swept: no spent token is lost and no client with a token refused.  *)
THEOREM LimiterDecides == Roomy => (Spec => []DecidesLikeOneBucket)
<1> SUFFICES ASSUME Roomy PROVE Spec => []DecidesLikeOneBucket
  OBVIOUS
<1>1. IInv => DecidesLikeOneBucket
  BY DEF IInv, TypeOK, Call, CheckedEntryStays, EntriesFollowIdeal, DecidesLikeOneBucket
<1>2. Spec => []IInv
  BY LimiterInvariant
<1> QED BY <1>1, <1>2, PTL
=============================================================================
