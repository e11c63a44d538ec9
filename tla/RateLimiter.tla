---------------------------- MODULE RateLimiter ----------------------------
(***************************************************************************)
(* IPRateLimiter of internal/httpd/ratelimit.go: a map of token buckets,   *)
(* one per client key, whose idle entries any request may sweep.  Several  *)
(* requests run Allow at once; only stamping and sweeping take the mutex.  *)
(* The ghost `ideal' is the bucket of each key were it never swept.        *)
(*                                                                         *)
(* Time advances in the unit in which one credit accrues; a request costs  *)
(* Cost credits and a full bucket holds Burst * Cost.                      *)
(***************************************************************************)
EXTENDS Integers, FiniteSets

CONSTANTS
    Threads,     \* concurrent requests
    Keys,        \* client keys
    Burst, Cost, \* NewIPRateLimiter: b, and the units in which a token accrues (1/r)
    MaxIdle,     \* age at which an entry may be swept
    SweepEvery,  \* least time between two sweeps
    Visitors,    \* addresses of visitor objects
    None,        \* no visitor, no key
    MaxStall,    \* longest time an Allow call is in progress
    MaxTime      \* bound on the clock

Full == Burst * Cost

(* maxIdle is raised to the time a whole burst takes to accrue.  An address *)
(* is free when no entry and no request holds it, so these never run out.   *)
ASSUME RateLimiterAssumption ==
    /\ Burst \in Nat \ {0} /\ Cost \in Nat \ {0}
    /\ MaxIdle \in Nat /\ MaxIdle >= Full
    /\ SweepEvery \in Nat /\ MaxStall \in Nat /\ MaxTime \in Nat
    /\ None \notin Visitors /\ None \notin Keys

VARIABLES
    clock,      \* time.Now
    visitors,   \* the sync.Map: key to visitor
    heap,       \* the visitor objects: credit of the limiter, lastSeen
    lastSweep,
    call,       \* the Allow call of each thread
    ideal       \* ghost: credit of each key's bucket, never swept

vars == <<clock, visitors, heap, lastSweep, call, ideal>>

Visitor == [credit : 0..Full, lastSeen : Nat]

Call == [pc : {"idle", "publish", "stamp", "sweep", "spend"},
         key : Keys \cup {None}, now : Nat, vis : Visitors \cup {None}]

NoCall == [pc |-> "idle", key |-> None, now |-> 0, vis |-> None]

TypeOK ==
    /\ clock \in Nat
    /\ visitors \in [Keys -> Visitors \cup {None}]
    /\ heap \in [Visitors -> Visitor]
    /\ lastSweep \in Nat
    /\ call \in [Threads -> Call]
    /\ \A t \in Threads : call[t].pc # "idle" => call[t].key \in Keys
    /\ ideal \in [Keys -> 0..Full]

Init ==
    /\ clock = 0
    /\ visitors = [k \in Keys |-> None]
    /\ heap = [v \in Visitors |-> [credit |-> Full, lastSeen |-> 0]]
    /\ lastSweep = 0
    /\ call = [t \in Threads |-> NoCall]
    /\ ideal = [k \in Keys |-> Full]

-----------------------------------------------------------------------------
Free(v) ==
    /\ \A k \in Keys : visitors[k] # v
    /\ \A t \in Threads : call[t].vis # v

(* A request arrives; Allow reads the time. *)
Arrive(t) ==
    /\ call[t].pc = "idle"
    /\ \E k \in Keys :
        call' = [call EXCEPT ![t] = [pc |-> "publish", key |-> k, now |-> clock, vis |-> None]]
    /\ UNCHANGED <<clock, visitors, heap, lastSweep, ideal>>

(* LoadOrStore finds the key's entry ... *)
Join(t) ==
    /\ call[t].pc = "publish" /\ visitors[call[t].key] # None
    /\ call' = [call EXCEPT ![t].pc = "stamp", ![t].vis = visitors[call[t].key]]
    /\ UNCHANGED <<clock, visitors, heap, lastSweep, ideal>>

(* ... or publishes a new one, already stamped. *)
Publish(t) ==
    /\ call[t].pc = "publish" /\ visitors[call[t].key] = None
    /\ \E v \in Visitors :
        /\ Free(v)
        /\ visitors' = [visitors EXCEPT ![call[t].key] = v]
        /\ heap' = [heap EXCEPT ![v] = [credit |-> Full, lastSeen |-> call[t].now]]
        /\ call' = [call EXCEPT ![t].pc = "stamp", ![t].vis = v]
    /\ UNCHANGED <<clock, lastSweep, ideal>>

(* Faulty: the entry is stamped and taken to be still in the map. *)
MutStamp(t) ==
    /\ call[t].pc = "stamp"
    /\ heap' = [heap EXCEPT ![call[t].vis].lastSeen = call[t].now]
    /\ call' = [call EXCEPT ![t].pc = "sweep"]
    /\ UNCHANGED <<clock, visitors, lastSweep, ideal>>

(* Under l.mu: stamp, and start over if the entry is no longer in the map.  *)
Stamp(t) ==
    /\ call[t].pc = "stamp"
    /\ heap' = [heap EXCEPT ![call[t].vis].lastSeen = call[t].now]
    /\ call' = IF visitors[call[t].key] = call[t].vis
               THEN [call EXCEPT ![t].pc = "sweep"]
               ELSE [call EXCEPT ![t] = [@ EXCEPT !.pc = "publish", !.now = clock, !.vis = None]]
    /\ UNCHANGED <<clock, visitors, lastSweep, ideal>>

Condemned(k, now) == visitors[k] # None /\ heap[visitors[k]].lastSeen < now - MaxIdle

(* Under l.mu, which keeps lastSeen still: one pass at most per SweepEvery. *)
Sweep(t) ==
    /\ call[t].pc = "sweep"
    /\ IF call[t].now - lastSweep < SweepEvery
       THEN UNCHANGED <<visitors, lastSweep>>
       ELSE /\ visitors' = [k \in Keys |-> IF Condemned(k, call[t].now) THEN None ELSE visitors[k]]
            /\ lastSweep' = call[t].now
    /\ call' = [call EXCEPT ![t].pc = "spend"]
    /\ UNCHANGED <<clock, heap, ideal>>

(* rate.Limiter.Allow: a token is spent if there is one. *)
Enough(credit) == credit >= Cost

Spent(credit) == IF Enough(credit) THEN credit - Cost ELSE credit

Spend(t) ==
    /\ call[t].pc = "spend"
    /\ heap' = [heap EXCEPT ![call[t].vis].credit = Spent(@)]
    /\ ideal' = [ideal EXCEPT ![call[t].key] = Spent(@)]
    /\ call' = [call EXCEPT ![t] = NoCall]
    /\ UNCHANGED <<clock, visitors, lastSweep>>

(* Buckets refill at one credit per unit up to the burst. *)
Refilled(credit) == IF credit < Full THEN credit + 1 ELSE credit

Tick ==
    /\ clock < MaxTime
    /\ \A t \in Threads : call[t].pc # "idle" => clock - call[t].now < MaxStall
    /\ clock' = clock + 1
    /\ heap' = [v \in Visitors |-> [heap[v] EXCEPT !.credit = Refilled(@)]]
    /\ ideal' = [k \in Keys |-> Refilled(ideal[k])]
    /\ UNCHANGED <<visitors, lastSweep, call>>

Allow(t) == Arrive(t) \/ Join(t) \/ Publish(t) \/ Stamp(t) \/ Sweep(t) \/ Spend(t)

Next == Tick \/ \E t \in Threads : Allow(t)

Spec == Init /\ [][Next]_vars

-----------------------------------------------------------------------------
(* Every request is decided as one bucket per key would that is never       *)
(* swept: sweeping, publishing and retrying neither lose a spent token (the *)
(* comments of Allow) nor refuse a client that has one left.                *)
DecidesLikeOneBucket ==
    \A t \in Threads : call[t].pc = "spend" =>
        (Enough(heap[call[t].vis].credit) <=> Enough(ideal[call[t].key]))
=============================================================================
